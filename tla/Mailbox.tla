------------------------------ MODULE Mailbox ------------------------------
(***************************************************************************)
(* What the message path promises about one recipient's messages, with no  *)
(* word on sockets, inbox rows or handlers.  A message that was relayed is *)
(* either entered into the recipient's history, once, or it is gone; both  *)
(* are final.                                                              *)
(*                                                                         *)
(* Several messages may be given up in one step (the recipient's page is   *)
(* reloaded in the middle of several handlers), but at most one is entered *)
(* per step.                                                               *)
(***************************************************************************)
CONSTANT Msg

VARIABLE fate

Fate == {"unsent", "sent", "shown", "gone"}

\* What may become of one message in one step.
Moves ==
    {<<"unsent", "unsent">>, <<"sent", "sent">>, <<"shown", "shown">>,
     <<"gone", "gone">>, <<"unsent", "sent">>, <<"sent", "shown">>,
     <<"sent", "gone">>}

Init == fate = [m \in Msg |-> "unsent"]

Next ==
    /\ fate' \in [Msg -> Fate]
    /\ \A m \in Msg : <<fate[m], fate'[m]>> \in Moves
    /\ \A m, n \in Msg :
          (fate[m] # fate'[m] /\ fate'[m] = "shown"
             /\ fate[n] # fate'[n] /\ fate'[n] = "shown") => m = n

Spec == Init /\ [][Next]_fate
=============================================================================
