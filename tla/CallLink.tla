------------------------------ MODULE CallLink ------------------------------
(***************************************************************************)
(* The media path of one answered call, and how its two ends bring it back *)
(* (web/lib/callClient.ts; call.gateway.ts relays what they say).          *)
(*                                                                         *)
(* A round is one restart of ICE: the caller's offer and the callee's      *)
(* answer to it.  The path works when both ends are in the same round and  *)
(* the network is there.  An offer or answer is applied by the state of    *)
(* the signalling alone: nothing in it names the round.  Creating and      *)
(* setting a description is one step here, and the peer connection is      *)
(* external: it reports its state by itself.                               *)
(***************************************************************************)
EXTENDS Naturals, Sequences

CONSTANTS
    Rounds,    \* bound: offers made, the call's first one included
    MaxSignals \* bound: messages on their way to one end

ASSUME LinkAssumption == Rounds \in Nat \ {0} /\ MaxSignals \in Nat \ {0}

VARIABLES
    network,   \* the path between the ends is there
    offer,     \* the caller's last offer, and whether it awaits an answer
    applied,   \* the round each end is in; the caller's may mix two
    pc,        \* connectionState of each end
    reconnecting,
    timer,     \* timers armed at each end
    over,      \* ends that gave up (failCall: onFailure, dispose)
    signals,   \* what is on its way to each end
    collided   \* an offer was made while the last one was open, or
               \* something was lost on its way (auxiliary)

endVars == <<pc, reconnecting, timer, over>>
roundVars == <<offer, applied, collided>>
linkVars == <<network, endVars, roundVars, signals>>

End == {"caller", "callee"}
Peer(e) == IF e = "caller" THEN "callee" ELSE "caller"
Round == 1 .. Rounds
Timer == {"grace", "retry", "giveUp"}
Signal == [kind : {"restart", "answer"}, round : Round] \cup [kind : {"request"}]

LinkTypeOK ==
    /\ network \in BOOLEAN
    /\ offer \in [round : Round, open : BOOLEAN]
    /\ applied \in [caller : [mine : Round, theirs : Round], callee : Round]
    /\ pc \in [End -> {"connecting", "connected", "disconnected", "failed"}]
    /\ reconnecting \in [End -> BOOLEAN]
    /\ timer \in [End -> SUBSET Timer]
    /\ over \subseteq End
    /\ signals \in [End -> Seq(Signal)]
    /\ \A e \in End : Len(signals[e]) <= MaxSignals
    /\ collided \in BOOLEAN

LinkInit ==
    /\ network = TRUE
    /\ offer = [round |-> 1, open |-> FALSE]
    /\ applied = [caller |-> [mine |-> 1, theirs |-> 1], callee |-> 1]
    /\ pc = [e \in End |-> "connecting"]
    /\ reconnecting = [e \in End |-> FALSE]
    /\ timer = [e \in End |-> {}]
    /\ over = {}
    /\ signals = [e \in End |-> <<>>]
    /\ collided = FALSE

Agreed == applied.caller = [mine |-> applied.callee, theirs |-> applied.callee]
Works == network /\ Agreed /\ over = {}

-----------------------------------------------------------------------------
Tell(e, signal) ==
    /\ Len(signals[e]) < MaxSignals
    /\ signals' = [signals EXCEPT ![e] = Append(@, signal)]

\* restartIce: a new offer, also while one is open.
RestartIce ==
    IF offer.round < Rounds
    THEN /\ offer' = [round |-> offer.round + 1, open |-> TRUE]
         /\ collided' = (collided \/ offer.open)
         /\ Tell("callee", [kind |-> "restart", round |-> offer.round + 1])
         /\ UNCHANGED applied
    ELSE UNCHANGED <<roundVars, signals>>  \* bound

\* sendRestart: the callee can only ask.
SendRestart(e) ==
    \/ e = "caller" /\ RestartIce
    \/ e = "callee" /\ Tell("caller", [kind |-> "request"]) /\ UNCHANGED roundVars

\* Mutation: the deadline is not set after the grace time.
BeginReconnectNoEnd(e) ==
    /\ reconnecting' = [reconnecting EXCEPT ![e] = TRUE]
    /\ timer' = [timer EXCEPT ![e] = (@ \ {"grace"}) \cup {"retry"}]
    /\ SendRestart(e)

\* beginReconnect: the call is given up 45 s after the first drop, restarts are
\* asked for at once and every 7 s.
BeginReconnect(e) ==
    /\ reconnecting' = [reconnecting EXCEPT ![e] = TRUE]
    /\ timer' = [timer EXCEPT ![e] = (@ \ {"grace"}) \cup {"retry", "giveUp"}]
    /\ SendRestart(e)

\* The peer connection reports "connected" at either of its two events.
MarkConnected(e) ==
    /\ e \notin over /\ pc[e] # "connected" /\ Works
    /\ pc' = [pc EXCEPT ![e] = "connected"]
    /\ reconnecting' = [reconnecting EXCEPT ![e] = FALSE]
    /\ timer' = [timer EXCEPT ![e] = {}]
    /\ UNCHANGED <<network, over, roundVars, signals>>

\* It reports "disconnected": often a blip that heals on its own.
Disconnected(e) ==
    /\ e \notin over /\ pc[e] = "connected" /\ ~Works
    /\ pc' = [pc EXCEPT ![e] = "disconnected"]
    /\ timer' = [timer EXCEPT ![e] = @ \cup {"grace"}]
    /\ UNCHANGED <<network, reconnecting, over, roundVars, signals>>

\* It reports "failed": a grace timer that runs is left running.
Failed(e) ==
    /\ e \notin over /\ pc[e] \in {"connecting", "disconnected"} /\ ~Works
    /\ pc' = [pc EXCEPT ![e] = "failed"]
    /\ reconnecting' = [reconnecting EXCEPT ![e] = TRUE]
    /\ timer' = [timer EXCEPT ![e] = @ \cup {"retry", "giveUp"}]
    /\ SendRestart(e)
    /\ UNCHANGED <<network, over>>

\* DISCONNECT_GRACE_MS.
GraceOver(e) ==
    /\ "grace" \in timer[e] /\ pc[e] # "connected"
    /\ BeginReconnect(e)
    /\ UNCHANGED <<network, pc, over>>

\* RESTART_RETRY_MS.
RetryRestart(e) ==
    /\ "retry" \in timer[e]
    /\ SendRestart(e)
    /\ UNCHANGED <<network, endVars>>

\* GIVE_UP_MS: failCall ends the call and disposes of the client.
GiveUpLink(e) ==
    /\ "giveUp" \in timer[e]
    /\ over' = over \cup {e}
    /\ timer' = [timer EXCEPT ![e] = {}]
    /\ UNCHANGED <<network, pc, reconnecting, roundVars, signals>>

\* notifyNetworkChange: a restart although nothing may be wrong.
NotifyNetworkChange(e) ==
    /\ e \notin over
    /\ SendRestart(e)
    /\ UNCHANGED <<network, endVars>>

-----------------------------------------------------------------------------
Hear(e, kind) ==
    /\ e \notin over /\ signals[e] # <<>>
    /\ Head(signals[e]).kind = kind

\* A new description makes a failed connection try again.
Recheck(e) == pc' = [pc EXCEPT ![e] = IF @ = "failed" THEN "connecting" ELSE @]

\* Mutation: an end that is not reconnecting ignores the offer.
HandleOfferIfReconnecting ==
    LET round == Head(signals["callee"]).round
        takes == reconnecting["callee"] IN
    /\ Hear("callee", "restart") /\ Len(signals["caller"]) < MaxSignals
    /\ applied' = [applied EXCEPT !.callee = IF takes THEN round ELSE @]
    /\ signals' = [signals EXCEPT
        !["callee"] = Tail(@),
        !["caller"] = IF takes THEN Append(@, [kind |-> "answer", round |-> round]) ELSE @]
    /\ Recheck("callee")
    /\ UNCHANGED <<network, reconnecting, timer, over, offer, collided>>

\* handleRestartOffer: the callee answers whatever offer comes.
HandleRestartOffer ==
    LET round == Head(signals["callee"]).round IN
    /\ Hear("callee", "restart") /\ Len(signals["caller"]) < MaxSignals
    /\ applied' = [caller |-> applied.caller, callee |-> round]
    /\ signals' = [signals EXCEPT !["callee"] = Tail(@),
                                  !["caller"] = Append(@, [kind |-> "answer", round |-> round])]
    /\ Recheck("callee")
    /\ UNCHANGED <<network, reconnecting, timer, over, offer, collided>>

\* applyRestartAnswer: taken for the answer to the open offer, if there is one.
ApplyRestartAnswer ==
    LET round == Head(signals["caller"]).round IN
    /\ Hear("caller", "answer")
    /\ signals' = [signals EXCEPT !["caller"] = Tail(@)]
    /\ IF offer.open
       THEN /\ applied' = [caller |-> [mine |-> offer.round, theirs |-> round], callee |-> applied.callee]
            /\ offer' = [round |-> offer.round, open |-> FALSE]
            /\ Recheck("caller")
       ELSE UNCHANGED <<applied, offer, pc>>
    /\ UNCHANGED <<network, reconnecting, timer, over, collided>>

\* call:restart-request.
HearRequest ==
    /\ Hear("caller", "request")
    /\ IF offer.round < Rounds
       THEN /\ Len(signals["callee"]) < MaxSignals
            /\ offer' = [round |-> offer.round + 1, open |-> TRUE]
            /\ collided' = (collided \/ offer.open)
            /\ signals' = [signals EXCEPT
                !["caller"] = Tail(@),
                !["callee"] = Append(@, [kind |-> "restart", round |-> offer.round + 1])]
       ELSE /\ signals' = [signals EXCEPT !["caller"] = Tail(@)]
            /\ UNCHANGED <<offer, collided>>
    /\ UNCHANGED <<network, endVars, applied>>

\* A socket was down: what was on its way is gone.
LoseSignal(e) ==
    /\ signals[e] # <<>>
    /\ signals' = [signals EXCEPT ![e] = Tail(@)]
    /\ collided' = TRUE
    /\ UNCHANGED <<network, endVars, offer, applied>>

\* The network between the ends comes and goes.
NetworkChanges ==
    /\ network' = ~network
    /\ UNCHANGED <<endVars, roundVars, signals>>

LinkNext ==
    \/ \E e \in End :
        \/ MarkConnected(e) \/ Disconnected(e) \/ Failed(e) \/ GraceOver(e) \/ RetryRestart(e)
        \/ GiveUpLink(e) \/ NotifyNetworkChange(e) \/ LoseSignal(e)
    \/ HandleRestartOffer \/ ApplyRestartAnswer \/ HearRequest
    \/ NetworkChanges

LinkSpec == LinkInit /\ [][LinkNext]_linkVars

\* The timers fire.
LinkFairness == \A e \in End : WF_linkVars(GiveUpLink(e))

-----------------------------------------------------------------------------
(* What must hold. *)

\* With every message arrived, both ends are in the same round, or an offer of
\* the caller collided the answer to the last: the answer taken for the wrong
\* offer, or the callee's answer dropped because none was open.
SameRound ==
    /\ \A e \in End : signals[e] = <<>>
    /\ ~collided
    => Agreed /\ ~offer.open

\* The call screen does not say "Reconnecting" for ever: the path comes back or
\* the call is given up, however many drops, restarts and requests there are.
ReconnectEnds == \A e \in End : reconnecting[e] ~> ~reconnecting[e] \/ e \in over

\* While an end reconnects, it will ask again: nothing it hears or sees meanwhile
\* leaves it waiting for an answer that was lost.
KeepsTrying ==
    \A e \in End \ over : reconnecting[e] => {"retry", "giveUp"} \subseteq timer[e]
=============================================================================
