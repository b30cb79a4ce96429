------------------------------ MODULE MCInbox ------------------------------
(***************************************************************************)
(* Inbox for TLC: two messages of one thread, and inbox pages smaller than *)
(* the inbox.                                                              *)
(***************************************************************************)
EXTENDS Inbox, TLC

CONSTANTS m1, m2, t1, MaxReceipts

OneThread == [m \in Msg |-> t1]

Messages == Permutations(Msg)

\* Receipts in flight, waiting on the database or about to be emitted, by a
\* handler that shows its message or by markThreadRead, at a time.
FewReceipts ==
    Cardinality(uplink) + Cardinality(jobs) + Cardinality(opening)
      + Cardinality(toMark \cup {m \in Msg : pc[m] = "showing"}) <= MaxReceipts
=============================================================================
