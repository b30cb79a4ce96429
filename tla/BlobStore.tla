----------------------------- MODULE BlobStore -----------------------------
(***************************************************************************)
(* What the chunk store promises about files, with no word on requests,    *)
(* retries or devices: a file is opened once, filled piece by piece while  *)
(* it is open, and completed when it has all its pieces; from then on it   *)
(* does not change until it is purged, for good.  A piece is read of a     *)
(* complete file only, so whoever has read all of them has the file as it  *)
(* was completed.                                                          *)
(***************************************************************************)
CONSTANTS Name, Piece

VARIABLES
    state,   \* what has become of each file
    pieces,  \* the pieces it has
    read     \* the pieces a reader has of it

vars == <<state, pieces, read>>

Init ==
    /\ state = [n \in Name |-> "none"]
    /\ pieces = [n \in Name |-> {}]
    /\ read = {}

Open(n) ==
    /\ state[n] = "none"
    /\ state' = [state EXCEPT ![n] = "open"]
    /\ UNCHANGED <<pieces, read>>

Put(n, p) ==
    /\ state[n] = "open"
    /\ pieces' = [pieces EXCEPT ![n] = @ \cup {p}]
    /\ UNCHANGED <<state, read>>

Seal(n) ==
    /\ state[n] = "open" /\ pieces[n] = Piece
    /\ state' = [state EXCEPT ![n] = "complete"]
    /\ UNCHANGED <<pieces, read>>

Purge(n) ==
    /\ state[n] \in {"open", "complete"}
    /\ state' = [state EXCEPT ![n] = "purged"]
    /\ pieces' = [pieces EXCEPT ![n] = {}]
    /\ UNCHANGED read

Read(n, p) ==
    /\ state[n] = "complete"
    /\ read' = read \cup {<<n, p>>}
    /\ UNCHANGED <<state, pieces>>

\* A reader starts again.
Forget ==
    /\ read' = {}
    /\ UNCHANGED <<state, pieces>>

Next ==
    \/ \E n \in Name : Open(n) \/ Seal(n) \/ Purge(n)
    \/ \E n \in Name, p \in Piece : Put(n, p) \/ Read(n, p)
    \/ Forget

Spec == Init /\ [][Next]_vars
=============================================================================
