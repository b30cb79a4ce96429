------------------------------ MODULE MCCalls -------------------------------
(***************************************************************************)
(* Calls for TLC: two users, a first call, one that follows it, and one in *)
(* the other direction.                                                    *)
(***************************************************************************)
EXTENDS Calls

CONSTANTS alice, bob, back

Places == [c \in Call |-> IF c = back THEN bob ELSE alice]
IsPlaced == [c \in Call |-> IF c = back THEN alice ELSE bob]
=============================================================================
