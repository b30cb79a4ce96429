----------------------------- MODULE MCPrekeys -----------------------------
(***************************************************************************)
(* Prekeys for TLC: three requests, a batch of two keys, two identities.   *)
(***************************************************************************)
EXTENDS Prekeys, TLC

Senders == Permutations(Sender)
=============================================================================
