------------------------------- MODULE MCSync -------------------------------
(* TLC instance of Sync: two installations and what they tell each other. *)
EXTENDS Sync, TLC

SyncSymmetry == Permutations(ObjectIds) \cup Permutations(Texts) \cup Permutations(Facts)
=============================================================================
