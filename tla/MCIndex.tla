------------------------------ MODULE MCIndex ------------------------------
(* TLC instance of Index. *)
EXTENDS Index, TLC

IndexSymmetry == Permutations(ObjectIds) \cup Permutations(Texts)
=============================================================================
