----------------------------- MODULE MCGateway -----------------------------
(* TLC instance of Gateway, for one process and for two. *)
EXTENDS Gateway, TLC

GatewaySymmetry == Permutations(ObjectIds) \cup Permutations(Contents)
                     \cup Permutations(ProposalIds) \cup Permutations(Notes)
=============================================================================
