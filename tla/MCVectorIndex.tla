--------------------------- MODULE MCVectorIndex ---------------------------
(* TLC instance of the search by vector: Index, which says what reaches    *)
(* the approximate index, and Ann, which says how that finds it again.     *)
(* The first state names the one that moves; the other rests.              *)
EXTENDS Index, Ann, TLC

VectorSymmetry == Permutations(ObjectIds) \cup Permutations(Texts) \cup Permutations(Owners)

(* Two that are near each other, one of them twice as long, one far off    *)
(* and as near to a third as the second is, and a text without a word.     *)
MCVectors == {<<5, 0>>, <<8, 6>>, <<4, -3>>, <<0, 0>>}

VARIABLE part  \* what this behaviour is about

VectorInit == part \in {"index", "ann"} /\ Init /\ AnnInit

VectorNext == /\ UNCHANGED part
              /\ \/ part = "index" /\ Next /\ UNCHANGED annVars
                 \/ part = "ann" /\ AnnNext /\ UNCHANGED vars

VectorSpec == VectorInit /\ [][VectorNext]_<<part, vars, annVars>>

(* What reached the index is found in it, or is in a list that was not     *)
(* looked through.                                                         *)
OnlyTheUnprobedIsMissed == part = "ann" => ApproximationHolds
=============================================================================
