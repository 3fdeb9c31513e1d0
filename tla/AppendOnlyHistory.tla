------------------------- MODULE AppendOnlyHistory -------------------------
(***************************************************************************)
(* What the memory promises about the past, and nothing else: for every    *)
(* identifier there is a history of versions that only ever grows at its   *)
(* end, keeps the origin it began with, and runs forward in time.  The one *)
(* exception is an explicit erasure, which takes the whole history at once *)
(* and retires the identifier for good.                                    *)
(*                                                                         *)
(* docs/INVARIANTS.md words this as "history is append-only", "origin is   *)
(* permanent" and "erasure is explicit, reasoned and audited".  Both the   *)
(* objects of core/objects.js and the edges of core/relations.js are shown *)
(* to implement it.                                                        *)
(***************************************************************************)
EXTENDS Naturals, Sequences

CONSTANTS Ids,          \* the identifiers
          KeepsOrigin   \* TRUE when the origin of a history may never change

VARIABLES history,      \* id -> the sequence of its version rows
          erased        \* the identifiers whose history was erased

(* A version carries at least an origin and the instant it was recorded at. *)
Latest(i) == history[i][Len(history[i])]

Init == /\ history = [i \in Ids |-> <<>>]
        /\ erased = {}

(* A history begins once, for an identifier that was never used. *)
Begin(i) == /\ i \notin erased
            /\ history[i] = <<>>
            /\ history'[i] # <<>>
            /\ history' = [history EXCEPT ![i] = <<Latest(i)'>>]
            /\ UNCHANGED erased

(* Every later version is appended after all the earlier ones. *)
Record(i) == /\ history[i] # <<>>
             /\ history'[i] # <<>>
             /\ KeepsOrigin => Latest(i)'.origin = Latest(i).origin
             /\ Latest(i)'.recorded_at >= Latest(i).recorded_at
             /\ history' = [history EXCEPT ![i] = Append(@, Latest(i)')]
             /\ UNCHANGED erased

(* Erasure is of everything about some identifiers at once: purging an     *)
(* object takes the edges that touch it along.                             *)
Erase(gone) == /\ gone # {}
               /\ \A i \in gone : history[i] # <<>>
               /\ history' = [i \in Ids |-> IF i \in gone THEN <<>> ELSE history[i]]
               /\ erased' = erased \cup gone

Next == \/ \E i \in Ids : Begin(i) \/ Record(i)
        \/ \E gone \in SUBSET Ids : Erase(gone)

Spec == Init /\ [][Next]_<<history, erased>>
=============================================================================
