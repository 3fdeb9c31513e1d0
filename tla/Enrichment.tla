----------------------------- MODULE Enrichment -----------------------------
(***************************************************************************)
(* What src/chitraq.js does to an object once it is in memory: enrich()    *)
(* with relate(), and the notices of src/context/proactive.js.             *)
(*                                                                         *)
(* Enriching waits for a capability again and again, and people go on      *)
(* writing: an object read at the beginning may since have been corrected, *)
(* confirmed, forgotten or erased.  How the gateway keeps a proposal is    *)
(* module Gateway's; here one is made in one step and decided in another.  *)
(***************************************************************************)
EXTENDS Integers, Sequences, FiniteSets, SequencesExt

CONSTANTS Captures,      \* objects somebody remembers, all written by people
          Helpers,       \* enrichments that may run at once
          Alike,         \* captures worded much alike, by lexicalSimilarity()
          MaxNotices,    \* how many notices are told at the end: five
          MaxChanges     \* bound: what people do afterwards

ASSUME EnrichmentAssumption == /\ MaxChanges \in Nat /\ MaxNotices \in Nat
                               /\ Alike \subseteq Captures

VARIABLES note,     \* table object, for the captures there are
          mentioned,   \* captures with an active edge to the entity they name
          clash,       \* table conflict, the open rows: ordered pairs
          offered,     \* pending proposals of a relation, as ordered pairs
          helper,      \* where an enrichment is
          told,        \* the notices of an enrichment that has just ended
          changes      \* how much people have done

enrichmentVars == <<note, mentioned, clash, offered, helper, told, changes>>

Captured == DOMAIN note
Resting == [at |-> "rest"]
NotYet == -1       \* no keywords
Untold == [of |-> "nobody", notices |-> {}]
Pairs == {pair \in Captures \X Captures : pair[1] # pair[2]}

HeldRow == [state : {"active", "archived", "deleted"}, words : Nat,
            keywords : {NotYet} \cup Nat, review : {"unreviewed", "confirmed", "rejected"}]

Helping == [at : {"indexing", "reading", "embedding", "relating", "checking"},
            of : Captures, words : Nat, near : Seq(Captures), hits : Seq(Captures)]

Notice == [kind : {"seen-before", "contradiction", "previously-rejected"},
           row : {<<y>> : y \in Captures} \cup Pairs]

EnrichmentTypeOK ==
    /\ Captured \subseteq Captures /\ \A x \in Captured : note[x] \in HeldRow
    /\ mentioned \subseteq Captures
    /\ clash \subseteq Pairs /\ offered \subseteq Pairs
    /\ \A h \in Helpers : helper[h] \in {Resting} \cup Helping
    /\ told.of \in Captures \cup {"nobody"} /\ told.notices \subseteq Notice
    /\ changes \in 0..MaxChanges

Active(x) == x \in Captured /\ note[x].state = "active"
IsAt(h, stage) == helper[h].at = stage
MovesTo(h, where) == helper' = [helper EXCEPT ![h] = where]
-----------------------------------------------------------------------------
(* remember(), and accept() of a proposed object: persisted first, then    *)
(* indexed, and enriched once, when that is done.                          *)
Remembered(x, h) ==
    /\ x \notin Captured /\ IsAt(h, "rest")
    /\ note' = [y \in Captured \cup {x} |->
                   IF y = x THEN [state |-> "active", words |-> 0, keywords |-> NotYet,
                                  review |-> "unreviewed"]
                   ELSE note[y]]
    /\ MovesTo(h, [at |-> "indexing", of |-> x, words |-> 0, near |-> <<>>, hits |-> <<>>])
    /\ told' = Untold /\ UNCHANGED <<mentioned, clash, offered, changes>>

(* The object is read, and its keywords and the names in it are asked for; *)
(* erased meanwhile, it is not found.                                      *)
BeginEnrich(h) ==
    /\ IsAt(h, "indexing")
    /\ LET x == helper[h].of
       IN MovesTo(h, IF x \in Captured THEN [helper[h] EXCEPT !.at = "reading", !.words = note[x].words]
                                ELSE Resting)
    /\ told' = Untold /\ UNCHANGED <<note, mentioned, clash, offered, changes>>

(* Mutant: nobody asks whether a person confirmed it. *)
WelcomeAnyway(x) == x \in Captured

(* The derived attributes, a proposal the policy accepts at once: invalid  *)
(* about what is gone or was confirmed, and refused by an update of what   *)
(* was forgotten, which ends the enrichment.                               *)
Welcome(x) == x \in Captured /\ note[x].review # "confirmed"
Unsettable(x, keywords) == \/ x \notin Captured
                           \/ keywords /\ Welcome(x) /\ note[x].state = "deleted"

(* Keywords and names have come: attributes, mentions, and then the search *)
(* for what is similar, for which an embedding is asked.                   *)
ReadingAnswers(h, keywords, names) ==
    /\ IsAt(h, "reading")
    /\ LET x == helper[h].of
           derived == keywords \/ names
       IN IF Unsettable(x, derived)
          THEN MovesTo(h, Resting) /\ UNCHANGED <<note, mentioned>>
          ELSE /\ note' = IF derived /\ Welcome(x)
                          THEN [note EXCEPT ![x].keywords = helper[h].words] ELSE note
               /\ mentioned' = IF names THEN mentioned \cup {x} ELSE mentioned
               /\ MovesTo(h, [helper[h] EXCEPT !.at = "embedding"])
    /\ told' = Untold /\ UNCHANGED <<clash, offered, changes>>

(* Mutant: of the disagreements, those the object was looked at for.       *)
DisputesOfOwn(x) == {pair \in clash' : pair[1] = x}

(* What an object disagrees with, whichever side of the row it is.         *)
Disputes(x) == {pair \in clash' : x \in {pair[1], pair[2]}}

(* forObject(): what is worded alike among what is near, every open row    *)
(* about the object, and what is alike and was rejected; as many as are    *)
(* told, the strongest of them, which may be any.                          *)
Notices(x, near) ==
    LET alike == IF x \in Alike THEN (Alike \cap Captured) \ {x} ELSE {}
        Of(kind, rows) == [kind : {kind}, row : rows]
        all == Of("seen-before", {<<y>> : y \in ToSet(near) \cap alike})
               \cup Of("contradiction", Disputes(x))
               \cup Of("previously-rejected",
                       {<<y>> : y \in {z \in alike : note[z].review = "rejected"}})
    IN kSubset(Min({MaxNotices, Cardinality(all)}), all)

(* The next of the similar objects that is still there is compared; after  *)
(* the last comparison for relations come those for contradictions, and    *)
(* after these the notices.                                                *)
StillThere(list) ==
    LET first == SelectInSeq(list, LAMBDA y : y \in Captured)
    IN IF first = 0 THEN <<>> ELSE SubSeq(list, first, Len(list))

Proceeds(h, at, near, left) ==
    LET x == helper[h].of
        comparing == IF at = "relating" THEN StillThere(left) ELSE <<>>
        checking == StillThere(IF at = "relating" THEN near ELSE left)
        Row(stage, hits) == [helper[h] EXCEPT !.at = stage, !.near = near, !.hits = hits]
    IN IF comparing # <<>> THEN MovesTo(h, Row("relating", comparing)) /\ told' = Untold
       ELSE IF checking # <<>> THEN MovesTo(h, Row("checking", checking)) /\ told' = Untold
       ELSE /\ MovesTo(h, Resting)
            /\ \E some \in IF x \in Captured THEN Notices(x, near) ELSE {{}} :
                  told' = [of |-> x, notices |-> some]

(* similarTo(): what is near in the index by now, the object aside.        *)
SimilarFound(h, near) ==
    /\ IsAt(h, "embedding")
    /\ \A y \in ToSet(near) : Active(y) /\ y # helper[h].of
    /\ UNCHANGED <<note, mentioned, clash, offered, changes>>
    /\ Proceeds(h, "relating", near, near)

(* A relation is proposed, and recorded as invalid when one end is gone.   *)
RelationAnswers(h, related) ==
    /\ IsAt(h, "relating")
    /\ LET x == helper[h].of
           y == Head(helper[h].hits)
       IN offered' = IF related /\ {x, y} \subseteq Captured THEN offered \cup {<<x, y>>} ELSE offered
    /\ UNCHANGED <<note, mentioned, clash, changes>>
    /\ Proceeds(h, "relating", helper[h].near, Tail(helper[h].hits))

(* recordConflict(): once while it is open, this way round.  Nobody asks   *)
(* whether either side is still there.                                     *)
RecordConflict(pair) == clash \cup {pair}

ClashAnswers(h, contradicts) ==
    /\ IsAt(h, "checking")
    /\ LET pair == <<helper[h].of, Head(helper[h].hits)>>
       IN clash' = IF contradicts THEN RecordConflict(pair) ELSE clash
    /\ UNCHANGED <<note, mentioned, offered, changes>>
    /\ Proceeds(h, "checking", helper[h].near, Tail(helper[h].hits))
-----------------------------------------------------------------------------
PeopleAct == /\ changes < MaxChanges
             /\ changes' = changes + 1
             /\ told' = Untold /\ UNCHANGED helper

(* What people do to a capture; what is deleted can only be restored.      *)
People(x, row) ==
    /\ PeopleAct
    /\ x \in Captured /\ row # note[x]
    /\ note' = [note EXCEPT ![x] = row]
    /\ UNCHANGED <<mentioned, clash, offered>>

Revise(x) ==
    \/ /\ note[x].state # "deleted"
       /\ \/ People(x, [note[x] EXCEPT !.words = @ + 1])
          \/ People(x, [note[x] EXCEPT !.review = "confirmed"])
          \/ People(x, [note[x] EXCEPT !.review = "rejected", !.state = "archived"])
          \/ People(x, [note[x] EXCEPT !.state = "deleted"])
    \/ People(x, [note[x] EXCEPT !.state = "active"])

EraseCapture(x) ==
    /\ PeopleAct
    /\ x \in Captured
    /\ note' = [y \in Captured \ {x} |-> note[y]]
    /\ mentioned' = mentioned \ {x}
    /\ clash' = {pair \in clash : x \notin {pair[1], pair[2]}}
    /\ UNCHANGED offered

SettleClash(pair) == /\ PeopleAct
                     /\ clash' = clash \ {pair}
                     /\ UNCHANGED <<note, mentioned, offered>>

DecideOffer(pair) == /\ PeopleAct
                     /\ offered' = offered \ {pair}
                     /\ UNCHANGED <<note, mentioned, clash>>

EnrichmentInit ==
    /\ note = [x \in {} |-> Resting]
    /\ mentioned = {} /\ clash = {} /\ offered = {}
    /\ helper = [h \in Helpers |-> Resting]
    /\ told = Untold
    /\ changes = 0

EnrichmentNext ==
    \/ \E h \in Helpers :
          \/ \E x \in Captures : Remembered(x, h)
          \/ BeginEnrich(h)
          \/ \E keywords, names \in BOOLEAN : ReadingAnswers(h, keywords, names)
          \/ \E near \in SetToAllKPermutations(Captured) : SimilarFound(h, near)
          \/ \E related \in BOOLEAN : RelationAnswers(h, related)
          \/ \E contradicts \in BOOLEAN : ClashAnswers(h, contradicts)
    \/ \E x \in Captured : Revise(x) \/ EraseCapture(x)
    \/ \E pair \in clash : SettleClash(pair)
    \/ \E pair \in offered : DecideOffer(pair)

EnrichmentSpec == EnrichmentInit /\ [][EnrichmentNext]_enrichmentVars
-----------------------------------------------------------------------------
(* "It cannot corrupt what was captured": what an enrichment read before   *)
(* it waited never undoes what people did meanwhile.  Nothing but a person *)
(* changes what an object says, whether it is there and what was decided   *)
(* about it, and once it is confirmed or put away nothing but a person     *)
(* changes what is derived from it.                                        *)
EnrichmentDefersToPeople ==
    [][changes' = changes =>
          /\ Captured \subseteq Captured'
          /\ \A x \in Captured :
                /\ [note'[x] EXCEPT !.keywords = NotYet] = [note[x] EXCEPT !.keywords = NotYet]
                /\ (note[x].review = "confirmed" \/ note[x].state = "deleted") =>
                      note'[x] = note[x]]_enrichmentVars

(* An enrichment that comes to its end about an object that is still there *)
(* tells of everything that object is in disagreement with, whichever side *)
(* it was noticed from, unless there is more to tell than is told.         *)
DisagreementsAreTold ==
    [][\A h \in Helpers :
          (/\ helper[h].at \in {"embedding", "relating", "checking"} /\ helper'[h] = Resting
           /\ helper[h].of \in Captured) =>
              \/ \A pair \in clash' : helper[h].of \in {pair[1], pair[2]} =>
                    [kind |-> "contradiction", row |-> pair] \in told'.notices
              \/ Cardinality(told'.notices) = MaxNotices]_enrichmentVars
=============================================================================
