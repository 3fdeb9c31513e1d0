--------------------------- MODULE CaptureProofs ----------------------------
(***************************************************************************)
(* How things come into the memory: EnrichmentDefersToPeople and           *)
(* DisagreementsAreTold for any captures, helpers and changes,             *)
(* ConceptsAreDecidedOnce for any phrases, texts and searches,             *)
(* SettledSavesAreCaptured for any folder, and ImportedMemoryIsWhole for   *)
(* any memories, objects and files.                                        *)
(***************************************************************************)
EXTENDS Enrichment, Concepts, Watch, Transfer, FiniteSetTheorems, TLAPS

(***************************************************************************)
(* Enrichment: what people decided stands.                                 *)
(***************************************************************************)
(* What an enrichment may do to the captures that are there: nothing, or   *)
(* to write what is derived from one nobody confirmed or put away.         *)
Decided(x) == note[x].review = "confirmed" \/ note[x].state = "deleted"
Defers == /\ Captured \subseteq Captured'
          /\ \A x \in Captured :
                \/ note'[x] = note[x]
                \/ ~Decided(x) /\ \E words : note'[x] = [note[x] EXCEPT !.keywords = words]

(* A step is one of an enrichment or one of people.                        *)
HelperStep(h) ==
    \/ \E x \in Captures : Remembered(x, h)
    \/ BeginEnrich(h)
    \/ \E keywords, names \in BOOLEAN : ReadingAnswers(h, keywords, names)
    \/ \E near : SimilarFound(h, near)
    \/ \E related \in BOOLEAN : RelationAnswers(h, related)
    \/ \E contradicts \in BOOLEAN : ClashAnswers(h, contradicts)

(* Every step is a helper's or a person's.                                 *)
LEMMA WhoseStep == EnrichmentNext => (\E h \in Helpers : HelperStep(h)) \/ PeopleAct
<1> SUFFICES ASSUME EnrichmentNext PROVE (\E h \in Helpers : HelperStep(h)) \/ PeopleAct
  OBVIOUS
<1>1. \/ \E h \in Helpers : HelperStep(h)
      \/ \E x \in Captured : Revise(x) \/ EraseCapture(x)
      \/ \E pair \in clash : SettleClash(pair)
      \/ \E pair \in offered : DecideOffer(pair)
  BY Zenon DEF EnrichmentNext, HelperStep
<1>2. \A x \in Captured : Revise(x) => PeopleAct
  BY DEF Revise, People
<1> QED BY <1>1, <1>2 DEF EraseCapture, SettleClash, DecideOffer

(* A step of a helper that defers leaves the people their word.            *)
LEMMA DeferringIsEnough ==
    ASSUME Defers
    PROVE  /\ Captured \subseteq Captured'
           /\ \A x \in Captured :
                /\ [note'[x] EXCEPT !.keywords = NotYet] = [note[x] EXCEPT !.keywords = NotYet]
                /\ (note[x].review = "confirmed" \/ note[x].state = "deleted") => note'[x] = note[x]
<1> SUFFICES ASSUME NEW x \in Captured
             PROVE  /\ [note'[x] EXCEPT !.keywords = NotYet] = [note[x] EXCEPT !.keywords = NotYet]
                    /\ (note[x].review = "confirmed" \/ note[x].state = "deleted") => note'[x] = note[x]
  BY DEF Defers
<1>1. CASE note'[x] = note[x]
  BY <1>1
<1>2. CASE ~Decided(x) /\ \E words : note'[x] = [note[x] EXCEPT !.keywords = words]
  <2> PICK words : note'[x] = [note[x] EXCEPT !.keywords = words]
    BY <1>2
  <2>1. [note'[x] EXCEPT !.keywords = NotYet] = [note[x] EXCEPT !.keywords = NotYet]
    OBVIOUS
  <2> QED BY <1>2, <2>1 DEF Decided
<1> QED BY <1>1, <1>2 DEF Defers

(* Keywords are written when they come, which may be long after the text   *)
(* they are about was read.                                                *)
LEMMA LateKeywordsDefer ==
    ASSUME NEW h \in Helpers, NEW keywords \in BOOLEAN, NEW names \in BOOLEAN,
           ReadingAnswers(h, keywords, names)
    PROVE  Defers
<1> DEFINE x == helper[h].of
           derived == keywords \/ names
<1>1. CASE Unsettable(x, derived)
  BY <1>1 DEF ReadingAnswers, Defers, Captured
<1>2. CASE ~Unsettable(x, derived) /\ ~(derived /\ Welcome(x))
  BY <1>2 DEF ReadingAnswers, Defers, Captured
<1>3. CASE ~Unsettable(x, derived) /\ derived /\ Welcome(x)
  <2>1. note' = [note EXCEPT ![x].keywords = helper[h].words]
    BY <1>3 DEF ReadingAnswers
  <2>2. x \in Captured /\ ~Decided(x)
    BY <1>3 DEF Unsettable, Welcome, Decided
  <2>3. Captured' = Captured
    BY <2>1 DEF Captured
  <2>4. \A y \in Captured : IF y = x THEN note'[y] = [note[x] EXCEPT !.keywords = helper[h].words]
                                     ELSE note'[y] = note[y]
    BY <2>1 DEF Captured
  <2> QED BY <2>2, <2>3, <2>4 DEF Defers
<1> QED BY <1>1, <1>2, <1>3

(* The other steps of an enrichment leave what is there alone.             *)
LEMMA EnrichingDefers ==
    ASSUME NEW h \in Helpers,
           HelperStep(h)
    PROVE  Defers
<1>1. CASE \E x \in Captures : Remembered(x, h)
  BY <1>1 DEF Remembered, Defers, Captured
<1>2. CASE \E keywords, names \in BOOLEAN : ReadingAnswers(h, keywords, names)
  BY <1>2, LateKeywordsDefer
<1>3. CASE UNCHANGED note
  BY <1>3 DEF Defers, Captured
<1> QED BY <1>1, <1>2, <1>3 DEF HelperStep, BeginEnrich, SimilarFound, RelationAnswers, ClashAnswers

(* The changes people make are counted.                                    *)
LEMMA ChangesAreCounted == EnrichmentSpec => [](changes \in Nat)
<1>1. EnrichmentInit => changes \in Nat
  BY DEF EnrichmentInit
<1>2. changes \in Nat /\ [EnrichmentNext]_enrichmentVars => (changes \in Nat)'
  <2> SUFFICES ASSUME changes \in Nat, [EnrichmentNext]_enrichmentVars PROVE changes' \in Nat
    OBVIOUS
  <2>1. CASE PeopleAct
    BY <2>1 DEF PeopleAct
  <2>2. CASE UNCHANGED changes
    BY <2>2
  <2>3. CASE \E h \in Helpers : HelperStep(h)
    BY <2>2, <2>3 DEF HelperStep, Remembered, BeginEnrich, ReadingAnswers, SimilarFound,
                      RelationAnswers, ClashAnswers
  <2> QED BY <2>1, <2>2, <2>3, WhoseStep DEF enrichmentVars
<1> QED BY <1>1, <1>2, PTL DEF EnrichmentSpec

(* Whatever a capability was asked before people wrote, confirmed, forgot  *)
(* or erased, its answer changes nothing they did.                         *)
THEOREM LateAnswersDefer == EnrichmentSpec => EnrichmentDefersToPeople
<1>1. changes \in Nat /\ [EnrichmentNext]_enrichmentVars =>
        [changes' = changes =>
           /\ Captured \subseteq Captured'
           /\ \A x \in Captured :
                /\ [note'[x] EXCEPT !.keywords = NotYet] = [note[x] EXCEPT !.keywords = NotYet]
                /\ (note[x].review = "confirmed" \/ note[x].state = "deleted") =>
                      note'[x] = note[x]]_enrichmentVars
  <2> SUFFICES ASSUME changes \in Nat, EnrichmentNext, changes' = changes
               PROVE  Defers
    BY DeferringIsEnough
  <2>1. CASE \E h \in Helpers : HelperStep(h)
    BY <2>1, EnrichingDefers
  <2>2. ~PeopleAct
    BY DEF PeopleAct
  <2> QED BY <2>1, <2>2, WhoseStep
<1> QED BY <1>1, ChangesAreCounted, PTL DEF EnrichmentSpec, EnrichmentDefersToPeople

(***************************************************************************)
(* Enrichment: what is told at the end.                                    *)
(***************************************************************************)
(* Notices of one kind are as few as what they are about.                  *)
LEMMA RowsAreFew ==
    ASSUME NEW kind, NEW rows, IsFiniteSet(rows)
    PROVE  IsFiniteSet([kind : {kind}, row : rows])
<1> DEFINE named == [r \in rows |-> [kind |-> kind, row |-> r]]
<1>1. \A n \in [kind : {kind}, row : rows] : \E r \in rows : named[r] = n
  OBVIOUS
<1>2. \A r \in rows : named[r] \in [kind : {kind}, row : rows]
  OBVIOUS
<1>3. named \in Surjection(rows, [kind : {kind}, row : rows])
  BY <1>1, <1>2 DEF Surjection
<1> QED BY <1>3, FS_Surjection

(* Those about one other object are as few as these objects.               *)
LEMMA OneEachIsFew ==
    ASSUME NEW some, IsFiniteSet(some)
    PROVE  IsFiniteSet({<<y>> : y \in some})
<1> DEFINE rows == {<<y>> : y \in some}
           alone == [y \in some |-> <<y>>]
<1>1. alone \in Surjection(some, rows)
  BY DEF Surjection
<1> QED BY <1>1, FS_Surjection

(* What is told is as much as can be told, or everything there is.         *)
LEMMA AllOrAsManyAsTold ==
    ASSUME NEW all, IsFiniteSet(all),
           NEW some \in kSubset(Min({MaxNotices, Cardinality(all)}), all)
    PROVE  some = all \/ Cardinality(some) = MaxNotices
<1>1. Cardinality(all) \in Nat
  BY FS_CardinalityType
<1>2. Min({MaxNotices, Cardinality(all)}) \in {MaxNotices, Cardinality(all)}
  BY <1>1, EnrichmentAssumption DEF Min
<1>3. some \subseteq all /\ Cardinality(some) \in {MaxNotices, Cardinality(all)}
  BY <1>2 DEF kSubset
<1> QED BY <1>3, FS_Subset

(* Only finitely much was ever remembered or found to clash, and an        *)
(* enrichment is always somewhere.                                         *)
FewCaptures == IsFiniteSet(Captured)
FewClashes == IsFiniteSet(clash)
Placed == DOMAIN helper = Helpers /\ \A h \in Helpers : "at" \in DOMAIN helper[h]
TellingInv == FewCaptures /\ FewClashes /\ Placed

(* Wherever it goes on to, an enrichment is somewhere; it comes to rest    *)
(* only with its notices.                                                  *)
LEMMA ProceedingTells ==
    ASSUME NEW h \in Helpers, Placed, NEW at \in {"relating", "checking"}, NEW near, NEW left,
           Proceeds(h, at, near, left)
    PROVE  /\ Placed'
           /\ \A g \in Helpers \ {h} : helper'[g] = helper[g]
           /\ helper'[h] = Resting /\ helper[h].of \in Captured =>
                 told'.notices \in Notices(helper[h].of, near)
<1> DEFINE Row(stage, hits) == [helper[h] EXCEPT !.at = stage, !.near = near, !.hits = hits]
           Ends == \E some \in IF helper[h].of \in Captured THEN Notices(helper[h].of, near) ELSE {{}} :
                      told' = [of |-> helper[h].of, notices |-> some]
<1>1. \A stage, hits : "at" \in DOMAIN Row(stage, hits) /\ Row(stage, hits).at = stage
  BY DEF Placed
<1>2. \/ \E stage \in {"relating", "checking"} : \E hits : MovesTo(h, Row(stage, hits))
      \/ MovesTo(h, Resting) /\ Ends
  BY Zenon DEF Proceeds
<1>3. ASSUME NEW where, MovesTo(h, where), "at" \in DOMAIN where
      PROVE  Placed' /\ helper'[h] = where /\ \A g \in Helpers \ {h} : helper'[g] = helper[g]
  BY <1>3 DEF MovesTo, Placed
<1>4. CASE \E stage \in {"relating", "checking"} : \E hits : MovesTo(h, Row(stage, hits))
  <2> PICK stage \in {"relating", "checking"} : \E hits : MovesTo(h, Row(stage, hits))
    BY <1>4
  <2> PICK hits : MovesTo(h, Row(stage, hits))
    OBVIOUS
  <2> PICK where : where = Row(stage, hits)
    OBVIOUS
  <2>1. "at" \in DOMAIN where /\ where.at = stage
    BY <1>1
  <2>2. where # Resting
    BY <2>1 DEF Resting
  <2>3. MovesTo(h, where)
    OBVIOUS
  <2> QED BY <1>3, <2>1, <2>2, <2>3
<1>5. CASE MovesTo(h, Resting) /\ Ends
  BY <1>3, <1>5 DEF Resting
<1> QED BY <1>2, <1>4, <1>5

(* There are finitely many notices to choose from.                         *)
LEMMA NoticesAreFew ==
    ASSUME NEW x, NEW near, FewCaptures, FewClashes'
    PROVE  LET Of(kind, rows) == [kind : {kind}, row : rows]
               alike == IF x \in Alike THEN (Alike \cap Captured) \ {x} ELSE {}
           IN IsFiniteSet(Of("seen-before", {<<y>> : y \in ToSet(near) \cap alike})
                          \cup Of("contradiction", Disputes(x))
                          \cup Of("previously-rejected",
                                  {<<y>> : y \in {z \in alike : note[z].review = "rejected"}}))
<1> DEFINE Of(kind, rows) == [kind : {kind}, row : rows]
           alike == IF x \in Alike THEN (Alike \cap Captured) \ {x} ELSE {}
           similar == ToSet(near) \cap alike
           rejected == {z \in alike : note[z].review = "rejected"}
<1>1. similar \subseteq Captured /\ rejected \subseteq Captured
  OBVIOUS
<1>2. IsFiniteSet(similar) /\ IsFiniteSet(rejected)
  BY <1>1, FS_Subset DEF FewCaptures
<1>3. IsFiniteSet({<<y>> : y \in similar}) /\ IsFiniteSet({<<y>> : y \in rejected})
  BY <1>2, OneEachIsFew
<1>4. IsFiniteSet(Disputes(x))
  BY FS_Subset DEF FewClashes, Disputes
<1>5. /\ IsFiniteSet(Of("seen-before", {<<y>> : y \in similar}))
      /\ IsFiniteSet(Of("contradiction", Disputes(x)))
      /\ IsFiniteSet(Of("previously-rejected", {<<y>> : y \in rejected}))
  BY <1>3, <1>4, RowsAreFew
<1> HIDE DEF Of, similar, rejected
<1> QED BY <1>5, FS_Union DEF similar, rejected, Of

(* An enrichment that ends has told of every disagreement it may.          *)
LEMMA EndingTells ==
    ASSUME NEW h \in Helpers, TellingInv, FewClashes', NEW at \in {"relating", "checking"}, NEW near, NEW left,
           Proceeds(h, at, near, left), helper'[h] = Resting, helper[h].of \in Captured
    PROVE  \/ \A pair \in clash' : helper[h].of \in {pair[1], pair[2]} =>
                 [kind |-> "contradiction", row |-> pair] \in told'.notices
           \/ Cardinality(told'.notices) = MaxNotices
<1> DEFINE x == helper[h].of
           Of(kind, rows) == [kind : {kind}, row : rows]
           alike == IF x \in Alike THEN (Alike \cap Captured) \ {x} ELSE {}
           all == Of("seen-before", {<<y>> : y \in ToSet(near) \cap alike})
                  \cup Of("contradiction", Disputes(x))
                  \cup Of("previously-rejected",
                          {<<y>> : y \in {z \in alike : note[z].review = "rejected"}})
<1>1. told'.notices \in kSubset(Min({MaxNotices, Cardinality(all)}), all)
  BY ProceedingTells DEF TellingInv, Notices
<1>2. IsFiniteSet(all)
  BY NoticesAreFew DEF TellingInv
<1>3. \A pair \in clash' : x \in {pair[1], pair[2]} => [kind |-> "contradiction", row |-> pair] \in all
  BY DEF Disputes
<1> HIDE DEF all
<1> QED BY <1>1, <1>2, <1>3, AllOrAsManyAsTold

(* What is kept grows by one at a time.                                    *)
LEMMA KeptGrowsByOne ==
    ASSUME FewCaptures, FewClashes,
           \/ \E x : Captured' \subseteq Captured \cup {x} /\ clash' = clash
           \/ Captured' \subseteq Captured /\ \E pair : clash' \subseteq clash \cup {pair}
    PROVE  FewCaptures' /\ FewClashes'
<1>1. \A x : IsFiniteSet(Captured \cup {x}) /\ IsFiniteSet(clash \cup {x})
  BY FS_AddElement DEF FewCaptures, FewClashes
<1>2. CASE \E x : Captured' \subseteq Captured \cup {x} /\ clash' = clash
  BY <1>1, <1>2, FS_Subset DEF FewCaptures, FewClashes
<1>3. CASE Captured' \subseteq Captured /\ \E pair : clash' \subseteq clash \cup {pair}
  BY <1>1, <1>3, FS_Subset DEF FewCaptures, FewClashes
<1> QED BY <1>2, <1>3

(* What people do adds nothing.                                            *)
LEMMA PeopleAddNothing ==
    ASSUME \E x \in Captured : Revise(x) \/ EraseCapture(x)
    PROVE  Captured' \subseteq Captured /\ clash' \subseteq clash /\ helper' = helper
<1>1. ASSUME NEW x \in Captured, NEW row, People(x, row)
      PROVE  Captured' = Captured /\ clash' = clash /\ helper' = helper
  BY <1>1 DEF People, PeopleAct, Captured
<1>2. ASSUME NEW x \in Captured, EraseCapture(x)
      PROVE  Captured' \subseteq Captured /\ clash' \subseteq clash /\ helper' = helper
  BY <1>2 DEF EraseCapture, PeopleAct, Captured
<1>3. ASSUME NEW x \in Captured, Revise(x)
      PROVE  \E row : People(x, row)
  BY <1>3, Zenon DEF Revise
<1> QED BY <1>1, <1>2, <1>3

(* What DisagreementsAreTold says of one enrichment.                       *)
Tells(h) ==
    (/\ helper[h].at \in {"embedding", "relating", "checking"} /\ helper'[h] = Resting
     /\ helper[h].of \in Captured) =>
        \/ \A pair \in clash' : helper[h].of \in {pair[1], pair[2]} =>
              [kind |-> "contradiction", row |-> pair] \in told'.notices
        \/ Cardinality(told'.notices) = MaxNotices

(* Before it has found what is similar an enrichment has nothing to tell.  *)
LEMMA BeginningTellsNothing ==
    ASSUME NEW h \in Helpers, TellingInv,
           \/ \E x \in Captures : Remembered(x, h)
           \/ BeginEnrich(h)
           \/ \E keywords, names \in BOOLEAN : ReadingAnswers(h, keywords, names)
    PROVE  TellingInv' /\ \A g \in Helpers : Tells(g)
<1>1. helper[h].at \in {"rest", "indexing", "reading"}
  BY DEF Remembered, BeginEnrich, ReadingAnswers, IsAt
<1>2. \E where : MovesTo(h, where) /\ "at" \in DOMAIN where
  <2>1. CASE \E x \in Captures : Remembered(x, h)
    BY <2>1 DEF Remembered
  <2>2. CASE BeginEnrich(h)
    <3> DEFINE goesOn == [helper[h] EXCEPT !.at = "reading", !.words = note[helper[h].of].words]
    <3>1. "at" \in DOMAIN goesOn /\ "at" \in DOMAIN Resting
      BY DEF TellingInv, Placed, Resting
    <3>2. MovesTo(h, goesOn) \/ MovesTo(h, Resting)
      BY <2>2 DEF BeginEnrich
    <3> QED BY <3>1, <3>2
  <2>3. CASE \E keywords, names \in BOOLEAN : ReadingAnswers(h, keywords, names)
    BY <2>3 DEF ReadingAnswers, TellingInv, Placed, Resting
  <2> QED BY <2>1, <2>2, <2>3
<1>3. PICK where : MovesTo(h, where) /\ "at" \in DOMAIN where
  BY <1>2
<1>4. Placed' /\ \A g \in Helpers \ {h} : helper'[g] = helper[g]
  BY <1>3 DEF MovesTo, TellingInv, Placed
<1>5. FewCaptures' /\ FewClashes'
  <2>1. CASE \E x \in Captures : Remembered(x, h)
    <3> PICK x \in Captures : Remembered(x, h)
      BY <2>1
    <3>1. Captured' \subseteq Captured \cup {x} /\ clash' = clash
      BY DEF Remembered, Captured
    <3> QED BY <3>1, KeptGrowsByOne DEF TellingInv
  <2>2. CASE BeginEnrich(h)
    BY <2>2 DEF BeginEnrich, TellingInv, FewCaptures, FewClashes, Captured
  <2>3. CASE \E keywords, names \in BOOLEAN : ReadingAnswers(h, keywords, names)
    <3>1. Captured' = Captured /\ clash' = clash
      BY <2>3 DEF ReadingAnswers, Captured
    <3> QED BY <3>1 DEF TellingInv, FewCaptures, FewClashes
  <2> QED BY <2>1, <2>2, <2>3
<1>6. ASSUME NEW g \in Helpers PROVE Tells(g)
  <2>1. CASE g = h
    BY <1>1, <2>1 DEF Tells
  <2>2. CASE g # h
    BY <1>4, <2>2 DEF Tells, Resting
  <2> QED BY <2>1, <2>2
<1> QED BY <1>4, <1>5, <1>6 DEF TellingInv

(* What a model said of two objects is kept, and then the next is asked    *)
(* about or the end has come.                                              *)
LEMMA ComparingTells ==
    ASSUME NEW h \in Helpers, TellingInv, note' = note,
           \E pair : clash' \subseteq clash \cup {pair},
           NEW at \in {"relating", "checking"}, NEW near, NEW left,
           Proceeds(h, at, near, left)
    PROVE  TellingInv' /\ \A g \in Helpers : Tells(g)
<1>1. Captured' = Captured
  BY DEF Captured
<1>2. FewCaptures' /\ FewClashes'
  BY <1>1, KeptGrowsByOne DEF TellingInv
<1>3. Placed' /\ \A g \in Helpers \ {h} : helper'[g] = helper[g]
  BY ProceedingTells DEF TellingInv
<1>4. Tells(h)
  BY <1>2, EndingTells DEF Tells
<1>5. ASSUME NEW g \in Helpers, g # h PROVE Tells(g)
  BY <1>3, <1>5 DEF Tells, Resting
<1> QED BY <1>2, <1>3, <1>4, <1>5 DEF TellingInv

(* Every step keeps the invariant and tells what is to be told.            *)
LEMMA HelpersTell ==
    ASSUME NEW h \in Helpers, TellingInv, HelperStep(h)
    PROVE  TellingInv' /\ \A g \in Helpers : Tells(g)
<1>1. CASE \E near : SimilarFound(h, near)
  <2> PICK near : SimilarFound(h, near)
    BY <1>1
  <2>1. note' = note /\ clash' = clash /\ Proceeds(h, "relating", near, near)
    BY DEF SimilarFound
  <2> QED BY <2>1, ComparingTells
<1>2. CASE \E related \in BOOLEAN : RelationAnswers(h, related)
  <2>1. note' = note /\ clash' = clash /\ Proceeds(h, "relating", helper[h].near, Tail(helper[h].hits))
    BY <1>2 DEF RelationAnswers
  <2> QED BY <2>1, ComparingTells
<1>3. CASE \E contradicts \in BOOLEAN : ClashAnswers(h, contradicts)
  <2>1. note' = note /\ Proceeds(h, "checking", helper[h].near, Tail(helper[h].hits))
    BY <1>3 DEF ClashAnswers
  <2>2. \E pair : clash' \subseteq clash \cup {pair}
    BY <1>3 DEF ClashAnswers, RecordConflict
  <2> QED BY <2>1, <2>2, ComparingTells
<1> QED BY <1>1, <1>2, <1>3, BeginningTellsNothing DEF HelperStep

(* People keep the invariant, and no enrichment ends by what they do.      *)
LEMMA PeopleKeepTelling ==
    ASSUME TellingInv, Captured' \subseteq Captured, clash' \subseteq clash, helper' = helper
    PROVE  TellingInv' /\ \A g \in Helpers : Tells(g)
<1>1. FewCaptures' /\ FewClashes'
  BY KeptGrowsByOne DEF TellingInv
<1>2. Placed'
  BY DEF TellingInv, Placed
<1>3. \A g \in Helpers : Tells(g)
  BY DEF Tells, Resting
<1> QED BY <1>1, <1>2, <1>3 DEF TellingInv

(* Every step keeps the invariant and tells what is to be told.            *)
LEMMA StepsTell ==
    ASSUME TellingInv, EnrichmentNext
    PROVE  TellingInv' /\ \A g \in Helpers : Tells(g)
<1>1. CASE \E h \in Helpers : HelperStep(h)
  BY <1>1, HelpersTell
<1>2. CASE \E x \in Captured : Revise(x) \/ EraseCapture(x)
  BY <1>2, PeopleAddNothing, PeopleKeepTelling
<1>3. CASE \/ \E pair \in clash : SettleClash(pair)
           \/ \E pair \in offered : DecideOffer(pair)
  <2>1. Captured' = Captured /\ clash' \subseteq clash /\ helper' = helper
    BY <1>3 DEF SettleClash, DecideOffer, PeopleAct, Captured
  <2> QED BY <2>1, PeopleKeepTelling
<1>4. \/ \E h \in Helpers : HelperStep(h)
      \/ \E x \in Captured : Revise(x) \/ EraseCapture(x)
      \/ \E pair \in clash : SettleClash(pair)
      \/ \E pair \in offered : DecideOffer(pair)
  BY Zenon DEF EnrichmentNext, HelperStep
<1> QED BY <1>1, <1>2, <1>3, <1>4

(* Whatever people settle, erase or put away while a model is waited for,  *)
(* an enrichment that ends tells of every disagreement its object is in.   *)
THEOREM DisagreementsAreHeard == EnrichmentSpec => DisagreementsAreTold
<1>1. EnrichmentInit => TellingInv
  <2> SUFFICES ASSUME EnrichmentInit PROVE TellingInv
    OBVIOUS
  <2>1. Captured = {} /\ clash = {}
    BY DEF EnrichmentInit, Captured
  <2>2. Placed
    BY DEF EnrichmentInit, Placed, Resting
  <2> QED BY <2>1, <2>2, FS_EmptySet DEF TellingInv, FewCaptures, FewClashes
<1>2. TellingInv /\ [EnrichmentNext]_enrichmentVars => TellingInv'
  <2>1. CASE EnrichmentNext
    BY <2>1, StepsTell
  <2>2. CASE UNCHANGED enrichmentVars
    BY <2>2 DEF enrichmentVars, TellingInv, FewCaptures, FewClashes, Placed, Captured
  <2> QED BY <2>1, <2>2
<1>3. TellingInv /\ [EnrichmentNext]_enrichmentVars =>
        [\A h \in Helpers :
           (/\ helper[h].at \in {"embedding", "relating", "checking"} /\ helper'[h] = Resting
            /\ helper[h].of \in Captured) =>
               \/ \A pair \in clash' : helper[h].of \in {pair[1], pair[2]} =>
                     [kind |-> "contradiction", row |-> pair] \in told'.notices
               \/ Cardinality(told'.notices) = MaxNotices]_enrichmentVars
  BY StepsTell DEF Tells
<1> QED BY <1>1, <1>2, <1>3, PTL DEF EnrichmentSpec, DisagreementsAreTold

(***************************************************************************)
(* Concepts: what was decided is not asked again.                          *)
(***************************************************************************)
Status == {"pending", "accepted", "rejected", "expired"}

(* The proposals of every phrase are a sequence, of which only the last    *)
(* may wait or have been declined.                                         *)
ConceptsInv == /\ idea \in [Phrases -> Seq(Status)]
               /\ ConceptsAreDecidedOnce

(* A search puts to a person only what is neither waiting nor declined.    *)
LEMMA AnsweringKeepsInv ==
    ASSUME NEW s \in Searches, NEW named \in SUBSET Phrases,
           ConceptsInv, ConceptsAnswered(s, named)
    PROVE  ConceptsInv'
<1>1. \A ph \in Phrases : idea'[ph] = idea[ph] \/ (~AlreadyKnown(ph) /\ idea'[ph] = Append(idea[ph], "pending"))
  BY DEF ConceptsAnswered
<1>2. idea' \in [Phrases -> Seq(Status)]
  <2>1. \A ph \in Phrases : idea[ph] \in Seq(Status) /\ Append(idea[ph], "pending") \in Seq(Status)
    BY DEF ConceptsInv, Status
  <2> QED BY <2>1 DEF ConceptsAnswered
<1>3. ConceptsAreDecidedOnce'
  <2> SUFFICES ASSUME NEW ph \in Phrases, NEW m \in DOMAIN idea'[ph], NEW n \in DOMAIN idea'[ph], m < n
               PROVE  idea'[ph][m] \notin {"pending", "rejected"}
    BY DEF ConceptsAreDecidedOnce
  <2>1. CASE idea'[ph] = idea[ph]
    BY <2>1 DEF ConceptsInv, ConceptsAreDecidedOnce
  <2>2. CASE ~AlreadyKnown(ph) /\ idea'[ph] = Append(idea[ph], "pending")
    <3>1. idea[ph] \in Seq(Status)
      BY DEF ConceptsInv
    <3>2. m \in DOMAIN idea[ph] /\ idea'[ph][m] = idea[ph][m]
      BY <2>2, <3>1
    <3> QED BY <2>2, <3>2 DEF AlreadyKnown
  <2> QED BY <1>1, <2>1, <2>2
<1> QED BY <1>2, <1>3 DEF ConceptsInv

(* What is decided is the last proposal, since none before it waits.       *)
LEMMA DecidingKeepsInv ==
    ASSUME NEW ph \in Phrases, NEW status \in {"accepted", "rejected", "expired"},
           ConceptsInv, DecideConcept(ph, status)
    PROVE  ConceptsInv'
<1>1. PICK n \in DOMAIN idea[ph] : /\ idea[ph][n] = "pending"
                                   /\ idea' = [idea EXCEPT ![ph][n] = status]
  BY DEF DecideConcept
<1>2. idea[ph] \in Seq(Status)
  BY DEF ConceptsInv
<1>3. [idea[ph] EXCEPT ![n] = status] \in Seq(Status)
  BY <1>1, <1>2 DEF Status
<1>4. idea' \in [Phrases -> Seq(Status)]
  BY <1>1, <1>3 DEF ConceptsInv
<1>5. ConceptsAreDecidedOnce'
  <2> SUFFICES ASSUME NEW other \in Phrases, NEW i \in DOMAIN idea'[other],
                      NEW j \in DOMAIN idea'[other], i < j
               PROVE  idea'[other][i] \notin {"pending", "rejected"}
    BY DEF ConceptsAreDecidedOnce
  <2>1. CASE other # ph
    BY <1>1, <2>1 DEF ConceptsInv, ConceptsAreDecidedOnce
  <2>2. CASE other = ph
    <3>1. i \in DOMAIN idea[ph] /\ j \in DOMAIN idea[ph]
      BY <1>1, <1>2, <2>2 DEF ConceptsInv
    <3>2. n \in Nat /\ i \in Nat /\ j \in Nat
      BY <1>1, <1>2, <3>1
    <3>3. i # n
      BY <1>1, <3>1 DEF ConceptsInv, ConceptsAreDecidedOnce
    <3> QED BY <1>1, <2>2, <3>1, <3>3 DEF ConceptsInv, ConceptsAreDecidedOnce
  <2> QED BY <2>1, <2>2
<1> QED BY <1>4, <1>5 DEF ConceptsInv

(* Whatever searches overlap, a phrase is put to a person once at a time   *)
(* and never again after a no.                                             *)
THEOREM ConceptsStayDecided == ConceptsSpec => []ConceptsAreDecidedOnce
<1>1. ConceptsInit => ConceptsInv
  BY DEF ConceptsInit, ConceptsInv, ConceptsAreDecidedOnce, Status
<1>2. ConceptsInv /\ [ConceptsNext]_conceptVars => ConceptsInv'
  <2> SUFFICES ASSUME ConceptsInv, [ConceptsNext]_conceptVars PROVE ConceptsInv'
    OBVIOUS
  <2>1. CASE UNCHANGED idea
    BY <2>1 DEF ConceptsInv, ConceptsAreDecidedOnce
  <2>2. CASE \E s \in Searches, named \in SUBSET Phrases : ConceptsAnswered(s, named)
    BY <2>2, AnsweringKeepsInv
  <2>3. CASE \E ph \in Phrases, status \in {"accepted", "rejected", "expired"} : DecideConcept(ph, status)
    BY <2>3, DecidingKeepsInv
  <2> QED BY <2>1, <2>2, <2>3 DEF ConceptsNext, conceptVars, BeginConcepts, Use, AlterConcept
<1>3. ConceptsInv => ConceptsAreDecidedOnce
  BY DEF ConceptsInv
<1> QED BY <1>1, <1>2, <1>3, PTL DEF ConceptsSpec

(***************************************************************************)
(* Watch: nothing that was saved is missed.                                *)
(***************************************************************************)
(* What a file says that was not read for claims yet and not let go.       *)
Due(p) == file[p].size = "full" /\ p \notin excused /\ file[p].version \notin read
Now(p) == file[p].version

(* The capture that runs will come to it, or is at it; nothing else has to *)
(* happen.                                                                 *)
InBatch(p) == \/ batch.stage = "look" /\ p \in batch.paths
              \/ batch.stage = "go" /\ p \in DOMAIN batch.todo /\ batch.todo[p] = Now(p)
AtIt(p) == batch.stage = "go" /\ batch.at = <<p, Now(p)>>
UnderWay(p) == p \in queue \/ InBatch(p) \/ AtIt(p)

(* Somebody will still look at the file.                                   *)
OnItsWay(p) == \/ p \in events \/ pending[p].timer
               \/ \E t \in loose : t.path = p
               \/ \E a \in admitting : a.path = p /\ a.print \in {0, Now(p)}

Entries == {NoEntry} \cup [size : Sizes \cup {"unknown"}, timer : BOOLEAN]
Callbacks == [path : Paths, size : Sizes \cup {"unknown"}, print : Nat]
LooseTimers == [path : Paths, size : Sizes \cup {"unknown"}]

FilesAreFiles ==
    /\ saves \in Nat /\ captured \subseteq Nat
    /\ file \in [Paths -> {Missing} \cup [version : Nat \ {0}, size : Sizes]]
    /\ known \in [Paths -> Nat] /\ handed \in [Paths -> Nat]
WatcherIsSound ==
    /\ pending \in [Paths -> Entries]
    /\ admitting \subseteq Callbacks /\ loose \subseteq LooseTimers
    /\ events \subseteq Paths /\ queue \subseteq Paths
    /\ phase \in {"off", "catching up", "watching", "stopped"}
BatchIsSound ==
    /\ batch.stage \in {"none", "look", "go"}
    /\ batch.stage = "none" => batch = NoBatch
    /\ batch.stage = "look" => batch.paths \subseteq Paths
    /\ batch.stage = "go" => \A p \in DOMAIN batch.todo :
                                p \in Paths /\ batch.todo[p] \in Nat /\ batch.todo[p] <= saves
WatchShape == FilesAreFiles /\ WatcherIsSound /\ BatchIsSound

(* A version is made once, and what refers to one that is not there yet    *)
(* does not exist.                                                         *)
VersionsAreFresh ==
    /\ \A p \in Paths : Now(p) <= saves /\ known[p] <= saves /\ handed[p] <= saves
    /\ \A v \in captured : v <= saves
    /\ \A a \in admitting : a.print <= saves
    /\ \A p, q \in Paths : Now(p) = Now(q) /\ Now(p) # 0 => p = q

(* What is known of a file was captured.                                   *)
KnownIsCaptured ==
    \A p \in Paths : known[p] # 0 /\ known[p] = Now(p) => Now(p) \in captured

(* Nothing due is forgotten.  What was captured is read next, unless that  *)
(* failed; what was handed to a capture is not looked at again.            *)
Minded(p) ==
    Due(p) => /\ Now(p) \in captured => AtIt(p)
              /\ phase = "catching up" => InBatch(p) \/ AtIt(p)
              /\ phase = "watching" => OnItsWay(p) \/ UnderWay(p)
              /\ phase = "watching" /\ handed[p] = Now(p) => UnderWay(p)
NothingForgotten == \A p \in Paths : Minded(p)

(* The end of a watch.                                                     *)
EndIsEnd ==
    /\ queue # {} => batch # NoBatch
    /\ phase = "catching up" => batch.stage = "go"
    /\ phase # "watching" => events = {} /\ \A p \in Paths : ~pending[p].timer
    /\ phase \in {"off", "catching up"} => loose = {} /\ admitting = {} /\ ~done /\ queue = {}
    /\ phase = "off" => batch = NoBatch
    /\ done => phase = "stopped" /\ (late \/ ~Working)

WatchInv == WatchShape /\ VersionsAreFresh /\ KnownIsCaptured /\ NothingForgotten /\ EndIsEnd

(* A folder nobody watches yet.                                            *)
LEMMA WatchBegins == WatchInit => WatchInv
<1> SUFFICES ASSUME WatchInit PROVE WatchInv
  OBVIOUS
<1>1. WatchShape
  BY DEF WatchInit, WatchShape, FilesAreFiles, WatcherIsSound, BatchIsSound, Entries, NoBatch
<1>2. VersionsAreFresh
  BY DEF WatchInit, VersionsAreFresh, Now, Missing
<1>3. KnownIsCaptured
  BY DEF WatchInit, KnownIsCaptured
<1>4. NothingForgotten
  BY DEF WatchInit, NothingForgotten, Minded, Due, Missing
<1>5. EndIsEnd
  BY DEF WatchInit, EndIsEnd, NoEntry
<1> QED BY <1>1, <1>2, <1>3, <1>4, <1>5 DEF WatchInv

(* What is known of a file.                                                *)
LEMMA VersionsAreNumbers ==
  ASSUME WatchShape, NEW p \in Paths
  PROVE  /\ Now(p) \in Nat /\ (Now(p) = 0 <=> file[p] = Missing) /\ known[p] \in Nat /\ handed[p] \in Nat
         /\ file[p].size \in {"none", "empty", "full"} /\ (file[p].size = "none" <=> file[p] = Missing)
<1>1. file[p] \in {Missing} \cup [version : Nat \ {0}, size : Sizes] /\ known[p] \in Nat /\ handed[p] \in Nat
  BY DEF WatchShape, FilesAreFiles
<1> QED BY <1>1 DEF Missing, Sizes, Now

(* A file is saved while anything may be under way.                        *)
LEMMA Saving == ASSUME WatchInv, NEW p \in Paths, NEW size \in Sizes, Save(p, size) PROVE WatchInv'
<1>1. PICK n : n = saves + 1
  OBVIOUS
<1>0. file' = [file EXCEPT ![p] = [version |-> n, size |-> size]]
  BY <1>1 DEF Save
<1>2. /\ saves' = n
      /\ events' = IF phase = "watching" THEN events \cup {p} ELSE events
      /\ excused' = IF phase = "catching up" THEN excused \cup {p} ELSE excused \ {p}
      /\ captured' = captured /\ read' = read /\ known' = known /\ phase' = phase
      /\ pending' = pending /\ loose' = loose /\ admitting' = admitting /\ handed' = handed
      /\ queue' = queue /\ batch' = batch /\ done' = done /\ late' = late
  BY <1>1 DEF Save, Tell, StillWatcher, storeVars
<1>3. n \in Nat \ {0} /\ saves \in Nat /\ saves < n
  BY <1>1 DEF WatchInv, WatchShape, FilesAreFiles
<1>4. file'[p].version = n /\ file'[p].size = size /\ \A q \in Paths : q # p => file'[q] = file[q]
  BY <1>0 DEF WatchInv, WatchShape, FilesAreFiles
<1>5. WatchShape'
  <2>1. file' \in [Paths -> {Missing} \cup [version : Nat \ {0}, size : Sizes]]
    BY <1>0, <1>3 DEF WatchInv, WatchShape, FilesAreFiles
  <2>2. FilesAreFiles'
    BY <1>2, <1>3, <2>1 DEF WatchInv, WatchShape, FilesAreFiles
  <2>3. WatcherIsSound'
    BY <1>2 DEF WatchInv, WatchShape, WatcherIsSound
  <2>4. BatchIsSound'
    <3>1. BatchIsSound
      BY DEF WatchInv, WatchShape
    <3>2. \A v \in Nat : v <= saves => v <= n
      BY <1>3
    <3> QED BY <1>2, <3>1, <3>2 DEF BatchIsSound
  <2> QED BY <2>2, <2>3, <2>4 DEF WatchShape
<1>6. \A q \in Paths : Now(q) \in Nat /\ Now(q) <= saves /\ Now(q)' = IF q = p THEN n ELSE Now(q)
  BY <1>4, VersionsAreNumbers DEF WatchInv, VersionsAreFresh, Now
<1>7. VersionsAreFresh'
  <2>0. \A v \in Nat : v <= saves => v <= n
    BY <1>3
  <2>1. \A q \in Paths : Now(q)' <= saves' /\ known'[q] <= saves' /\ handed'[q] <= saves'
    <3> SUFFICES ASSUME NEW q \in Paths
                 PROVE  Now(q)' <= saves' /\ known'[q] <= saves' /\ handed'[q] <= saves'
      OBVIOUS
    <3>1. known[q] \in Nat /\ handed[q] \in Nat
      BY VersionsAreNumbers DEF WatchInv
    <3>2. known[q] <= saves /\ handed[q] <= saves
      BY DEF WatchInv, VersionsAreFresh
    <3>3. Now(q)' <= saves'
      <4>1. saves' = n
        BY <1>2
      <4>2. Now(q) \in Nat /\ Now(q) <= saves /\ Now(q)' = IF q = p THEN n ELSE Now(q)
        BY <1>6
      <4>3. Now(q)' <= n
        BY <1>3, <2>0, <4>2
      <4> QED BY <4>1, <4>3
    <3> QED BY <1>2, <2>0, <3>1, <3>2, <3>3
  <2>2. \A v \in captured' : v <= saves'
    BY <1>2, <2>0 DEF WatchInv, WatchShape, FilesAreFiles, VersionsAreFresh
  <2>4. \A a \in admitting' : a.print <= saves'
    <3>1. \A a \in admitting : a.print \in Nat /\ a.print <= saves
      BY DEF WatchInv, WatchShape, WatcherIsSound, Callbacks, VersionsAreFresh
    <3> QED BY <1>2, <2>0, <3>1
  <2>3. \A q, r \in Paths : Now(q)' = Now(r)' /\ Now(q)' # 0 => q = r
    BY <1>3, <1>6 DEF WatchInv, VersionsAreFresh
  <2> QED BY <2>1, <2>2, <2>3, <2>4 DEF VersionsAreFresh
<1>8. KnownIsCaptured'
  <2> SUFFICES ASSUME NEW q \in Paths, known'[q] # 0, known'[q] = Now(q)' PROVE Now(q)' \in captured'
    BY DEF KnownIsCaptured
  <2>1. known[q] \in Nat /\ known[q] <= saves
    BY VersionsAreNumbers DEF WatchInv, VersionsAreFresh
  <2>2. q # p
    <3>1. known'[q] = known[q] /\ (q = p => Now(q)' = n)
      BY <1>2, <1>6
    <3>2. known[q] # n
      BY <1>3, <2>1
    <3> QED BY <3>1, <3>2
  <2> QED BY <1>2, <1>6, <2>2 DEF WatchInv, KnownIsCaptured
<1>9. ASSUME NEW q \in Paths PROVE Minded(q)'
  <2>1. Minded(q)
    BY DEF WatchInv, NothingForgotten
  <2>2. CASE q = p
    <3>1. ~(n \in captured) /\ handed[p] # n
      BY <1>3 DEF WatchInv, WatchShape, FilesAreFiles, VersionsAreFresh
    <3>2. phase = "catching up" => ~Due(p)'
      BY <1>2 DEF Due
    <3>3. phase = "watching" => OnItsWay(p)'
      BY <1>2 DEF OnItsWay
    <3> QED BY <1>2, <1>6, <2>2, <3>1, <3>2, <3>3 DEF Minded
  <2>3. CASE q # p
    <3>0. Now(q)' = Now(q)
      BY <1>6, <2>3
    <3>1. (Due(q)' => Due(q)) /\ Now(q)' = Now(q)
      <4>1. file'[q] = file[q] /\ (q \notin excused' => q \notin excused)
        BY <1>2, <1>4, <2>3
      <4> QED BY <1>2, <3>0, <4>1 DEF Due
    <3>2. (InBatch(q)' <=> InBatch(q)) /\ (AtIt(q)' <=> AtIt(q)) /\ (UnderWay(q)' <=> UnderWay(q))
      BY <1>2, <3>1 DEF InBatch, AtIt, UnderWay
    <3>3. OnItsWay(q) => OnItsWay(q)'
      BY <1>2, <3>1 DEF OnItsWay
    <3> QED BY <1>2, <2>1, <3>1, <3>2, <3>3 DEF Minded
  <2> QED BY <2>2, <2>3
<1>10. EndIsEnd'
  BY <1>2 DEF WatchInv, EndIsEnd, Working
<1> QED BY <1>5, <1>7, <1>8, <1>9, <1>10 DEF WatchInv, NothingForgotten

(* A file that was not touched is due only if it was.                      *)
LEMMA DueWasDue ==
  ASSUME NEW q, file' = file, excused \subseteq excused', read \subseteq read'
  PROVE  /\ Now(q)' = Now(q) /\ (Due(q)' => Due(q))
         /\ There(q)' = There(q) /\ file'[q] = file[q]
BY DEF Now, Due, There

(* A file is deleted.                                                      *)
LEMMA Deleting == ASSUME WatchInv, NEW p \in Paths, Delete(p) PROVE WatchInv'
<1>0. file' = [file EXCEPT ![p] = Missing]
  BY DEF Delete
<1>1. /\ events' = IF phase = "watching" THEN events \cup {p} ELSE events
      /\ saves' = saves /\ excused' = excused
      /\ captured' = captured /\ read' = read /\ known' = known /\ phase' = phase
      /\ pending' = pending /\ loose' = loose /\ admitting' = admitting /\ handed' = handed
      /\ queue' = queue /\ batch' = batch /\ done' = done /\ late' = late
  BY DEF Delete, Tell, StillWatcher, storeVars
<1>2. file'[p] = Missing /\ \A q \in Paths : q # p => file'[q] = file[q]
  BY <1>0 DEF WatchInv, WatchShape, FilesAreFiles
<1>3. WatchShape'
  <2>1. file' \in [Paths -> {Missing} \cup [version : Nat \ {0}, size : Sizes]]
    BY <1>0 DEF WatchInv, WatchShape, FilesAreFiles
  <2>2. FilesAreFiles'
    BY <1>1, <2>1 DEF WatchInv, WatchShape, FilesAreFiles
  <2>3. WatcherIsSound' /\ BatchIsSound'
    BY <1>1 DEF WatchInv, WatchShape, WatcherIsSound, BatchIsSound
  <2> QED BY <2>2, <2>3 DEF WatchShape
<1>4. \A q \in Paths : Now(q) \in Nat /\ Now(q)' = IF q = p THEN 0 ELSE Now(q)
  BY <1>2, VersionsAreNumbers DEF WatchInv, Now, Missing
<1>5. VersionsAreFresh'
  <2>1. \A q \in Paths : Now(q)' <= saves' /\ known'[q] <= saves' /\ handed'[q] <= saves'
    <3>1. saves \in Nat /\ 0 <= saves
      BY DEF WatchInv, WatchShape, FilesAreFiles
    <3> QED BY <1>1, <1>4, <3>1 DEF WatchInv, VersionsAreFresh
  <2>2. \A q, r \in Paths : Now(q)' = Now(r)' /\ Now(q)' # 0 => q = r
    BY <1>4 DEF WatchInv, VersionsAreFresh
  <2> QED BY <1>1, <2>1, <2>2 DEF WatchInv, VersionsAreFresh
<1>6. KnownIsCaptured'
  BY <1>1, <1>4 DEF WatchInv, KnownIsCaptured
<1>7. ASSUME NEW q \in Paths PROVE Minded(q)'
  <2>1. Minded(q)
    BY DEF WatchInv, NothingForgotten
  <2>2. CASE q = p
    <3>1. file'[q].size = "none"
      BY <1>2, <2>2 DEF Missing
    <3> QED BY <3>1 DEF Minded, Due
  <2>3. CASE q # p
    <3>1. Now(q)' = Now(q)
      BY <1>4, <2>3
    <3>2. file'[q] = file[q]
      BY <1>2, <2>3
    <3>3. Due(q)' => Due(q)
      BY <1>1, <3>2 DEF Due
    <3>4. (InBatch(q)' <=> InBatch(q)) /\ (AtIt(q)' <=> AtIt(q)) /\ (UnderWay(q)' <=> UnderWay(q))
      BY <1>1, <3>1 DEF InBatch, AtIt, UnderWay
    <3>5. OnItsWay(q) => OnItsWay(q)'
      BY <1>1, <3>1 DEF OnItsWay
    <3> QED BY <1>1, <2>1, <3>1, <3>3, <3>4, <3>5 DEF Minded
  <2> QED BY <2>2, <2>3
<1>8. EndIsEnd'
  BY <1>1 DEF WatchInv, EndIsEnd, Working
<1> QED BY <1>3, <1>5, <1>6, <1>7, <1>8 DEF WatchInv, NothingForgotten

(* What the store knows refers to saves that happened.                     *)
LEMMA StoreStands ==
  ASSUME WatchInv
  PROVE  /\ known \in [Paths -> Nat] /\ captured \subseteq Nat /\ saves \in Nat
         /\ \A q \in Paths : known[q] <= saves
         /\ \A v \in captured : v <= saves
BY DEF WatchInv, WatchShape, FilesAreFiles, VersionsAreFresh

(* What the watcher does with events, timers and callbacks.                *)
LEMMA WatcherGoesOn ==
  ASSUME WatchInv,
         UNCHANGED <<file, saves, captured, read, known, phase, excused, handed, queue, batch>>,
         WatcherIsSound', EndIsEnd', \A a \in admitting' : a.print <= saves,
         \A q \in Paths : phase = "watching" /\ Due(q) /\ handed[q] # Now(q) /\ OnItsWay(q) => OnItsWay(q)'
  PROVE  WatchInv'
<1>1. WatchShape'
  BY DEF WatchInv, WatchShape, FilesAreFiles, BatchIsSound
<1>2. VersionsAreFresh' /\ KnownIsCaptured'
  BY DEF WatchInv, VersionsAreFresh, KnownIsCaptured, Now
<1>3. ASSUME NEW q \in Paths PROVE Minded(q)'
  <2>1. Minded(q)
    BY DEF WatchInv, NothingForgotten
  <2>2. Now(q)' = Now(q) /\ (Due(q)' => Due(q))
    BY DueWasDue
  <2>3. (InBatch(q)' <=> InBatch(q)) /\ (AtIt(q)' <=> AtIt(q)) /\ (UnderWay(q)' <=> UnderWay(q))
    BY <2>2 DEF InBatch, AtIt, UnderWay
  <2> QED BY <2>1, <2>2, <2>3 DEF Minded
<1> QED BY <1>1, <1>2, <1>3 DEF WatchInv, NothingForgotten

(* A path with a timer has an entry.                                       *)
LEMMA EntriesHaveTimers ==
  ASSUME WatcherIsSound, NEW p \in Paths, pending[p].timer \/ pending[p].size = "unknown"
  PROVE  pending[p] \in [size : Sizes \cup {"unknown"}, timer : BOOLEAN]
<1>1. pending[p] \in Entries
  BY DEF WatcherIsSound
<1>2. pending[p] # NoEntry
  <2>1. ~NoEntry.timer /\ NoEntry.size = "none"
    BY DEF NoEntry
  <2> QED BY <2>1
<1> QED BY <1>1, <1>2 DEF Entries

(* The event of a save arrives.                                            *)
LEMMA Delivering == ASSUME WatchInv, NEW p \in Paths, Deliver(p) PROVE WatchInv'
<1>1. PICK e : e = Noted(p)
  OBVIOUS
<1>2. /\ UNCHANGED <<file, saves, captured, read, known, phase, excused, handed, queue, batch>>
      /\ UNCHANGED <<loose, admitting, done, late>>
      /\ events' = events \ {p} /\ pending' = [pending EXCEPT ![p] = e] /\ phase = "watching"
  BY <1>1 DEF Deliver, diskVars, storeVars
<1>3. e \in Entries /\ e.timer
  <2>1. CASE pending[p] = NoEntry
    BY <1>1, <2>1 DEF Noted, Entries
  <2>2. CASE pending[p] # NoEntry
    BY <1>1, <2>2 DEF Noted, Entries, WatchInv, WatchShape, WatcherIsSound
  <2> QED BY <2>1, <2>2
<1>4. WatcherIsSound'
  BY <1>2, <1>3 DEF WatchInv, WatchShape, WatcherIsSound
<1>5. EndIsEnd'
  BY <1>2 DEF WatchInv, EndIsEnd, Working
<1>6. \A q \in Paths : OnItsWay(q) => OnItsWay(q)'
  <2> SUFFICES ASSUME NEW q \in Paths, OnItsWay(q) PROVE OnItsWay(q)'
    OBVIOUS
  <2>1. Now(q)' = Now(q)
    BY <1>2 DEF Now
  <2>2. pending'[q] = IF q = p THEN e ELSE pending[q]
    BY <1>2 DEF WatchInv, WatchShape, WatcherIsSound
  <2> QED BY <1>2, <1>3, <2>1, <2>2 DEF OnItsWay
<1>7. \A a \in admitting' : a.print <= saves
  BY <1>2 DEF WatchInv, VersionsAreFresh
<1> QED BY <1>2, <1>4, <1>5, <1>6, <1>7, WatcherGoesOn

(* The size of a file is looked at.                                        *)
LEMMA LookingAtSize == ASSUME WatchInv, NEW p \in Paths, SizeKnown(p) PROVE WatchInv'
<1>1. PICK e : e = [pending[p] EXCEPT !.size = file[p].size]
  OBVIOUS
<1>2. /\ UNCHANGED <<file, saves, captured, read, known, phase, excused, handed, queue, batch>>
      /\ UNCHANGED <<events, loose, admitting, done, late>>
      /\ pending' = [pending EXCEPT ![p] = e]
  BY <1>1 DEF SizeKnown, diskVars, storeVars, WatchInv, WatchShape, WatcherIsSound
<1>3. file[p].size \in Sizes
  BY VersionsAreNumbers DEF SizeKnown, There, WatchInv, Sizes
<1>4. pending[p] \in [size : Sizes \cup {"unknown"}, timer : BOOLEAN]
  BY EntriesHaveTimers DEF SizeKnown, WatchInv, WatchShape
<1>5. e \in Entries /\ e.timer = pending[p].timer
  BY <1>1, <1>3, <1>4 DEF Entries
<1>6. \A q \in Paths : pending'[q].timer = pending[q].timer
  BY <1>2, <1>5 DEF WatchInv, WatchShape, WatcherIsSound
<1>7. WatcherIsSound'
  BY <1>2, <1>5 DEF WatchInv, WatchShape, WatcherIsSound
<1>8. EndIsEnd'
  BY <1>2, <1>6 DEF WatchInv, EndIsEnd, Working
<1>9. \A q \in Paths : OnItsWay(q) => OnItsWay(q)'
  BY <1>2, <1>6 DEF OnItsWay, Now
<1>10. \A a \in admitting' : a.print <= saves
  BY <1>2 DEF WatchInv, VersionsAreFresh
<1> QED BY <1>2, <1>7, <1>8, <1>9, <1>10, WatcherGoesOn

(* The timer of an entry fires.                                            *)
LEMMA TimersFire == ASSUME WatchInv, NEW p \in Paths, TimerFires(p) PROVE WatchInv'
<1>1. PICK e, a : e = [pending[p] EXCEPT !.timer = FALSE] /\ a = Callback(p, pending[p].size)
  OBVIOUS
<1>2. /\ UNCHANGED <<file, saves, captured, read, known, phase, excused, handed, queue, batch>>
      /\ UNCHANGED <<events, loose, done, late>>
      /\ pending' = [pending EXCEPT ![p] = e] /\ admitting' = admitting \cup {a}
      /\ pending[p].timer
  BY <1>1 DEF TimerFires, diskVars, storeVars, WatchInv, WatchShape, WatcherIsSound
<1>3. pending[p] \in [size : Sizes \cup {"unknown"}, timer : BOOLEAN]
  BY <1>2, EntriesHaveTimers DEF WatchInv, WatchShape
<1>4. e \in Entries /\ ~e.timer /\ a \in Callbacks /\ a.path = p /\ a.print = 0
  BY <1>1, <1>3 DEF Entries, Callbacks, Callback
<1>5. \A q \in Paths : pending'[q] = IF q = p THEN e ELSE pending[q]
  BY <1>2 DEF WatchInv, WatchShape, WatcherIsSound
<1>6. WatcherIsSound'
  BY <1>2, <1>4 DEF WatchInv, WatchShape, WatcherIsSound
<1>7. phase = "watching"
  BY <1>2 DEF WatchInv, EndIsEnd
<1>8. EndIsEnd'
  BY <1>2, <1>7 DEF WatchInv, EndIsEnd, Working
<1>9. \A q \in Paths : OnItsWay(q) => OnItsWay(q)'
  <2> SUFFICES ASSUME NEW q \in Paths, OnItsWay(q) PROVE OnItsWay(q)'
    OBVIOUS
  <2>1. Now(q)' = Now(q)
    BY <1>2 DEF Now
  <2>2. CASE q = p
    BY <1>2, <1>4, <2>2 DEF OnItsWay
  <2>3. CASE q # p
    BY <1>2, <1>5, <2>1, <2>3 DEF OnItsWay
  <2> QED BY <2>2, <2>3
<1>10. \A c \in admitting' : c.print <= saves
  BY <1>2, <1>4, StoreStands DEF WatchInv, VersionsAreFresh
<1> QED BY <1>2, <1>6, <1>8, <1>9, <1>10, WatcherGoesOn

(* A timer that nobody cleared fires.                                      *)
LEMMA LooseTimersFire == ASSUME WatchInv, NEW t \in loose, LooseTimerFires(t) PROVE WatchInv'
<1>1. PICK a : a = Callback(t.path, t.size)
  OBVIOUS
<1>2. /\ UNCHANGED <<file, saves, captured, read, known, phase, excused, handed, queue, batch>>
      /\ UNCHANGED <<events, pending, done>> /\ loose' = loose \ {t}
      /\ admitting' = admitting \cup {a} /\ late' = (late \/ phase = "stopped")
  BY <1>1 DEF LooseTimerFires, diskVars, storeVars
<1>3. t \in LooseTimers
  BY DEF WatchInv, WatchShape, WatcherIsSound
<1>4. a \in Callbacks /\ a.path = t.path /\ a.print = 0
  BY <1>1, <1>3 DEF LooseTimers, Callbacks, Callback
<1>5. WatcherIsSound'
  BY <1>2, <1>4 DEF WatchInv, WatchShape, WatcherIsSound
<1>6. phase \notin {"off", "catching up"}
  BY DEF WatchInv, EndIsEnd
<1>7. EndIsEnd'
  BY <1>2, <1>6 DEF WatchInv, EndIsEnd, Working
<1>8. \A q \in Paths : OnItsWay(q) => OnItsWay(q)'
  <2> SUFFICES ASSUME NEW q \in Paths, OnItsWay(q) PROVE OnItsWay(q)'
    OBVIOUS
  <2>1. Now(q)' = Now(q)
    BY <1>2 DEF Now
  <2>2. CASE q = t.path
    BY <1>2, <1>4, <2>2 DEF OnItsWay
  <2>3. CASE q # t.path
    BY <1>2, <2>1, <2>3 DEF OnItsWay
  <2> QED BY <2>2, <2>3
<1>9. \A c \in admitting' : c.print <= saves
  BY <1>2, <1>4, StoreStands DEF WatchInv, VersionsAreFresh
<1> QED BY <1>2, <1>5, <1>7, <1>8, <1>9, WatcherGoesOn

(* A file that settled is handed on.                                       *)
LEMMA Settling == ASSUME WatchInv, NEW a \in admitting, Settle(a) PROVE WatchInv'
<1>1. PICK p : p = a.path
  OBVIOUS
<1>2. a \in Callbacks /\ p \in Paths
  BY <1>1 DEF WatchInv, WatchShape, WatcherIsSound, Callbacks
<1>3. /\ UNCHANGED <<file, saves, captured, read, known, phase, excused, handed, queue, batch>>
      /\ UNCHANGED <<events, late>> /\ LetLoose(p) /\ MaybeFinish
  BY <1>1 DEF Settle, diskVars, storeVars
<1>4. loose' \subseteq LooseTimers /\ loose \subseteq loose'
  <2>1. CASE pending[p].timer
    <3>1. pending[p] \in [size : Sizes \cup {"unknown"}, timer : BOOLEAN]
      BY <1>2, <2>1, EntriesHaveTimers DEF WatchInv, WatchShape
    <3>2. PICK t : t = [path |-> p, size |-> pending[p].size]
      OBVIOUS
    <3>3. t \in LooseTimers
      BY <1>2, <3>1, <3>2 DEF LooseTimers
    <3>4. loose' = loose \cup {t}
      BY <1>3, <2>1, <3>2 DEF LetLoose
    <3> QED BY <3>3, <3>4 DEF WatchInv, WatchShape, WatcherIsSound
  <2>2. CASE ~pending[p].timer
    BY <1>3, <2>2 DEF LetLoose, WatchInv, WatchShape, WatcherIsSound
  <2> QED BY <2>1, <2>2
<1>5. PICK e \in Entries : /\ pending' = [pending EXCEPT ![p] = e]
                           /\ e.timer => phase = "watching"
                           /\ There(p) /\ file[p].size # a.size /\ phase = "watching" => e.timer
  <2>1. CASE There(p) /\ file[p].size # a.size
    <3>1. file[p].size \in Sizes
      BY <1>2, <2>1, VersionsAreNumbers DEF There, WatchInv, Sizes
    <3>2. PICK b \in BOOLEAN : b = (phase = "watching")
      OBVIOUS
    <3>3. pending' = [pending EXCEPT ![p] = [size |-> file[p].size, timer |-> b]]
      BY <1>1, <2>1, <3>2 DEF Settle
    <3>4. PICK e : e = [size |-> file[p].size, timer |-> b]
      OBVIOUS
    <3>5. e \in Entries
      BY <3>1, <3>2, <3>4 DEF Entries
    <3>6. e.timer = b
      BY <3>4
    <3> QED BY <3>2, <3>3, <3>4, <3>5, <3>6
  <2>2. CASE ~(There(p) /\ file[p].size # a.size)
    <3>1. pending' = [pending EXCEPT ![p] = NoEntry] /\ NoEntry \in Entries /\ ~NoEntry.timer
      BY <1>1, <2>2 DEF Settle, Entries, NoEntry
    <3> QED BY <2>2, <3>1
  <2> QED BY <2>1, <2>2
<1>6. PICK b : b = [a EXCEPT !.print = Now(p)]
  OBVIOUS
<1>7. b \in Callbacks /\ b.path = p /\ b.print = Now(p)
  BY <1>1, <1>2, <1>6, VersionsAreNumbers DEF Callbacks, WatchInv
<1>8. /\ admitting' \in {admitting \ {a}, (admitting \ {a}) \cup {b}}
      /\ There(p) /\ ~(file[p].size # a.size) /\ handed[p] # Now(p) => b \in admitting'
  BY <1>1, <1>6 DEF Settle, Fingerprint, Now
<1>9. \A q \in Paths : pending'[q] = IF q = p THEN e ELSE pending[q]
  BY <1>2, <1>5 DEF WatchInv, WatchShape, WatcherIsSound
<1>10. WatcherIsSound'
  BY <1>2, <1>3, <1>4, <1>5, <1>7, <1>8 DEF WatchInv, WatchShape, WatcherIsSound
<1>11. phase \notin {"off", "catching up"}
  BY DEF WatchInv, EndIsEnd
<1>12. EndIsEnd'
  <2>1. phase # "watching" => \A q \in Paths : ~pending'[q].timer
    BY <1>5, <1>9 DEF WatchInv, EndIsEnd
  <2>2. done' => phase' = "stopped" /\ (late' \/ ~Working')
    BY <1>3 DEF WatchInv, EndIsEnd, MaybeFinish, Working
  <2> QED BY <1>3, <1>11, <2>1, <2>2 DEF WatchInv, EndIsEnd
<1>13. \A q \in Paths : phase = "watching" /\ Due(q) /\ handed[q] # Now(q) /\ OnItsWay(q) => OnItsWay(q)'
  <2> SUFFICES ASSUME NEW q \in Paths, phase = "watching", Due(q), handed[q] # Now(q), OnItsWay(q)
               PROVE  OnItsWay(q)'
    OBVIOUS
  <2>1. Now(q)' = Now(q)
    BY <1>3 DEF Now
  <2>2. CASE q = p
    <3>1. There(p)
      BY <2>2 DEF Due, There, Missing
    <3>2. CASE file[p].size # a.size
      BY <1>5, <1>9, <2>2, <3>1, <3>2 DEF OnItsWay
    <3>3. CASE ~(file[p].size # a.size)
      <4>1. b \in admitting' /\ b.path = q /\ b.print = Now(q)'
        BY <1>7, <1>8, <2>1, <2>2, <3>1, <3>3
      <4> QED BY <4>1 DEF OnItsWay
    <3> QED BY <3>2, <3>3
  <2>3. CASE q # p
    <3>1. \A c \in admitting : c.path = q => c \in admitting'
      BY <1>1, <1>8, <2>3
    <3> QED BY <1>3, <1>4, <1>9, <2>1, <2>3, <3>1 DEF OnItsWay
  <2> QED BY <2>2, <2>3
<1>14. \A c \in admitting' : c.print <= saves
  BY <1>2, <1>7, <1>8 DEF WatchInv, VersionsAreFresh
<1> QED BY <1>3, <1>10, <1>12, <1>13, <1>14, WatcherGoesOn

(* The capture goes on and the watcher waits.                              *)
LEMMA BatchGoesOn ==
  ASSUME WatchInv,
         UNCHANGED <<file, saves, phase, events, pending, loose, admitting, handed, queue, done, late>>,
         batch.stage # "none", batch'.stage = "go",
         \A q \in DOMAIN batch'.todo : q \in Paths /\ batch'.todo[q] \in Nat /\ batch'.todo[q] <= saves,
         known' \in [Paths -> Nat], captured' \subseteq Nat,
         \A q \in Paths : known'[q] <= saves, \A v \in captured' : v <= saves,
         KnownIsCaptured', \A q \in Paths : Minded(q)'
  PROVE  WatchInv'
<1>1. WatchShape'
  BY DEF WatchInv, WatchShape, FilesAreFiles, WatcherIsSound, BatchIsSound
<1>2. VersionsAreFresh'
  BY DEF WatchInv, VersionsAreFresh, Now
<1>3. batch # NoBatch /\ batch' # NoBatch
  BY DEF NoBatch
<1>4. EndIsEnd'
  BY <1>3 DEF WatchInv, EndIsEnd, Working
<1> QED BY <1>1, <1>2, <1>4 DEF WatchInv, NothingForgotten

(* What a capture has to do was on disk when it looked.                    *)
LEMMA TodoIsSound ==
  ASSUME WatchInv, batch.stage = "go"
  PROVE  \A q \in DOMAIN batch.todo : q \in Paths /\ batch.todo[q] \in Nat /\ batch.todo[q] <= saves
BY DEF WatchInv, WatchShape, BatchIsSound

(* What is to be read next, and what is about to be.                       *)
LEMMA GoingIs ==
  ASSUME NEW todo, NEW at
  PROVE  Going(todo, at).stage = "go" /\ Going(todo, at).todo = todo /\ Going(todo, at).at = at
BY DEF Going

(* A capture looks at what it was handed.                                  *)
LEMMA Looking == ASSUME WatchInv, Look PROVE WatchInv'
<1>1. PICK S, todo : S = {p \in batch.paths : There(p)} /\ todo = Snapshot(S)
  OBVIOUS
<1>2. /\ UNCHANGED <<file, saves, phase, events, pending, loose, admitting, handed, queue, done, late>>
      /\ UNCHANGED <<captured, read, known, excused>>
      /\ batch.stage = "look" /\ batch' = Going(todo, Nothing)
  BY <1>1 DEF Look, diskVars, storeVars
<1>3. S \subseteq Paths /\ \A q : q \in S <=> q \in batch.paths /\ There(q)
  BY <1>1, <1>2 DEF WatchInv, WatchShape, BatchIsSound
<1>4. DOMAIN todo = S /\ \A q \in S : todo[q] = Now(q)
  BY <1>1 DEF Snapshot, Now
<1>5. batch'.stage = "go" /\ batch'.todo = todo
  BY <1>2, GoingIs
<1>6. \A q \in DOMAIN batch'.todo : q \in Paths /\ batch'.todo[q] \in Nat /\ batch'.todo[q] <= saves
  <2>1. \A q \in Paths : Now(q) \in Nat /\ Now(q) <= saves
    BY VersionsAreNumbers DEF WatchInv, VersionsAreFresh
  <2> QED BY <1>3, <1>4, <1>5, <2>1
<1>7. KnownIsCaptured'
  BY <1>2 DEF WatchInv, KnownIsCaptured, Now
<1>8. ASSUME NEW q \in Paths PROVE Minded(q)'
  <2>1. Minded(q) /\ Now(q)' = Now(q) /\ (Due(q)' => Due(q))
    BY <1>2, DueWasDue DEF WatchInv, NothingForgotten
  <2>2. ~AtIt(q)
    BY <1>2 DEF AtIt
  <2>3. Due(q) => There(q)
    BY DEF Due, There, Missing
  <2>4. Due(q) /\ InBatch(q) => InBatch(q)'
    BY <1>2, <1>3, <1>4, <1>5, <2>1, <2>3 DEF InBatch
  <2>5. OnItsWay(q)' <=> OnItsWay(q)
    BY <1>2, <2>1 DEF OnItsWay
  <2> QED BY <1>2, <2>1, <2>2, <2>4, <2>5 DEF Minded, UnderWay
<1> QED BY <1>2, <1>5, <1>6, <1>7, <1>8, StoreStands, BatchGoesOn

(* What is not taken from the list stays on it.                            *)
LEMMA RestIs ==
  ASSUME WatchInv, NEW p \in DOMAIN batch.todo, batch.stage = "go", NEW at, batch' = Going(Rest(p), at),
         file' = file
  PROVE  /\ batch'.stage = "go" /\ batch'.at = at
         /\ \A q \in DOMAIN batch'.todo : q \in Paths /\ batch'.todo[q] \in Nat /\ batch'.todo[q] <= saves
         /\ \A q : q # p => (InBatch(q)' <=> InBatch(q))
<1>1. batch'.stage = "go" /\ batch'.at = at /\ batch'.todo = Rest(p)
  BY GoingIs
<1>2. DOMAIN Rest(p) = DOMAIN batch.todo \ {p} /\ \A q \in DOMAIN Rest(p) : Rest(p)[q] = batch.todo[q]
  BY DEF Rest
<1>3. \A q \in DOMAIN batch'.todo : q \in Paths /\ batch'.todo[q] \in Nat /\ batch'.todo[q] <= saves
  BY <1>1, <1>2, TodoIsSound
<1>4. ASSUME NEW q, q # p PROVE InBatch(q)' <=> InBatch(q)
  <2>1. Now(q)' = Now(q)
    BY DEF Now
  <2> QED BY <1>1, <1>2, <1>4, <2>1 DEF InBatch
<1> QED BY <1>1, <1>3, <1>4

(* A file that is known already is passed over.                            *)
LEMMA Skipping == ASSUME WatchInv, NEW p \in Paths, Skip(p) PROVE WatchInv'
<1>1. /\ UNCHANGED <<file, saves, phase, events, pending, loose, admitting, handed, queue, done, late>>
      /\ UNCHANGED <<captured, read, known, excused>>
      /\ batch.stage = "go" /\ batch.at = Nothing /\ p \in DOMAIN batch.todo
      /\ batch' = Going(Rest(p), Nothing)
      /\ known[p] = batch.todo[p] \/ Now(p) \in captured
  BY DEF Skip, OnTo, StillWaiting, diskVars, storeVars, Now
<1>2. /\ batch'.stage = "go" /\ batch'.at = Nothing
      /\ \A q \in DOMAIN batch'.todo : q \in Paths /\ batch'.todo[q] \in Nat /\ batch'.todo[q] <= saves
      /\ \A q : q # p => (InBatch(q)' <=> InBatch(q))
  BY <1>1, RestIs
<1>3. KnownIsCaptured'
  BY <1>1 DEF WatchInv, KnownIsCaptured, Now
<1>4. \A q : ~AtIt(q)
  BY <1>1 DEF AtIt, Nothing
<1>5. Due(p) => ~InBatch(p)
  <2> SUFFICES ASSUME Due(p), InBatch(p) PROVE FALSE
    OBVIOUS
  <2>1. Now(p) \notin captured
    BY <1>4 DEF WatchInv, NothingForgotten, Minded
  <2>2. batch.todo[p] = Now(p)
    BY <1>1 DEF InBatch
  <2>3. Now(p) # 0
    BY VersionsAreNumbers DEF WatchInv, Due
  <2> QED BY <1>1, <2>1, <2>2, <2>3 DEF WatchInv, KnownIsCaptured
<1>6. ASSUME NEW q \in Paths PROVE Minded(q)'
  <2>1. Minded(q) /\ Now(q)' = Now(q) /\ (Due(q)' => Due(q))
    BY <1>1, DueWasDue DEF WatchInv, NothingForgotten
  <2>2. Due(q) /\ InBatch(q) => InBatch(q)'
    BY <1>2, <1>5
  <2>3. OnItsWay(q)' <=> OnItsWay(q)
    BY <1>1, <2>1 DEF OnItsWay
  <2> QED BY <1>1, <1>4, <2>1, <2>2, <2>3 DEF Minded, UnderWay
<1> QED BY <1>1, <1>2, <1>3, <1>6, StoreStands, BatchGoesOn

(* A file is captured.                                                     *)
LEMMA Capturing == ASSUME WatchInv, NEW p \in Paths, Capture(p) PROVE WatchInv'
<1>1. PICK at, x : /\ at = IF file[p].size = "full" THEN <<p, file[p].version>> ELSE Nothing
                   /\ x = batch.todo[p]
  OBVIOUS
<1>2. /\ UNCHANGED <<file, saves, phase, events, pending, loose, admitting, handed, queue, done, late>>
      /\ UNCHANGED <<read, excused>>
      /\ batch.stage = "go" /\ batch.at = Nothing /\ p \in DOMAIN batch.todo
      /\ batch' = Going(Rest(p), at)
      /\ There(p) /\ captured' = captured \cup {Now(p)} /\ known' = [known EXCEPT ![p] = x]
  BY <1>1 DEF Capture, OnTo, StillWaiting, diskVars, Now
<1>3. /\ batch'.stage = "go" /\ batch'.at = at
      /\ \A q \in DOMAIN batch'.todo : q \in Paths /\ batch'.todo[q] \in Nat /\ batch'.todo[q] <= saves
      /\ \A q : q # p => (InBatch(q)' <=> InBatch(q))
  BY <1>2, RestIs
<1>4. x \in Nat /\ x <= saves /\ Now(p) \in Nat /\ Now(p) <= saves /\ Now(p) # 0
  BY <1>1, <1>2, TodoIsSound, VersionsAreNumbers DEF WatchInv, VersionsAreFresh, There
<1>5. /\ known' \in [Paths -> Nat] /\ captured' \subseteq Nat
      /\ \A q \in Paths : known'[q] = IF q = p THEN x ELSE known[q]
      /\ \A v \in captured' : v <= saves
  BY <1>2, <1>4, StoreStands
<1>6. \A q \in Paths : known'[q] <= saves
  BY <1>4, <1>5, StoreStands
<1>7. \A q \in Paths : Now(q)' = Now(q)
  BY <1>2 DEF Now
<1>8. KnownIsCaptured'
  <2> SUFFICES ASSUME NEW q \in Paths, known'[q] # 0, known'[q] = Now(q) PROVE Now(q) \in captured'
    BY <1>7 DEF KnownIsCaptured
  <2>1. CASE q = p
    BY <1>2, <2>1
  <2>2. CASE q # p
    BY <1>2, <1>5, <2>2 DEF WatchInv, KnownIsCaptured
  <2> QED BY <2>1, <2>2
<1>9. \A q : ~AtIt(q)
  BY <1>2 DEF AtIt, Nothing
<1>10. ASSUME NEW q \in Paths PROVE Minded(q)'
  <2>1. Minded(q) /\ Now(q)' = Now(q) /\ (Due(q)' => Due(q))
    BY <1>2, DueWasDue DEF WatchInv, NothingForgotten
  <2>2. CASE q = p
    <3>1. Due(p) => at = <<p, Now(p)>>
      BY <1>1 DEF Due, Now
    <3>2. Due(p) => AtIt(p)'
      BY <1>3, <2>1, <2>2, <3>1 DEF AtIt
    <3> QED BY <2>1, <2>2, <3>2 DEF Minded, UnderWay
  <2>3. CASE q # p
    <3>1. InBatch(q) => InBatch(q)'
      BY <1>3, <2>3
    <3>2. OnItsWay(q)' <=> OnItsWay(q)
      BY <1>2, <2>1 DEF OnItsWay
    <3>3. Now(q) # Now(p)
      BY <1>4, <2>3 DEF WatchInv, VersionsAreFresh
    <3>4. Now(q) \in captured' => Now(q) \in captured
      BY <1>2, <3>3
    <3> QED BY <1>2, <1>9, <2>1, <3>1, <3>2, <3>4 DEF Minded, UnderWay
  <2> QED BY <2>2, <2>3
<1> QED BY <1>2, <1>3, <1>5, <1>6, <1>8, <1>10, BatchGoesOn

(* What is at the head of the list is left, read or not.                   *)
LEMMA LeavingIt ==
  ASSUME WatchInv,
         UNCHANGED <<file, saves, phase, events, pending, loose, admitting, handed, queue, done, late>>,
         UNCHANGED <<captured, known>>, excused \subseteq excused', read \subseteq read',
         batch.stage = "go", batch.at # Nothing, batch' = Going(batch.todo, Nothing),
         \A q \in Paths : AtIt(q) => ~Due(q)'
  PROVE  WatchInv'
<1>1. batch'.stage = "go" /\ batch'.todo = batch.todo
  BY GoingIs
<1>2. KnownIsCaptured'
  BY DEF WatchInv, KnownIsCaptured, Now
<1>3. ASSUME NEW q \in Paths PROVE Minded(q)'
  <2>1. Minded(q) /\ Now(q)' = Now(q) /\ (Due(q)' => Due(q))
    BY DueWasDue DEF WatchInv, NothingForgotten
  <2>2. InBatch(q) <=> InBatch(q)'
    BY <1>1, <2>1 DEF InBatch
  <2>3. OnItsWay(q)' <=> OnItsWay(q)
    BY <2>1 DEF OnItsWay
  <2> QED BY <2>1, <2>2, <2>3 DEF Minded, UnderWay
<1> QED BY <1>1, <1>2, <1>3, TodoIsSound, StoreStands, BatchGoesOn

(* What was captured is read.                                              *)
LEMMA Extracting == ASSUME WatchInv, Extract PROVE WatchInv'
<1>1. /\ UNCHANGED <<file, saves, phase, events, pending, loose, admitting, handed, queue, done, late>>
      /\ UNCHANGED <<captured, known, excused>>
      /\ batch.stage = "go" /\ batch.at # Nothing /\ batch' = Going(batch.todo, Nothing)
      /\ read' = read \cup {batch.at[2]}
  BY DEF Extract, StillWaiting, diskVars
<1>2. \A q \in Paths : AtIt(q) => ~Due(q)'
  <2> SUFFICES ASSUME NEW q \in Paths, AtIt(q) PROVE ~Due(q)'
    OBVIOUS
  <2>1. batch.at[2] = Now(q)
    BY DEF AtIt
  <2>2. file'[q].version \in read'
    BY <1>1, <2>1 DEF Now
  <2> QED BY <2>2 DEF Due
<1> QED BY <1>1, <1>2, LeavingIt

(* What comes again is on its way or in the queue, and not handed over.    *)
LEMMA ComingAgain ==
  ASSUME NEW p \in Paths, ComesAgain(p)
  PROVE  /\ phase # "catching up" /\ handed[p] # Now(p)
         /\ OnItsWay(p) \/ p \in queue
BY DEF ComesAgain, OnItsWay, Now

(* One file of a capture fails, and is let go.                             *)
LEMMA Failing == ASSUME WatchInv, FileFails PROVE WatchInv'
<1>1. /\ UNCHANGED <<file, saves, phase, events, pending, loose, admitting, handed, queue, done, late>>
      /\ UNCHANGED <<captured, known, read>> /\ batch.stage = "go"
  BY DEF FileFails, StillWaiting, diskVars, storeVars
<1>2. CASE batch.at # Nothing
  <2>1. /\ batch' = Going(batch.todo, Nothing)
        /\ excused' = IF batch.at[2] = file[batch.at[1]].version THEN excused \cup {batch.at[1]} ELSE excused
    BY <1>2 DEF FileFails, OnTo
  <2>2. \A q \in Paths : AtIt(q) => ~Due(q)'
    <3> SUFFICES ASSUME NEW q \in Paths, AtIt(q) PROVE ~Due(q)'
      OBVIOUS
    <3>1. batch.at[1] = q /\ batch.at[2] = file[q].version
      BY DEF AtIt, Now
    <3>2. q \in excused'
      BY <2>1, <3>1
    <3> QED BY <3>2 DEF Due
  <2>3. excused \subseteq excused'
    BY <2>1
  <2> QED BY <1>1, <1>2, <2>1, <2>2, <2>3, LeavingIt
<1>3. CASE batch.at = Nothing
  <2>1. PICK p \in DOMAIN batch.todo : batch' = Going(Rest(p), Nothing) /\ GiveUp({p})
    BY <1>3 DEF FileFails
  <2>2. /\ batch'.stage = "go" /\ batch'.at = Nothing
        /\ \A q \in DOMAIN batch'.todo : q \in Paths /\ batch'.todo[q] \in Nat /\ batch'.todo[q] <= saves
        /\ \A q : q # p => (InBatch(q)' <=> InBatch(q))
    BY <1>1, <2>1, RestIs
  <2>3. excused \subseteq excused' /\ p \in Paths /\ (p \notin excused' => ComesAgain(p))
    BY <1>1, <2>1, TodoIsSound DEF GiveUp
  <2>4. KnownIsCaptured'
    BY <1>1 DEF WatchInv, KnownIsCaptured, Now
  <2>5. \A q : ~AtIt(q)
    BY <1>3 DEF AtIt, Nothing
  <2>6. ASSUME NEW q \in Paths PROVE Minded(q)'
    <3>1. Minded(q) /\ Now(q)' = Now(q) /\ (Due(q)' => Due(q))
      BY <1>1, <2>3, DueWasDue DEF WatchInv, NothingForgotten
    <3>2. OnItsWay(q)' <=> OnItsWay(q)
      BY <1>1, <3>1 DEF OnItsWay
    <3>3. CASE q = p
      <4>1. Due(p)' => p \notin excused'
        BY DEF Due
      <4>2. Due(p)' => phase # "catching up" /\ handed[p] # Now(p) /\ (OnItsWay(p) \/ p \in queue)
        BY <2>3, <4>1, ComingAgain
      <4> QED BY <1>1, <2>5, <3>1, <3>2, <3>3, <4>2 DEF Minded, UnderWay
    <3>4. CASE q # p
      BY <1>1, <2>2, <2>5, <3>1, <3>2, <3>4 DEF Minded, UnderWay
    <3> QED BY <3>3, <3>4
  <2> QED BY <1>1, <2>2, <2>4, <2>6, StoreStands, BatchGoesOn
<1> QED BY <1>2, <1>3

(* The queue moves: a batch ends, or a file is added.                      *)
LEMMA QueueMoves ==
  ASSUME WatchInv,
         UNCHANGED <<file, saves, phase, events, pending, loose, late>>, UNCHANGED <<captured, known, read>>,
         admitting' \subseteq admitting, handed' \in [Paths -> Nat], \A q \in Paths : handed'[q] <= saves,
         queue' \subseteq Paths, BatchIsSound', queue' # {} => batch' # NoBatch, Working, MaybeFinish,
         phase \notin {"off", "catching up"}, \A q \in Paths : Minded(q)'
  PROVE  WatchInv'
<1>1. WatchShape'
  BY DEF WatchInv, WatchShape, FilesAreFiles, WatcherIsSound
<1>2. VersionsAreFresh' /\ KnownIsCaptured'
  BY DEF WatchInv, VersionsAreFresh, KnownIsCaptured, Now
<1>3. EndIsEnd'
  <2>1. done' => phase' = "stopped" /\ (late' \/ ~Working')
    <3>1. CASE done /\ late
      BY <3>1 DEF WatchInv, EndIsEnd
    <3>2. CASE phase' = "stopped" /\ batch' = NoBatch /\ queue' = {} /\ admitting' = {}
      BY <3>2 DEF Working
    <3>3. done => late
      BY DEF WatchInv, EndIsEnd
    <3> QED BY <3>1, <3>2, <3>3 DEF MaybeFinish
  <2> QED BY <2>1 DEF WatchInv, EndIsEnd
<1> QED BY <1>1, <1>2, <1>3 DEF WatchInv, NothingForgotten

(* A capture that ends hands over to what waited for it.                   *)
LEMMA AfterTheBatch ==
  ASSUME WatchInv, AfterBatch, file' = file
  PROVE  /\ queue' = {} /\ BatchIsSound' /\ \A q \in queue : InBatch(q)'
<1>1. CASE queue = {}
  BY <1>1 DEF AfterBatch, BatchIsSound, NoBatch
<1>2. CASE queue # {}
  <2>1. batch'.stage = "look" /\ batch'.paths = queue /\ queue' = {}
    BY <1>2 DEF AfterBatch
  <2>2. queue \subseteq Paths
    BY DEF WatchInv, WatchShape, WatcherIsSound
  <2> QED BY <2>1, <2>2 DEF BatchIsSound, InBatch
<1> QED BY <1>1, <1>2

(* A capture ends.                                                         *)
LEMMA BatchesEnd == ASSUME WatchInv, BatchEnds PROVE WatchInv'
<1>1. /\ UNCHANGED <<file, saves, phase, events, pending, loose, late>>
      /\ UNCHANGED <<captured, known, read, admitting, handed, excused>>
      /\ batch.stage = "go" /\ batch.at = Nothing /\ DOMAIN batch.todo = {} /\ phase # "catching up"
      /\ AfterBatch /\ MaybeFinish
  BY DEF BatchEnds, diskVars, storeVars
<1>2. queue' = {} /\ BatchIsSound' /\ \A q \in queue : InBatch(q)'
  BY <1>1, AfterTheBatch
<1>3. batch # NoBatch /\ phase # "off" /\ Working
  <2>1. batch # NoBatch
    <3>1. NoBatch.stage = "none"
      BY DEF NoBatch
    <3> QED BY <1>1, <3>1
  <2> QED BY <2>1 DEF WatchInv, EndIsEnd, Working
<1>4. ASSUME NEW q \in Paths PROVE Minded(q)'
  <2>1. Minded(q) /\ Now(q)' = Now(q) /\ (Due(q)' => Due(q))
    BY <1>1, DueWasDue DEF WatchInv, NothingForgotten
  <2>2. ~AtIt(q) /\ ~InBatch(q)
    <3>1. <<q, Now(q)>> # Nothing
      BY DEF Nothing
    <3> QED BY <1>1, <3>1 DEF AtIt, InBatch
  <2>3. OnItsWay(q)' <=> OnItsWay(q)
    BY <1>1, <2>1 DEF OnItsWay
  <2> QED BY <1>1, <1>2, <2>1, <2>2, <2>3 DEF Minded, UnderWay
<1>5. handed' \in [Paths -> Nat] /\ \A q \in Paths : handed'[q] <= saves
  BY <1>1 DEF WatchInv, WatchShape, FilesAreFiles, VersionsAreFresh
<1>6. admitting' \subseteq admitting /\ queue' \subseteq Paths
  BY <1>1, <1>2
<1> QED BY <1>1, <1>2, <1>3, <1>4, <1>5, <1>6, QueueMoves

(* A capture fails as a whole.                                             *)
LEMMA BatchesFail == ASSUME WatchInv, BatchFails PROVE WatchInv'
<1>1. /\ UNCHANGED <<file, saves, phase, events, pending, loose, late>>
      /\ UNCHANGED <<captured, known, read, admitting, handed>>
      /\ batch.stage = "look" /\ GiveUp(batch.paths) /\ AfterBatch /\ MaybeFinish
  BY DEF BatchFails, diskVars, storeVars
<1>2. queue' = {} /\ BatchIsSound' /\ \A q \in queue : InBatch(q)'
  BY <1>1, AfterTheBatch
<1>3. batch # NoBatch /\ phase \notin {"off", "catching up"} /\ Working
  <2>1. batch # NoBatch
    BY <1>1 DEF NoBatch
  <2> QED BY <1>1, <2>1 DEF WatchInv, EndIsEnd, Working
<1>4. excused \subseteq excused' /\ \A q \in batch.paths : q \notin excused' => ComesAgain(q)
  BY <1>1 DEF GiveUp
<1>5. ASSUME NEW q \in Paths PROVE Minded(q)'
  <2>1. Minded(q) /\ Now(q)' = Now(q) /\ (Due(q)' => Due(q)) /\ (Due(q)' => q \notin excused')
    BY <1>1, <1>4, DueWasDue DEF WatchInv, NothingForgotten, Due
  <2>2. ~AtIt(q) /\ (InBatch(q) => q \in batch.paths)
    BY <1>1 DEF AtIt, InBatch
  <2>3. OnItsWay(q)' <=> OnItsWay(q)
    BY <1>1, <2>1 DEF OnItsWay
  <2>4. CASE q \in batch.paths
    <3>1. Due(q)' => handed[q] # Now(q) /\ (OnItsWay(q) \/ q \in queue)
      BY <1>4, <2>1, <2>4, ComingAgain
    <3> QED BY <1>1, <1>2, <1>3, <2>1, <2>2, <2>3, <3>1 DEF Minded, UnderWay
  <2>5. CASE q \notin batch.paths
    BY <1>1, <1>2, <1>3, <2>1, <2>2, <2>3, <2>5 DEF Minded, UnderWay
  <2> QED BY <2>4, <2>5
<1>6. handed' \in [Paths -> Nat] /\ \A q \in Paths : handed'[q] <= saves
  BY <1>1 DEF WatchInv, WatchShape, FilesAreFiles, VersionsAreFresh
<1>7. admitting' \subseteq admitting /\ queue' \subseteq Paths
  BY <1>1, <1>2
<1> QED BY <1>1, <1>2, <1>3, <1>5, <1>6, <1>7, QueueMoves

(* A file that is added to the queue is under way, and the others stay so. *)
LEMMA Draining ==
  ASSUME WatchInv, NEW p \in Paths, Drain(queue \cup {p}), file' = file
  PROVE  /\ queue' \subseteq Paths /\ (saves' = saves => BatchIsSound')
         /\ queue' # {} => batch' # NoBatch
         /\ \A q \in Paths : (AtIt(q)' <=> AtIt(q)) /\ (InBatch(q) => InBatch(q)')
         /\ \A q \in Paths : UnderWay(q) \/ q = p => UnderWay(q)'
<1>1. queue \cup {p} \subseteq Paths
  BY DEF WatchInv, WatchShape, WatcherIsSound
<1>2. \A q : Now(q)' = Now(q)
  BY DEF Now
<1>3. CASE batch = NoBatch
  <2>1. batch'.stage = "look" /\ batch'.paths = queue \cup {p} /\ queue' = {}
    BY <1>3 DEF Drain
  <2>2. batch.stage = "none"
    BY <1>3 DEF NoBatch
  <2>3. BatchIsSound'
    BY <1>1, <2>1 DEF BatchIsSound
  <2>4. \A q \in Paths : ~AtIt(q)' /\ ~AtIt(q) /\ ~InBatch(q) /\ (q \in queue \cup {p} => InBatch(q)')
    BY <2>1, <2>2 DEF AtIt, InBatch
  <2> QED BY <2>1, <2>3, <2>4 DEF UnderWay
<1>4. CASE batch # NoBatch
  <2>1. batch' = batch /\ queue' = queue \cup {p}
    BY <1>4 DEF Drain
  <2>2. saves' = saves => BatchIsSound'
    BY <2>1 DEF BatchIsSound, WatchInv, WatchShape
  <2>3. \A q \in Paths : (AtIt(q)' <=> AtIt(q)) /\ (InBatch(q)' <=> InBatch(q))
    BY <1>2, <2>1 DEF AtIt, InBatch
  <2> QED BY <1>1, <1>4, <2>1, <2>2, <2>3 DEF UnderWay
<1> QED BY <1>3, <1>4

(* A callback admits a file to the queue.                                  *)
LEMMA Admitting == ASSUME WatchInv, NEW a \in admitting, Admit(a) PROVE WatchInv'
<1>1. PICK p : p = a.path
  OBVIOUS
<1>2. a \in Callbacks /\ p \in Paths /\ a.print \in Nat
  BY <1>1 DEF WatchInv, WatchShape, WatcherIsSound, Callbacks
<1>3. /\ UNCHANGED <<file, saves, phase, events, pending, loose, late>>
      /\ UNCHANGED <<captured, known, read, excused>>
      /\ admitting' = admitting \ {a} /\ MaybeFinish
  BY DEF Admit, diskVars, storeVars
<1>4. phase \notin {"off", "catching up"} /\ Working
  BY DEF WatchInv, EndIsEnd, Working
<1>5. \A q \in Paths : q # p /\ OnItsWay(q) => OnItsWay(q)'
  <2> SUFFICES ASSUME NEW q \in Paths, q # p, OnItsWay(q) PROVE OnItsWay(q)'
    OBVIOUS
  <2>1. Now(q)' = Now(q)
    BY <1>3 DEF Now
  <2>2. \A c \in admitting : c.path = q => c \in admitting'
    BY <1>1, <1>3
  <2> QED BY <1>3, <2>1, <2>2 DEF OnItsWay
<1>6. CASE file[p].size = "full"
  <2>1. handed' = [handed EXCEPT ![p] = a.print] /\ Drain(queue \cup {p})
    BY <1>1, <1>6 DEF Admit
  <2>2. /\ queue' \subseteq Paths /\ BatchIsSound'
        /\ queue' # {} => batch' # NoBatch
        /\ \A q \in Paths : (AtIt(q)' <=> AtIt(q)) /\ (InBatch(q) => InBatch(q)')
        /\ \A q \in Paths : UnderWay(q) \/ q = p => UnderWay(q)'
    BY <1>2, <1>3, <2>1, Draining
  <2>3. ASSUME NEW q \in Paths PROVE Minded(q)'
    <3>1. Minded(q) /\ Now(q)' = Now(q) /\ (Due(q)' => Due(q))
      BY <1>3, DueWasDue DEF WatchInv, NothingForgotten
    <3>2. q # p => handed'[q] = handed[q]
      BY <2>1 DEF WatchInv, WatchShape, FilesAreFiles
    <3> QED BY <1>3, <1>4, <1>5, <2>2, <3>1, <3>2 DEF Minded
  <2>4. handed' \in [Paths -> Nat] /\ \A q \in Paths : handed'[q] <= saves
    BY <1>2, <2>1 DEF WatchInv, WatchShape, FilesAreFiles, VersionsAreFresh
  <2> QED BY <1>3, <1>4, <2>2, <2>3, <2>4, QueueMoves
<1>7. CASE file[p].size # "full"
  <2>1. UNCHANGED <<handed, queue, batch>>
    BY <1>1, <1>7 DEF Admit
  <2>2. ASSUME NEW q \in Paths PROVE Minded(q)'
    <3>1. Minded(q) /\ Now(q)' = Now(q) /\ (Due(q)' => Due(q)) /\ (Due(q) => q # p)
      BY <1>3, <1>7, DueWasDue DEF WatchInv, NothingForgotten, Due
    <3>2. (InBatch(q)' <=> InBatch(q)) /\ (AtIt(q)' <=> AtIt(q)) /\ (UnderWay(q)' <=> UnderWay(q))
      BY <2>1, <3>1 DEF InBatch, AtIt, UnderWay
    <3> QED BY <1>3, <1>4, <1>5, <2>1, <3>1, <3>2 DEF Minded
  <2>3. handed' \in [Paths -> Nat] /\ \A q \in Paths : handed'[q] <= saves
    BY <2>1 DEF WatchInv, WatchShape, FilesAreFiles, VersionsAreFresh
  <2>4. queue' \subseteq Paths /\ BatchIsSound' /\ (queue' # {} => batch' # NoBatch)
    BY <1>3, <2>1 DEF WatchInv, WatchShape, WatcherIsSound, BatchIsSound, EndIsEnd
  <2> QED BY <1>3, <1>4, <2>2, <2>3, <2>4, QueueMoves
<1> QED BY <1>6, <1>7

(* A callback fails before it admits its file.                             *)
LEMMA PlansFail == ASSUME WatchInv, NEW a \in admitting, PlanFails(a) PROVE WatchInv'
<1>1. PICK p : p = a.path
  OBVIOUS
<1>2. p \in Paths /\ a.print # 0
  BY <1>1 DEF WatchInv, WatchShape, WatcherIsSound, Callbacks, PlanFails
<1>3. /\ UNCHANGED <<file, saves, phase, events, pending, loose, late>>
      /\ UNCHANGED <<captured, known, read, handed, queue, batch>>
      /\ admitting' = admitting \ {a} /\ MaybeFinish
      /\ excused' = IF a.print = Now(p) THEN excused \cup {p} ELSE excused
  BY <1>1 DEF PlanFails, diskVars, storeVars, Now
<1>4. phase \notin {"off", "catching up"} /\ Working
  BY DEF WatchInv, EndIsEnd, Working
<1>5. ASSUME NEW q \in Paths PROVE Minded(q)'
  <2>1. Minded(q) /\ Now(q)' = Now(q) /\ (Due(q)' => Due(q)) /\ (Due(q)' => q \notin excused')
    BY <1>3, DueWasDue DEF WatchInv, NothingForgotten, Due
  <2>2. (InBatch(q)' <=> InBatch(q)) /\ (AtIt(q)' <=> AtIt(q)) /\ (UnderWay(q)' <=> UnderWay(q))
    BY <1>3, <2>1 DEF InBatch, AtIt, UnderWay
  <2>3. Due(q)' /\ OnItsWay(q) => OnItsWay(q)'
    <3> SUFFICES ASSUME Due(q)', OnItsWay(q) PROVE OnItsWay(q)'
      OBVIOUS
    <3>1. \A c \in admitting : c.path = q /\ c.print \in {0, Now(q)} => c \in admitting'
      BY <1>1, <1>2, <1>3, <2>1
    <3> QED BY <1>3, <2>1, <3>1 DEF OnItsWay
  <2> QED BY <1>3, <1>4, <2>1, <2>2, <2>3 DEF Minded
<1>6. handed' \in [Paths -> Nat] /\ \A q \in Paths : handed'[q] <= saves
  BY <1>3 DEF WatchInv, WatchShape, FilesAreFiles, VersionsAreFresh
<1>7. queue' \subseteq Paths /\ BatchIsSound' /\ (queue' # {} => batch' # NoBatch)
  BY <1>3 DEF WatchInv, WatchShape, WatcherIsSound, BatchIsSound, EndIsEnd
<1> QED BY <1>3, <1>4, <1>5, <1>6, <1>7, QueueMoves

(* No number is below zero.                                                *)
LEMMA NothingIsLess == \A n \in Nat : 0 <= n
OBVIOUS

(* A watcher that begins has nothing in hand.                              *)
LEMMA FreshIsSound ==
  ASSUME FreshWatcher
  PROVE  /\ pending' \in [Paths -> Entries] /\ \A q \in Paths : ~pending'[q].timer
         /\ handed' \in [Paths -> Nat] /\ \A q \in Paths : handed'[q] = 0
         /\ events' = {} /\ loose' = {} /\ admitting' = {} /\ queue' = {} /\ ~done'
BY DEF FreshWatcher, NoEntry, Entries

(* A watch that begins or ends leaves the files and the store as they are. *)
LEMMA WatchTurns ==
  ASSUME WatchInv, FreshWatcher, UNCHANGED <<file, saves, captured, read, known>>,
         phase' \in {"off", "catching up", "watching"}, BatchIsSound',
         phase' = "catching up" => batch'.stage = "go", phase' = "off" => batch' = NoBatch,
         \A q \in Paths : Minded(q)'
  PROVE  WatchInv'
<1>1. WatchShape'
  <2>1. FilesAreFiles'
    <3>1. handed' \in [Paths -> Nat]
      BY FreshIsSound
    <3> QED BY <3>1 DEF WatchInv, WatchShape, FilesAreFiles
  <2>2. WatcherIsSound'
    <3>1. /\ pending' \in [Paths -> Entries] /\ events' = {} /\ loose' = {}
          /\ admitting' = {} /\ queue' = {}
      BY FreshIsSound
    <3>2. phase' \in {"off", "catching up", "watching", "stopped"}
      OBVIOUS
    <3> QED BY <3>1, <3>2 DEF WatcherIsSound
  <2> QED BY <2>1, <2>2 DEF WatchShape
<1>2. VersionsAreFresh'
  <2>1. ASSUME NEW q \in Paths PROVE handed'[q] <= saves
    <3>1. saves \in Nat /\ handed'[q] = 0
      BY StoreStands, FreshIsSound
    <3>2. 0 <= saves
      BY <3>1, NothingIsLess
    <3> QED BY <3>1, <3>2
  <2>2. admitting' = {}
    BY FreshIsSound
  <2> QED BY <2>1, <2>2 DEF WatchInv, VersionsAreFresh, Now
<1>3. KnownIsCaptured'
  BY DEF WatchInv, KnownIsCaptured, Now
<1>4. EndIsEnd'
  BY FreshIsSound DEF EndIsEnd
<1> QED BY <1>1, <1>2, <1>3, <1>4 DEF WatchInv, NothingForgotten

(* A watch begins with a capture of what is there.                         *)
LEMMA Starting == ASSUME WatchInv, Start PROVE WatchInv'
<1>1. PICK S, todo : S = {p \in Paths : file[p].size = "full"} /\ todo = Snapshot(S)
  OBVIOUS
<1>2. /\ FreshWatcher /\ UNCHANGED <<file, saves, captured, read, known, excused>>
      /\ phase = "off" /\ phase' = "catching up" /\ batch' = Going(todo, Nothing)
  BY <1>1 DEF Start, diskVars, storeVars
<1>3. DOMAIN todo = S /\ \A q \in S : todo[q] = Now(q)
  BY <1>1 DEF Snapshot, Now
<1>4. batch'.stage = "go" /\ batch'.todo = todo
  BY <1>2, GoingIs
<1>5. S \subseteq Paths /\ \A q \in Paths : q \in S <=> file[q].size = "full"
  BY <1>1
<1>6. BatchIsSound'
  <2>1. \A q \in Paths : Now(q) \in Nat /\ Now(q) <= saves
    BY VersionsAreNumbers DEF WatchInv, VersionsAreFresh
  <2> QED BY <1>2, <1>3, <1>4, <1>5, <2>1 DEF BatchIsSound
<1>7. ASSUME NEW q \in Paths PROVE Minded(q)'
  <2>1. Minded(q) /\ Now(q)' = Now(q) /\ (Due(q)' => Due(q))
    BY <1>2, DueWasDue DEF WatchInv, NothingForgotten
  <2>2. ~AtIt(q)
    <3>1. batch = NoBatch /\ NoBatch.stage = "none"
      BY <1>2 DEF WatchInv, EndIsEnd, NoBatch
    <3> QED BY <3>1 DEF AtIt
  <2>3. Due(q) => InBatch(q)'
    BY <1>3, <1>4, <1>5, <2>1 DEF InBatch, Due
  <2> QED BY <1>2, <2>1, <2>2, <2>3 DEF Minded
<1> QED BY <1>2, <1>4, <1>6, <1>7, WatchTurns

(* The first capture is done and events count from here.                   *)
LEMMA StartingToWatch == ASSUME WatchInv, StartWatching PROVE WatchInv'
<1>1. /\ FreshWatcher /\ UNCHANGED <<file, saves, captured, read, known, excused>>
      /\ phase = "catching up" /\ phase' = "watching" /\ batch' = NoBatch
      /\ batch.at = Nothing /\ DOMAIN batch.todo = {}
  BY DEF StartWatching, diskVars, storeVars
<1>2. batch.stage = "go"
  BY <1>1 DEF WatchInv, EndIsEnd
<1>3. ASSUME NEW q \in Paths PROVE Minded(q)'
  <2>1. Minded(q) /\ (Due(q)' => Due(q))
    BY <1>1, DueWasDue DEF WatchInv, NothingForgotten
  <2>2. ~AtIt(q) /\ ~InBatch(q)
    <3>1. <<q, Now(q)>> # Nothing
      BY DEF Nothing
    <3> QED BY <1>1, <1>2, <3>1 DEF AtIt, InBatch
  <2> QED BY <1>1, <2>1, <2>2 DEF Minded
<1>4. BatchIsSound'
  BY <1>1 DEF BatchIsSound, NoBatch
<1> QED BY <1>1, <1>3, <1>4, WatchTurns

(* The watch is told to stop.                                              *)
LEMMA Stopping == ASSUME WatchInv, Stop PROVE WatchInv'
<1>1. /\ UNCHANGED <<file, saves, captured, read, known, excused>>
      /\ UNCHANGED <<loose, admitting, handed, queue, batch, late>>
      /\ phase = "watching" /\ phase' = "stopped" /\ events' = {}
      /\ pending' = [p \in Paths |-> NoEntry] /\ MaybeFinish
  BY DEF Stop, diskVars, storeVars
<1>2. pending' \in [Paths -> Entries] /\ \A q \in Paths : ~pending'[q].timer
  BY <1>1 DEF NoEntry, Entries
<1>3. WatchShape'
  BY <1>1, <1>2 DEF WatchInv, WatchShape, FilesAreFiles, WatcherIsSound, BatchIsSound
<1>4. VersionsAreFresh' /\ KnownIsCaptured'
  BY <1>1 DEF WatchInv, VersionsAreFresh, KnownIsCaptured, Now
<1>5. ASSUME NEW q \in Paths PROVE Minded(q)'
  <2>1. Minded(q) /\ Now(q)' = Now(q) /\ (Due(q)' => Due(q))
    BY <1>1, DueWasDue DEF WatchInv, NothingForgotten
  <2>2. AtIt(q)' <=> AtIt(q)
    BY <1>1, <2>1 DEF AtIt
  <2> QED BY <1>1, <2>1, <2>2 DEF Minded
<1>6. EndIsEnd'
  <2>1. ~done
    BY <1>1 DEF WatchInv, EndIsEnd
  <2>2. done' => ~Working'
    BY <1>1, <2>1 DEF MaybeFinish, Working
  <2> QED BY <1>1, <1>2, <2>2 DEF WatchInv, EndIsEnd
<1> QED BY <1>3, <1>4, <1>5, <1>6 DEF WatchInv, NothingForgotten

(* The watch has ended.                                                    *)
LEMMA Ending == ASSUME WatchInv, End PROVE WatchInv'
<1>1. /\ FreshWatcher /\ UNCHANGED <<file, saves, captured, read, known>>
      /\ phase' = "off" /\ batch' = NoBatch
      /\ excused' = IF batch.stage = "go" /\ batch.at # Nothing
                    THEN excused \cup {p \in Paths : batch.at = <<p, file[p].version>>} ELSE excused
  BY DEF End, diskVars, storeVars
<1>2. ASSUME NEW q \in Paths PROVE Minded(q)'
  <2>1. Minded(q) /\ Now(q)' = Now(q) /\ (Due(q)' => Due(q)) /\ (Due(q)' => q \notin excused')
    BY <1>1, DueWasDue DEF WatchInv, NothingForgotten, Due
  <2>2. AtIt(q) => q \in excused'
    <3>1. <<q, Now(q)>> # Nothing
      BY DEF Nothing
    <3> QED BY <1>1, <3>1 DEF AtIt, Now
  <2> QED BY <1>1, <2>1, <2>2 DEF Minded
<1>3. BatchIsSound'
  BY <1>1 DEF BatchIsSound, NoBatch
<1> QED BY <1>1, <1>2, <1>3, WatchTurns

(* Every step of people, watcher and capture.                              *)
LEMMA WatchSteps == WatchInv /\ [WatchNext]_watchVars => WatchInv'
<1> SUFFICES ASSUME WatchInv, [WatchNext]_watchVars PROVE WatchInv'
  OBVIOUS
<1>1. CASE UNCHANGED watchVars
  <2>1. /\ UNCHANGED <<file, saves, captured, read, known, phase, excused, handed, queue, batch>>
        /\ UNCHANGED <<events, pending, loose, admitting, done, late>>
    BY <1>1 DEF watchVars, diskVars, storeVars, watcherVars
  <2>2. WatcherIsSound'
    BY <2>1 DEF WatchInv, WatchShape, WatcherIsSound
  <2>3. EndIsEnd'
    BY <2>1 DEF WatchInv, EndIsEnd, Working
  <2>4. \A a \in admitting' : a.print <= saves
    BY <2>1 DEF WatchInv, VersionsAreFresh
  <2>5. \A q \in Paths : OnItsWay(q) => OnItsWay(q)'
    BY <2>1 DEF OnItsWay, Now
  <2> QED BY <2>1, <2>2, <2>3, <2>4, <2>5, WatcherGoesOn
<1> QED BY <1>1, Saving, Deleting, Delivering, LookingAtSize, TimersFire, LooseTimersFire, Settling, Looking,
           Skipping, Capturing, Extracting, Failing, BatchesEnd, BatchesFail, Admitting, PlansFail,
           Starting, StartingToWatch, Stopping, Ending DEF WatchNext

(* Once all is quiet, what was not forgotten is done.                      *)
LEMMA RestIsDone == WatchInv => SettledSavesAreCaptured
<1> SUFFICES ASSUME WatchInv PROVE SettledSavesAreCaptured
  OBVIOUS
<1>1. ASSUME phase = "watching", ~Working, ~Waiting, NEW p \in Paths PROVE ~Due(p)
  <2>1. ~OnItsWay(p)
    BY <1>1 DEF OnItsWay, Working, Waiting
  <2>2. ~UnderWay(p)
    <3>1. batch = NoBatch /\ NoBatch.stage = "none" /\ queue = {}
      BY <1>1 DEF Working, NoBatch
    <3> QED BY <3>1 DEF UnderWay, InBatch, AtIt
  <2> QED BY <1>1, <2>1, <2>2 DEF WatchInv, NothingForgotten, Minded
<1>2. done /\ ~late => ~Working
  BY DEF WatchInv, EndIsEnd
<1> QED BY <1>1, <1>2 DEF SettledSavesAreCaptured, Due

(* For any folder, however saves, deletions, events, timers, looks and     *)
(* captures interleave, and wherever the command dies and is started       *)
(* again: a watch that has come to rest has captured what the files say    *)
(* and read it, but for what the code knowingly lets go.                   *)
THEOREM SavesAreNotMissed == WatchSpec => []SettledSavesAreCaptured
BY WatchBegins, WatchSteps, RestIsDone, PTL DEF WatchSpec

(***************************************************************************)
(* Transfer: a memory that reads a file stays whole.                       *)
(***************************************************************************)
Columns == {"objects", "versions", "relations", "sources", "evidence", "conflicts"}
IsRow(row) == DOMAIN row = {"head", "writing", "heir"} /\ row.head \in Nat

(* The version an object has as its head, as its row says it was written.  *)
Version(o, row) == [object |-> o, version |-> row.head, writing |-> row.writing]

(* Rows of a memory, or of a file, one by one.                             *)
RowsAreRows(t, ids) ==
    /\ DOMAIN t = Columns
    /\ DOMAIN t.objects \subseteq ids
    /\ \A o \in DOMAIN t.objects : IsRow(t.objects[o])
    /\ \A v \in t.versions : v.version \in Nat
    /\ DOMAIN t.relations \subseteq Links

(* What a memory says is about what it has.                                *)
RefersHome(t) ==
    /\ \A v \in t.versions : v.object \in DOMAIN t.objects
    /\ \A q \in DOMAIN t.evidence : t.evidence[q] \in DOMAIN t.objects \cup Links
    /\ \A c \in t.conflicts : c[1] \in DOMAIN t.objects /\ c[2] \in DOMAIN t.objects

HeadIsThere(t, o) == Version(o, t.objects[o]) \in t.versions
HeadIsLast(t, o) == \A v \in t.versions : v.object = o => v.version <= t.objects[o].head

(* Each object is whole, but for those that came in from the middle of a   *)
(* change, and has no version past its head unless a file spoke of it.     *)
HeadsStand(t, broken, spoken) ==
    \A o \in DOMAIN t.objects \ broken : /\ HeadIsThere(t, o)
                                         /\ o \notin spoken => HeadIsLast(t, o)

StoresAreWhole ==
    \A s \in Stores : /\ RowsAreRows(kept[s], made) /\ RefersHome(kept[s])
                      /\ HeadsStand(kept[s], torn[s], met[s])

(* A file that has taken the objects and not yet the versions: its objects *)
(* are still what they were, but for those that changed.                   *)
StillTrue(o) ==
    /\ o \in DOMAIN kept[export.from].objects /\ o \notin torn[export.from]
    /\ kept[export.from].objects[o].head = export.file.objects[o].head
    /\ kept[export.from].objects[o].writing = export.file.objects[o].writing
    /\ o \notin export.met => o \notin met[export.from]
Unchanged == DOMAIN export.file.objects \ export.changed

FileIsWhole ==
    /\ DOMAIN export = {"at", "from", "file", "changed", "met"}
    /\ export.at \in 0..6
    /\ export.at # 0 => export.from \in Stores
    /\ RowsAreRows(export.file, made)
    /\ export.at = 1 => \A o \in Unchanged : StillTrue(o)
    /\ export.at > 1 => HeadsStand(export.file, export.changed, export.met)

TablesAre == /\ DOMAIN kept = Stores /\ DOMAIN torn = Stores /\ DOMAIN met = Stores
             /\ writings \in Nat

TransferInv == TablesAre /\ StoresAreWhole /\ FileIsWhole

(* A version row names its object and its number.                          *)
LEMMA VersionsName ==
  \A o, row : Version(o, row).object = o /\ Version(o, row).version = row.head
BY DEF Version

(* A memory without rows.                                                  *)
LEMMA NothingIsWhole ==
  \A ids, broken, spoken :
     RowsAreRows(EmptyStore, ids) /\ RefersHome(EmptyStore) /\ HeadsStand(EmptyStore, broken, spoken)
<1>1. /\ DOMAIN EmptyStore = Columns /\ DOMAIN EmptyStore.objects = {} /\ EmptyStore.versions = {}
      /\ DOMAIN EmptyStore.relations = {} /\ DOMAIN EmptyStore.evidence = {} /\ EmptyStore.conflicts = {}
  BY DEF EmptyStore, Columns, Empty
<1> QED BY <1>1 DEF RowsAreRows, RefersHome, HeadsStand

(* The memories start without rows and without a file.                     *)
LEMMA TransferBegins == TransferInit => TransferInv
<1> SUFFICES ASSUME TransferInit PROVE TransferInv
  OBVIOUS
<1>1. TablesAre
  BY DEF TransferInit, TablesAre
<1>2. StoresAreWhole
  <2> SUFFICES ASSUME NEW s \in Stores
               PROVE  /\ RowsAreRows(kept[s], made) /\ RefersHome(kept[s])
                      /\ HeadsStand(kept[s], torn[s], met[s])
    BY DEF StoresAreWhole
  <2>1. kept[s] = EmptyStore
    BY DEF TransferInit
  <2> QED BY <2>1, NothingIsWhole
<1>3. FileIsWhole
  <2>1. /\ DOMAIN export = {"at", "from", "file", "changed", "met"}
        /\ export.at = 0 /\ export.file = EmptyStore
    BY DEF TransferInit, NoExport
  <2> QED BY <2>1, NothingIsWhole DEF FileIsWhole
<1> QED BY <1>1, <1>2, <1>3 DEF TransferInv

(* A memory with an object that is new at writing n, and one in which an   *)
(* object is edited at writing n.                                          *)
WithMade(t, o, n) ==
    [t EXCEPT !.objects = Joined(@, [x \in {o} |-> [head |-> 1, writing |-> n, heir |-> NoHeir]]),
              !.versions = @ \cup {[object |-> o, version |-> 1, writing |-> n]}]
WithAmended(t, o, heir, h, n) ==
    [t EXCEPT !.objects[o] = [head |-> h, writing |-> n, heir |-> heir],
              !.versions = @ \cup {[object |-> o, version |-> h, writing |-> n]}]

(* A new object has its first version and nothing is about it yet.         *)
LEMMA MakingIsWhole ==
  ASSUME NEW t, NEW ids, NEW broken, NEW spoken, NEW o, NEW n,
         RowsAreRows(t, ids), RefersHome(t), HeadsStand(t, broken, spoken), o \notin ids,
         NEW u, u = WithMade(t, o, n)
  PROVE  /\ RowsAreRows(u, ids \cup {o}) /\ RefersHome(u) /\ HeadsStand(u, broken, spoken)
         /\ \A x \in DOMAIN t.objects : x \in DOMAIN u.objects /\ u.objects[x] = t.objects[x]
<1>1. PICK row, v : /\ row = [head |-> 1, writing |-> n, heir |-> NoHeir]
                    /\ v = [object |-> o, version |-> 1, writing |-> n]
  OBVIOUS
<1>2. /\ DOMAIN u = Columns
      /\ u.objects = Joined(t.objects, [x \in {o} |-> row]) /\ u.versions = t.versions \cup {v}
      /\ u.relations = t.relations /\ u.evidence = t.evidence /\ u.conflicts = t.conflicts
  BY <1>1 DEF RowsAreRows, Columns, WithMade
<1>3. /\ o \notin DOMAIN t.objects /\ DOMAIN u.objects = DOMAIN t.objects \cup {o}
      /\ u.objects[o] = row /\ \A x \in DOMAIN t.objects : u.objects[x] = t.objects[x]
  BY <1>2 DEF RowsAreRows, Joined
<1>4. IsRow(row) /\ row.head = 1 /\ v.object = o /\ v.version = 1 /\ v = Version(o, row)
  BY <1>1 DEF IsRow, Version
<1>5. RowsAreRows(u, ids \cup {o})
  BY <1>2, <1>3, <1>4 DEF RowsAreRows
<1>6. RefersHome(u)
  BY <1>2, <1>3, <1>4 DEF RefersHome
<1>7. ASSUME NEW x \in DOMAIN u.objects \ broken
      PROVE  HeadIsThere(u, x) /\ (x \notin spoken => HeadIsLast(u, x))
  <2>1. CASE x = o
    <3>1. HeadIsThere(u, x)
      BY <1>2, <1>3, <1>4, <2>1 DEF HeadIsThere
    <3>2. \A w \in u.versions : w.object = o => w.version <= 1
      BY <1>2, <1>3, <1>4 DEF RefersHome
    <3> QED BY <1>3, <1>4, <2>1, <3>1, <3>2 DEF HeadIsLast
  <2>2. CASE x # o
    <3>1. x \in DOMAIN t.objects \ broken /\ u.objects[x] = t.objects[x]
      BY <1>3, <2>2
    <3>2. HeadIsThere(t, x) /\ (x \notin spoken => HeadIsLast(t, x))
      BY <3>1 DEF HeadsStand
    <3>3. HeadIsThere(u, x)
      BY <1>2, <3>1, <3>2 DEF HeadIsThere
    <3>4. HeadIsLast(t, x) => HeadIsLast(u, x)
      BY <1>2, <1>4, <2>2, <3>1 DEF HeadIsLast
    <3> QED BY <3>2, <3>3, <3>4
  <2> QED BY <2>1, <2>2
<1> QED BY <1>3, <1>5, <1>6, <1>7 DEF HeadsStand

(* A memory with an object that is edited, or that is erased.              *)
WholeMemory(t, ids, broken, spoken) ==
    RowsAreRows(t, ids) /\ RefersHome(t) /\ HeadsStand(t, broken, spoken)
SameBut(t, u, o) ==
    \A x \in DOMAIN t.objects \ {o} : /\ x \in DOMAIN u.objects /\ u.objects[x].head = t.objects[x].head
                                       /\ u.objects[x].writing = t.objects[x].writing
IsAmended(t, u, o, heir, n) ==
    o \in DOMAIN t.objects /\ u = WithAmended(t, o, heir, t.objects[o].head + 1, n)
IsPurged(t, u, o) == u = Purged(t, o)

(* An edited object has one version more, the last of all it has.          *)
LEMMA AmendingIsWhole ==
  \A t, u, o, heir, n, ids, broken, spoken :
     WholeMemory(t, ids, broken, spoken) /\ IsAmended(t, u, o, heir, n)
        => WholeMemory(u, ids, broken, spoken) /\ SameBut(t, u, o)
<1> SUFFICES ASSUME NEW t, NEW u, NEW o, NEW heir, NEW n, NEW ids, NEW broken, NEW spoken,
                    WholeMemory(t, ids, broken, spoken), IsAmended(t, u, o, heir, n)
             PROVE  WholeMemory(u, ids, broken, spoken) /\ SameBut(t, u, o)
  OBVIOUS
<1>a. PICK h : h = t.objects[o].head + 1
  OBVIOUS
<1>b. RowsAreRows(t, ids) /\ RefersHome(t) /\ HeadsStand(t, broken, spoken)
  BY DEF WholeMemory
<1>c. o \in DOMAIN t.objects /\ u = WithAmended(t, o, heir, h, n)
  BY <1>a DEF IsAmended
<1>1. PICK row, v : /\ row = [head |-> h, writing |-> n, heir |-> heir]
                    /\ v = [object |-> o, version |-> h, writing |-> n]
  OBVIOUS
<1>2. /\ DOMAIN u = Columns
      /\ u.objects = [t.objects EXCEPT ![o] = row] /\ u.versions = t.versions \cup {v}
      /\ u.relations = t.relations /\ u.evidence = t.evidence /\ u.conflicts = t.conflicts
  BY <1>1, <1>b, <1>c DEF RowsAreRows, Columns, WithAmended
<1>3. /\ DOMAIN u.objects = DOMAIN t.objects
      /\ u.objects[o] = row /\ \A x \in DOMAIN t.objects \ {o} : u.objects[x] = t.objects[x]
  BY <1>2, <1>c
<1>4. /\ h \in Nat /\ t.objects[o].head \in Nat /\ t.objects[o].head <= h
      /\ IsRow(row) /\ row.head = h /\ v.object = o /\ v.version = h /\ v = Version(o, row)
  <2>1. t.objects[o].head \in Nat
    BY <1>b, <1>c DEF RowsAreRows, IsRow
  <2>2. h \in Nat /\ t.objects[o].head <= h
    BY <2>1, <1>a
  <2> QED BY <1>1, <2>1, <2>2 DEF IsRow, Version
<1>5. RowsAreRows(u, ids)
  BY <1>2, <1>3, <1>4, <1>b, <1>c DEF RowsAreRows
<1>6. RefersHome(u)
  BY <1>2, <1>3, <1>4, <1>b, <1>c DEF RefersHome
<1>7. ASSUME NEW x \in DOMAIN u.objects \ broken
      PROVE  HeadIsThere(u, x) /\ (x \notin spoken => HeadIsLast(u, x))
  <2>0. x \in DOMAIN t.objects \ broken /\ HeadIsThere(t, x) /\ (x \notin spoken => HeadIsLast(t, x))
    BY <1>3, <1>b DEF HeadsStand
  <2>1. CASE x = o
    <3>1. HeadIsThere(u, x)
      BY <1>2, <1>3, <1>4, <2>1 DEF HeadIsThere
    <3>2. HeadIsLast(t, x) => \A w \in u.versions : w.object = o => w.version <= h
      <4> SUFFICES ASSUME HeadIsLast(t, x), NEW w \in u.versions, w.object = o PROVE w.version <= h
        OBVIOUS
      <4>1. CASE w = v
        BY <1>4, <4>1
      <4>2. CASE w # v
        <5>1. w \in t.versions /\ w.version \in Nat /\ w.version <= t.objects[o].head
          BY <1>2, <1>b, <2>1, <4>2 DEF HeadIsLast, RowsAreRows
        <5> QED BY <1>4, <5>1
      <4> QED BY <4>1, <4>2
    <3> QED BY <1>3, <1>4, <2>0, <2>1, <3>1, <3>2 DEF HeadIsLast
  <2>2. CASE x # o
    <3>1. u.objects[x] = t.objects[x]
      BY <1>3, <2>0, <2>2
    <3>2. HeadIsThere(u, x)
      BY <1>2, <2>0, <3>1 DEF HeadIsThere
    <3>3. HeadIsLast(t, x) => HeadIsLast(u, x)
      BY <1>2, <1>4, <2>2, <3>1 DEF HeadIsLast
    <3> QED BY <2>0, <3>2, <3>3
  <2> QED BY <2>1, <2>2
<1>8. HeadsStand(u, broken, spoken)
  BY <1>7 DEF HeadsStand
<1> QED BY <1>3, <1>5, <1>6, <1>8 DEF WholeMemory, SameBut

(* Edges, evidence and conflicts are no part of an object.                 *)
LEMMA ObjectsAreLeftAlone ==
  ASSUME NEW t, NEW ids, NEW ids2, NEW broken, NEW spoken, NEW u,
         RowsAreRows(t, ids), HeadsStand(t, broken, spoken), ids \subseteq ids2,
         DOMAIN u = Columns, u.objects = t.objects, u.versions = t.versions,
         DOMAIN u.relations \subseteq Links
  PROVE  RowsAreRows(u, ids2) /\ HeadsStand(u, broken, spoken)
<1>1. RowsAreRows(u, ids2)
  BY DEF RowsAreRows
<1>2. HeadsStand(u, broken, spoken)
  BY DEF HeadsStand, HeadIsThere, HeadIsLast
<1> QED BY <1>1, <1>2

(* An erased object takes along what is about it.                          *)
LEMMA PurgingIsWhole ==
  \A t, u, o, ids, broken, spoken :
     WholeMemory(t, ids, broken, spoken) /\ IsPurged(t, u, o)
        => WholeMemory(u, ids, broken \ {o}, spoken \ {o}) /\ SameBut(t, u, o)
<1> SUFFICES ASSUME NEW t, NEW u, NEW o, NEW ids, NEW broken, NEW spoken,
                    WholeMemory(t, ids, broken, spoken), IsPurged(t, u, o)
             PROVE  WholeMemory(u, ids, broken \ {o}, spoken \ {o}) /\ SameBut(t, u, o)
  OBVIOUS
<1>a. RowsAreRows(t, ids) /\ RefersHome(t) /\ HeadsStand(t, broken, spoken) /\ u = Purged(t, o)
  BY DEF WholeMemory, IsPurged
<1>1. /\ DOMAIN u = Columns
      /\ DOMAIN u.objects = DOMAIN t.objects \ {o}
      /\ u.versions = {v \in t.versions : v.object # o}
      /\ DOMAIN u.relations \subseteq DOMAIN t.relations
      /\ \A q \in DOMAIN u.evidence : q \in DOMAIN t.evidence /\ t.evidence[q] # o /\ u.evidence[q] = t.evidence[q]
      /\ u.conflicts = {c \in t.conflicts : o \notin {c[1], c[2]}}
  BY <1>a DEF Purged, Only, Columns
<1>2. ASSUME NEW x \in DOMAIN t.objects \ {o}
      PROVE  IsRow(u.objects[x]) /\ u.objects[x].head = t.objects[x].head /\ u.objects[x].writing = t.objects[x].writing
  <2>1. PICK row, heir : row = t.objects[x] /\ heir = IF row.heir = o THEN NoHeir ELSE row.heir
    OBVIOUS
  <2>2. u.objects[x] = [row EXCEPT !.heir = heir]
    BY <2>1, <1>a DEF Purged
  <2>3. IsRow(row)
    BY <2>1, <1>a DEF RowsAreRows
  <2> QED BY <2>1, <2>2, <2>3 DEF IsRow
<1>3. RowsAreRows(u, ids)
  BY <1>1, <1>2, <1>a DEF RowsAreRows
<1>4. RefersHome(u)
  BY <1>1, <1>a DEF RefersHome
<1>5. ASSUME NEW x \in DOMAIN u.objects \ (broken \ {o})
      PROVE  HeadIsThere(u, x) /\ (x \notin spoken \ {o} => HeadIsLast(u, x))
  <2>1. x \in DOMAIN t.objects \ broken /\ x # o
    BY <1>1
  <2>2. HeadIsThere(t, x) /\ (x \notin spoken => HeadIsLast(t, x))
    BY <2>1, <1>a DEF HeadsStand
  <2>3. Version(x, u.objects[x]) = Version(x, t.objects[x])
    BY <1>2, <2>1 DEF Version
  <2>4. HeadIsThere(u, x)
    BY <1>1, <2>1, <2>2, <2>3, VersionsName DEF HeadIsThere
  <2>5. HeadIsLast(t, x) => HeadIsLast(u, x)
    BY <1>1, <1>2, <2>1 DEF HeadIsLast
  <2> QED BY <2>1, <2>2, <2>4, <2>5
<1>6. HeadsStand(u, broken \ {o}, spoken \ {o})
  BY <1>5 DEF HeadsStand
<1> QED BY <1>1, <1>2, <1>3, <1>4, <1>6 DEF WholeMemory, SameBut

(* A file, and a memory that has read it.  What came in from the middle of *)
(* a change is broken, and what was here already is spoken of.             *)
WholeFile(pack, ids, changed, said) == RowsAreRows(pack, ids) /\ HeadsStand(pack, changed, said)
IsImported(t, u, pack) == u = Imported(t, pack)
StillBroken(t, broken, changed) == broken \cup {o \in changed : o \notin DOMAIN t.objects}
NowSpoken(t, spoken, pack, said) == spoken \cup {o \in Known(pack) : o \in DOMAIN t.objects} \cup said

(* What an import adds is whole as the file is, for the objects it brings; *)
(* of those that were here it may add versions.                            *)
LEMMA ImportingIsWhole ==
  \A t, u, ids, broken, spoken, pack, changed, said :
     WholeMemory(t, ids, broken, spoken) /\ WholeFile(pack, ids, changed, said) /\ IsImported(t, u, pack)
        => WholeMemory(u, ids, StillBroken(t, broken, changed), NowSpoken(t, spoken, pack, said))
<1> SUFFICES ASSUME NEW t, NEW u, NEW ids, NEW broken, NEW spoken, NEW pack, NEW changed, NEW said,
                    WholeMemory(t, ids, broken, spoken), WholeFile(pack, ids, changed, said),
                    IsImported(t, u, pack)
             PROVE  WholeMemory(u, ids, StillBroken(t, broken, changed), NowSpoken(t, spoken, pack, said))
  OBVIOUS
<1>a. RowsAreRows(t, ids) /\ RefersHome(t) /\ HeadsStand(t, broken, spoken)
  BY DEF WholeMemory
<1>b. RowsAreRows(pack, ids) /\ HeadsStand(pack, changed, said) /\ u = Imported(t, pack)
  BY DEF WholeFile, IsImported
<1> DEFINE Torn == StillBroken(t, broken, changed)
           Met == NowSpoken(t, spoken, pack, said)
           Brought == {v \in pack.versions : v.object \in Known(pack) /\
                         \A w \in t.versions : w.object # v.object \/ w.version # v.version}
<1>1. /\ DOMAIN u = Columns
      /\ u.objects = ImportedObjects(t, pack)
      /\ u.versions = t.versions \cup Brought
      /\ u.relations = Joined(t.relations, Only(pack.relations, KnownRelations(t, pack)))
      /\ u.evidence = Joined(t.evidence, Only(pack.evidence, KnownEvidence(t, pack)))
      /\ u.conflicts = t.conflicts \cup {c \in pack.conflicts : {c[1], c[2]} \subseteq Known(pack)}
  BY <1>b DEF Imported, ImportedVersions, Columns
<1>2. DOMAIN u.objects = DOMAIN t.objects \cup Known(pack)
  BY <1>1 DEF ImportedObjects, Joined, Known
<1>3. ASSUME NEW x \in DOMAIN u.objects
      PROVE  \A row : row = (IF x \in DOMAIN t.objects THEN t.objects[x] ELSE pack.objects[x]) =>
                 IsRow(u.objects[x]) /\ u.objects[x].head = row.head /\ u.objects[x].writing = row.writing
  <2>1. PICK row, all : /\ row = (IF x \in DOMAIN t.objects THEN t.objects[x] ELSE pack.objects[x])
                        /\ all = IF x \in DOMAIN t.objects THEN row ELSE [row EXCEPT !.heir = NoHeir]
    OBVIOUS
  <2>2. IsRow(row)
    BY <1>2, <2>1, <1>a, <1>b DEF RowsAreRows, Known
  <2>3. IsRow(all) /\ all.head = row.head /\ all.writing = row.writing
    BY <2>1, <2>2 DEF IsRow
  <2>4. \/ u.objects[x] = all
        \/ \E heir : u.objects[x] = [all EXCEPT !.heir = heir]
    <3>1. x \in DOMAIN t.objects \cup Known(pack)
      BY <1>2
    <3>2. PICK J : J = Joined(t.objects, [o \in Known(pack) |-> [pack.objects[o] EXCEPT !.heir = NoHeir]])
      OBVIOUS
    <3>3. x \in DOMAIN J /\ J[x] = all
      BY <2>1, <3>1, <3>2 DEF Joined
    <3>4. u.objects = [o \in DOMAIN J |-> IF o \in Known(pack) /\ pack.objects[o].heir \in Known(pack)
                                         THEN [J[o] EXCEPT !.heir = pack.objects[o].heir] ELSE J[o]]
      BY <1>1, <3>2 DEF ImportedObjects
    <3>5. u.objects[x] = IF x \in Known(pack) /\ pack.objects[x].heir \in Known(pack)
                         THEN [all EXCEPT !.heir = pack.objects[x].heir] ELSE all
      BY <3>3, <3>4
    <3> QED BY <3>5
  <2>5. IsRow(u.objects[x]) /\ u.objects[x].head = row.head /\ u.objects[x].writing = row.writing
    BY <2>3, <2>4 DEF IsRow
  <2> QED BY <2>1, <2>5
<1>4. KnownRelations(t, pack) \subseteq Links
  BY <1>b DEF KnownRelations, RowsAreRows
<1>5. RowsAreRows(u, ids)
  <2>1. DOMAIN u.relations \subseteq Links
    BY <1>1, <1>4, <1>a DEF Joined, Only, RowsAreRows
  <2>2. \A v \in u.versions : v.version \in Nat
    BY <1>1, <1>a, <1>b DEF RowsAreRows
  <2>3. DOMAIN u.objects \subseteq ids /\ \A x \in DOMAIN u.objects : IsRow(u.objects[x])
    BY <1>2, <1>3, <1>a, <1>b DEF RowsAreRows, Known
  <2> QED BY <1>1, <2>1, <2>2, <2>3 DEF RowsAreRows
<1>6. RefersHome(u)
  <2>1. \A v \in u.versions : v.object \in DOMAIN u.objects
    BY <1>1, <1>2, <1>a DEF RefersHome
  <2>2. ASSUME NEW q \in DOMAIN u.evidence PROVE u.evidence[q] \in DOMAIN u.objects \cup Links
    <3>1. CASE q \in DOMAIN t.evidence
      BY <1>1, <1>2, <1>a, <3>1 DEF Joined, RefersHome
    <3>2. CASE q \notin DOMAIN t.evidence
      <4>1. q \in KnownEvidence(t, pack) /\ u.evidence[q] = pack.evidence[q]
        BY <1>1, <3>2 DEF Joined, Only
      <4> QED BY <1>2, <1>4, <4>1 DEF KnownEvidence
    <3> QED BY <3>1, <3>2
  <2>3. \A c \in u.conflicts : c[1] \in DOMAIN u.objects /\ c[2] \in DOMAIN u.objects
    BY <1>1, <1>2, <1>a DEF RefersHome
  <2> QED BY <2>1, <2>2, <2>3 DEF RefersHome
<1>7. ASSUME NEW x \in DOMAIN u.objects \ Torn
      PROVE  HeadIsThere(u, x) /\ (x \notin Met => HeadIsLast(u, x))
  <2>1. CASE x \in DOMAIN t.objects
    <3>1. x \notin broken /\ (x \notin Met => x \notin spoken /\ x \notin Known(pack))
      BY <2>1 DEF StillBroken, NowSpoken
    <3>2. HeadIsThere(t, x) /\ (x \notin spoken => HeadIsLast(t, x))
      BY <1>a, <2>1, <3>1 DEF HeadsStand
    <3>3. u.objects[x].head = t.objects[x].head /\ u.objects[x].writing = t.objects[x].writing
      BY <1>3, <2>1
    <3>4. HeadIsThere(u, x)
      BY <1>1, <3>2, <3>3 DEF HeadIsThere, Version
    <3>5. x \notin Known(pack) /\ HeadIsLast(t, x) => HeadIsLast(u, x)
      BY <1>1, <3>3 DEF HeadIsLast
    <3> HIDE DEF Torn, Met
    <3> QED BY <3>1, <3>2, <3>4, <3>5
  <2>2. CASE x \notin DOMAIN t.objects
    <3>1. x \in Known(pack) \ changed /\ (x \notin Met => x \notin said)
      BY <1>2, <2>2 DEF StillBroken, NowSpoken
    <3>2. HeadIsThere(pack, x) /\ (x \notin said => HeadIsLast(pack, x))
      BY <1>b, <3>1 DEF HeadsStand, Known
    <3>3. u.objects[x].head = pack.objects[x].head /\ u.objects[x].writing = pack.objects[x].writing
      BY <1>3, <2>2
    <3>4. \A w \in t.versions : w.object # x
      BY <1>a, <2>2 DEF RefersHome
    <3>5. HeadIsThere(u, x)
      <4>1. PICK v : v = Version(x, pack.objects[x]) /\ v \in pack.versions /\ v.object = x
        BY <3>2, VersionsName DEF HeadIsThere
      <4>2. v \in u.versions
        BY <1>1, <3>1, <3>4, <4>1
      <4>3. Version(x, u.objects[x]) = v
        BY <3>3, <4>1 DEF Version
      <4> QED BY <4>2, <4>3 DEF HeadIsThere
    <3>6. HeadIsLast(pack, x) => HeadIsLast(u, x)
      BY <1>1, <3>3, <3>4 DEF HeadIsLast
    <3> HIDE DEF Torn, Met
    <3> QED BY <3>1, <3>2, <3>5, <3>6
  <2> QED BY <2>1, <2>2
<1>8. HeadsStand(u, Torn, Met)
  BY <1>7 DEF HeadsStand
<1> QED BY <1>5, <1>6, <1>8 DEF WholeMemory

(* An id more is no harm.                                                  *)
LEMMA MoreIds ==
  ASSUME NEW t, NEW ids, NEW ids2, ids \subseteq ids2, RowsAreRows(t, ids)
  PROVE  RowsAreRows(t, ids2)
BY DEF RowsAreRows

(* One memory changes and stays whole, the others are left alone.          *)
LEMMA StoreChanges ==
  ASSUME TransferInv, NEW s \in Stores, NEW u, kept' = [kept EXCEPT ![s] = u],
         made \subseteq made', writings' \in Nat,
         RowsAreRows(u, made'), RefersHome(u), HeadsStand(u, torn'[s], met'[s]),
         DOMAIN torn' = Stores, DOMAIN met' = Stores,
         \A x \in Stores \ {s} : torn'[x] = torn[x] /\ met'[x] = met[x]
  PROVE  TablesAre' /\ StoresAreWhole'
<1>1. TablesAre'
  BY DEF TransferInv, TablesAre
<1>2. kept'[s] = u /\ \A x \in Stores \ {s} : kept'[x] = kept[x]
  BY DEF TransferInv, TablesAre
<1>3. ASSUME NEW x \in Stores
      PROVE  /\ RowsAreRows(kept'[x], made') /\ RefersHome(kept'[x])
             /\ HeadsStand(kept'[x], torn'[x], met'[x])
  <2>1. CASE x = s
    BY <1>2, <2>1
  <2>2. CASE x # s
    BY <1>2, <2>2, MoreIds DEF TransferInv, StoresAreWhole
  <2> QED BY <2>1, <2>2
<1> QED BY <1>1, <1>3 DEF StoresAreWhole

(* A file under way stays whole when people write into a memory: what they *)
(* change of an object it has taken is marked.                             *)
LEMMA FileStays ==
  ASSUME TransferInv, NEW s \in Stores, NEW u, kept' = [kept EXCEPT ![s] = u], made \subseteq made',
         DOMAIN export' = DOMAIN export, export'.at = export.at, export'.from = export.from,
         export'.file = export.file, export'.met = export.met, export.changed \subseteq export'.changed,
         \A o \in DOMAIN kept[s].objects :
            \/ /\ o \in DOMAIN u.objects /\ u.objects[o].head = kept[s].objects[o].head
               /\ u.objects[o].writing = kept[s].objects[o].writing
            \/ export.at = 1 /\ export.from = s => o \in export'.changed,
         \A x \in Stores : torn'[x] \subseteq torn[x] /\ met'[x] \subseteq met[x]
  PROVE  FileIsWhole'
<1>1. DOMAIN export' = {"at", "from", "file", "changed", "met"}
  BY DEF TransferInv, FileIsWhole
<1>2. RowsAreRows(export'.file, made')
  BY MoreIds DEF TransferInv, FileIsWhole
<1>3. ASSUME export.at = 1, NEW o \in DOMAIN export.file.objects \ export'.changed
      PROVE  StillTrue(o)'
  <2>1. PICK f : f = export.from /\ f \in Stores
    BY <1>3 DEF TransferInv, FileIsWhole
  <2>2. StillTrue(o)
    BY <1>3 DEF TransferInv, FileIsWhole, Unchanged
  <2>3. /\ o \in DOMAIN kept'[f].objects
        /\ kept'[f].objects[o].head = kept[f].objects[o].head
        /\ kept'[f].objects[o].writing = kept[f].objects[o].writing
    <3>1. CASE f = s
      <4>1. kept'[f] = u
        BY <3>1 DEF TransferInv, TablesAre
      <4>2. o \in DOMAIN kept[s].objects
        BY <2>1, <2>2, <3>1 DEF StillTrue
      <4> QED BY <1>3, <2>1, <3>1, <4>1, <4>2
    <3>2. CASE f # s
      <4>1. kept'[f] = kept[f]
        BY <2>1, <3>2 DEF TransferInv, TablesAre
      <4> QED BY <2>1, <2>2, <4>1 DEF StillTrue
    <3> QED BY <3>1, <3>2
  <2>4. torn'[f] \subseteq torn[f] /\ met'[f] \subseteq met[f]
    BY <2>1
  <2> QED BY <2>1, <2>2, <2>3, <2>4 DEF StillTrue
<1>4. export.at > 1 => HeadsStand(export.file, export'.changed, export.met)
  BY DEF TransferInv, FileIsWhole, HeadsStand
<1> QED BY <1>1, <1>2, <1>3, <1>4 DEF TransferInv, FileIsWhole, Unchanged

(* The memory s before a step.                                             *)
LEMMA StoreIsWhole ==
  ASSUME TransferInv, NEW s \in Stores
  PROVE  /\ RowsAreRows(kept[s], made) /\ RefersHome(kept[s]) /\ HeadsStand(kept[s], torn[s], met[s])
         /\ DOMAIN kept[s] = Columns /\ DOMAIN torn = Stores /\ DOMAIN met = Stores /\ writings \in Nat
BY DEF TransferInv, StoresAreWhole, TablesAre, RowsAreRows

(* People make an object.                                                  *)
LEMMA MakeKeeps == ASSUME TransferInv, NEW s \in Stores, NEW o \in Things, Make(s, o) PROVE TransferInv'
<1>1. PICK t, n, u : t = kept[s] /\ n = writings + 1 /\ u = WithMade(t, o, n)
  OBVIOUS
<1>2. /\ kept' = [kept EXCEPT ![s] = u] /\ made' = made \cup {o} /\ o \notin made /\ writings' = n
      /\ export' = export /\ met' = met /\ torn' = torn
  BY <1>1 DEF Make, Written, WithMade
<1>3. /\ RowsAreRows(t, made) /\ RefersHome(t) /\ HeadsStand(t, torn[s], met[s])
      /\ DOMAIN torn = Stores /\ DOMAIN met = Stores /\ n \in Nat
  BY <1>1, StoreIsWhole
<1>4. /\ RowsAreRows(u, made \cup {o}) /\ RefersHome(u) /\ HeadsStand(u, torn[s], met[s])
      /\ \A x \in DOMAIN t.objects : x \in DOMAIN u.objects /\ u.objects[x] = t.objects[x]
  <2>1. PICK ids, broken, spoken : ids = made /\ broken = torn[s] /\ spoken = met[s]
    OBVIOUS
  <2>2. RowsAreRows(t, ids) /\ RefersHome(t) /\ HeadsStand(t, broken, spoken) /\ o \notin ids
    BY <1>2, <1>3, <2>1
  <2>3. u = WithMade(t, o, n)
    BY <1>1
  <2>4. /\ RowsAreRows(u, ids \cup {o}) /\ RefersHome(u) /\ HeadsStand(u, broken, spoken)
        /\ \A x \in DOMAIN t.objects : x \in DOMAIN u.objects /\ u.objects[x] = t.objects[x]
    BY <2>2, <2>3, MakingIsWhole
  <2> QED BY <2>1, <2>4
<1>5. TablesAre' /\ StoresAreWhole'
  BY <1>2, <1>3, <1>4, StoreChanges
<1>6. FileIsWhole'
  <2>1. \A x \in DOMAIN kept[s].objects :
            \/ /\ x \in DOMAIN u.objects /\ u.objects[x].head = kept[s].objects[x].head
               /\ u.objects[x].writing = kept[s].objects[x].writing
            \/ export.at = 1 /\ export.from = s => x \in export'.changed
    BY <1>1, <1>4
  <2>2. \A x \in Stores : torn'[x] \subseteq torn[x] /\ met'[x] \subseteq met[x]
    BY <1>2
  <2> QED BY <1>2, <2>1, <2>2, FileStays
<1> QED BY <1>5, <1>6 DEF TransferInv

(* What is changed of an object is marked while a file is under way.       *)
LEMMA ChangesAreMarked ==
  ASSUME TransferInv, NEW s, NEW o, Changes(s, o)
  PROVE  /\ DOMAIN export' = DOMAIN export /\ export'.at = export.at /\ export'.from = export.from
         /\ export'.file = export.file /\ export'.met = export.met
         /\ export.changed \subseteq export'.changed
         /\ export.at = 1 /\ export.from = s => o \in export'.changed
BY DEF TransferInv, FileIsWhole, Changes

(* People edit or replace one.                                             *)
LEMMA AmendKeeps ==
  ASSUME TransferInv, NEW s \in Stores, NEW o \in Things, NEW heir, Amend(s, o, heir)
  PROVE  TransferInv'
<1>1. PICK t, n, h, next, u :
        /\ t = kept[s] /\ n = writings + 1 /\ h = t.objects[o].head + 1
        /\ next = IF heir = NoHeir THEN t.objects[o].heir ELSE heir
        /\ u = WithAmended(t, o, next, h, n)
  OBVIOUS
<1>2. /\ kept' = [kept EXCEPT ![s] = u] /\ made' = made /\ writings' = n
      /\ met' = met /\ torn' = torn /\ o \in DOMAIN t.objects /\ Changes(s, o)
  <2>1. u = [kept[s] EXCEPT
           !.objects[o] = [head |-> h, writing |-> n,
                           heir |-> IF heir = NoHeir THEN @.heir ELSE heir],
           !.versions = @ \cup {[object |-> o, version |-> h, writing |-> n]}]
    BY <1>1 DEF WithAmended
  <2> QED BY <1>1, <2>1 DEF Amend, Written, Here
<1>3. /\ RowsAreRows(t, made) /\ RefersHome(t) /\ HeadsStand(t, torn[s], met[s])
      /\ DOMAIN torn = Stores /\ DOMAIN met = Stores /\ n \in Nat
  BY <1>1, StoreIsWhole
<1>4. /\ RowsAreRows(u, made) /\ RefersHome(u) /\ HeadsStand(u, torn[s], met[s])
      /\ SameBut(t, u, o)
  <2>1. WholeMemory(t, made, torn[s], met[s])
    BY <1>3 DEF WholeMemory
  <2>2. IsAmended(t, u, o, next, n)
    BY <1>1, <1>2 DEF IsAmended
  <2>3. WholeMemory(u, made, torn[s], met[s]) /\ SameBut(t, u, o)
    BY <2>1, <2>2, AmendingIsWhole
  <2> QED BY <2>3 DEF WholeMemory
<1>5. TablesAre' /\ StoresAreWhole'
  BY <1>2, <1>3, <1>4, StoreChanges
<1>6. FileIsWhole'
  <2>1. \A x \in DOMAIN kept[s].objects :
            \/ /\ x \in DOMAIN u.objects /\ u.objects[x].head = kept[s].objects[x].head
               /\ u.objects[x].writing = kept[s].objects[x].writing
            \/ export.at = 1 /\ export.from = s => x \in export'.changed
    BY <1>1, <1>2, <1>4, ChangesAreMarked DEF SameBut
  <2>2. \A x \in Stores : torn'[x] \subseteq torn[x] /\ met'[x] \subseteq met[x]
    BY <1>2
  <2>3. /\ DOMAIN export' = DOMAIN export /\ export'.at = export.at /\ export'.from = export.from
        /\ export'.file = export.file /\ export'.met = export.met
        /\ export.changed \subseteq export'.changed
    BY <1>2, ChangesAreMarked
  <2> QED BY <1>2, <2>1, <2>2, <2>3, FileStays
<1> QED BY <1>5, <1>6 DEF TransferInv

(* People connect, cite or dispute what is there.                          *)
LEMMA RowsKeep ==
  ASSUME TransferInv, NEW s \in Stores, NEW u, NEW ids,
         kept' = [kept EXCEPT ![s] = u], made' = made \cup ids, writings' = writings + 1,
         export' = export, met' = met, torn' = torn,
         DOMAIN u = Columns, u.objects = kept[s].objects, u.versions = kept[s].versions,
         DOMAIN u.relations \subseteq Links, RefersHome(u)
  PROVE  TransferInv'
<1>1. PICK t : t = kept[s]
  OBVIOUS
<1>2. /\ RowsAreRows(t, made) /\ HeadsStand(t, torn[s], met[s])
      /\ DOMAIN torn = Stores /\ DOMAIN met = Stores /\ writings' \in Nat
  BY <1>1, StoreIsWhole
<1>3. u.objects = t.objects /\ u.versions = t.versions /\ made \subseteq made'
  BY <1>1
<1>4. RowsAreRows(u, made') /\ HeadsStand(u, torn[s], met[s])
  BY <1>2, <1>3, ObjectsAreLeftAlone
<1>5. TablesAre' /\ StoresAreWhole'
  BY <1>2, <1>4, StoreChanges
<1>6. FileIsWhole'
  BY FileStays
<1> QED BY <1>5, <1>6 DEF TransferInv

(* They connect two objects.                                               *)
LEMMA ConnectKeeps ==
  ASSUME TransferInv, NEW s \in Stores, NEW r \in Links, NEW src, NEW dst, Connect(s, r, src, dst)
  PROVE  TransferInv'
<1>1. PICK rels, u : /\ rels = Joined(kept[s].relations, [x \in {r} |-> [src |-> src, dst |-> dst]])
                     /\ u = [kept[s] EXCEPT !.relations = rels]
  OBVIOUS
<1>2. /\ kept' = [kept EXCEPT ![s] = u] /\ made' = made \cup {r} /\ writings' = writings + 1
      /\ export' = export /\ met' = met /\ torn' = torn
  BY <1>1 DEF Connect, Written
<1>3. DOMAIN rels \subseteq Links
  BY <1>1, StoreIsWhole DEF Joined, RowsAreRows
<1>4. /\ DOMAIN u = Columns /\ u.relations = rels
      /\ u.objects = kept[s].objects /\ u.versions = kept[s].versions
      /\ u.evidence = kept[s].evidence /\ u.conflicts = kept[s].conflicts
  BY <1>1, StoreIsWhole DEF Columns
<1>5. RefersHome(u)
  BY <1>4, StoreIsWhole DEF RefersHome
<1> QED BY <1>2, <1>3, <1>4, <1>5, RowsKeep

(* They cite evidence for an object or an edge.                            *)
LEMMA CiteKeeps ==
  ASSUME TransferInv, NEW s \in Stores, NEW q, NEW target, Cite(s, q, target)
  PROVE  TransferInv'
<1>1. PICK quotes, cited, u : /\ cited = kept[s].sources \cup {q}
                             /\ quotes = Joined(kept[s].evidence, [x \in {q} |-> target])
                             /\ u = [kept[s] EXCEPT !.sources = cited, !.evidence = quotes]
  OBVIOUS
<1>2. /\ kept' = [kept EXCEPT ![s] = u] /\ made' = made \cup {q} /\ writings' = writings + 1
      /\ export' = export /\ met' = met /\ torn' = torn
  BY <1>1 DEF Cite, Written
<1>3. target \in DOMAIN kept[s].objects \cup Links
  BY StoreIsWhole DEF Cite, Here, RowsAreRows
<1>4. /\ DOMAIN u = Columns /\ u.relations = kept[s].relations
      /\ u.objects = kept[s].objects /\ u.versions = kept[s].versions
      /\ u.evidence = quotes /\ u.conflicts = kept[s].conflicts
  BY <1>1, StoreIsWhole DEF Columns
<1>5. \A x \in DOMAIN quotes : quotes[x] = target \/ (x \in DOMAIN kept[s].evidence /\ quotes[x] = kept[s].evidence[x])
  BY <1>1 DEF Joined
<1>6. RefersHome(u)
  BY <1>3, <1>4, <1>5, StoreIsWhole DEF RefersHome
<1>7. DOMAIN u.relations \subseteq Links
  BY <1>4, StoreIsWhole DEF RowsAreRows
<1> QED BY <1>2, <1>4, <1>6, <1>7, RowsKeep

(* They record that two objects disagree.                                  *)
LEMMA DisagreeKeeps ==
  ASSUME TransferInv, NEW s \in Stores, NEW a, NEW b, Disagree(s, a, b)
  PROVE  TransferInv'
<1>1. PICK all, u : /\ all = kept[s].conflicts \cup {<<a, b>>}
                    /\ u = [kept[s] EXCEPT !.conflicts = all]
  OBVIOUS
<1>2. /\ kept' = [kept EXCEPT ![s] = u] /\ made' = made \cup {} /\ writings' = writings + 1
      /\ export' = export /\ met' = met /\ torn' = torn
  BY <1>1 DEF Disagree, Written
<1>3. /\ DOMAIN u = Columns /\ u.relations = kept[s].relations
      /\ u.objects = kept[s].objects /\ u.versions = kept[s].versions
      /\ u.evidence = kept[s].evidence /\ u.conflicts = all
  BY <1>1, StoreIsWhole DEF Columns
<1>4. \A c \in all : c[1] \in DOMAIN kept[s].objects /\ c[2] \in DOMAIN kept[s].objects
  BY <1>1, StoreIsWhole DEF Disagree, Here, RefersHome
<1>5. RefersHome(u)
  BY <1>3, <1>4, StoreIsWhole DEF RefersHome
<1>6. DOMAIN u.relations \subseteq Links
  BY <1>3, StoreIsWhole DEF RowsAreRows
<1> QED BY <1>2, <1>3, <1>5, <1>6, RowsKeep

(* People erase an object.                                                 *)
LEMMA EraseKeeps ==
  ASSUME TransferInv, NEW s \in Stores, NEW o \in Things, EraseThing(s, o)
  PROVE  TransferInv'
<1>1. PICK t, u : t = kept[s] /\ u = Purged(t, o)
  OBVIOUS
<1>2. /\ kept' = [kept EXCEPT ![s] = u] /\ made' = made /\ writings' = writings + 1 /\ Changes(s, o)
      /\ met' = [met EXCEPT ![s] = met[s] \ {o}] /\ torn' = [torn EXCEPT ![s] = torn[s] \ {o}]
  BY <1>1 DEF EraseThing, Written
<1>3. /\ RowsAreRows(t, made) /\ RefersHome(t) /\ HeadsStand(t, torn[s], met[s])
      /\ DOMAIN torn = Stores /\ DOMAIN met = Stores /\ writings \in Nat
  BY <1>1, StoreIsWhole
<1>4. /\ RowsAreRows(u, made) /\ RefersHome(u) /\ HeadsStand(u, torn[s] \ {o}, met[s] \ {o})
      /\ SameBut(t, u, o)
  <2>1. WholeMemory(t, made, torn[s], met[s])
    BY <1>3 DEF WholeMemory
  <2>2. IsPurged(t, u, o)
    BY <1>1 DEF IsPurged
  <2>3. WholeMemory(u, made, torn[s] \ {o}, met[s] \ {o}) /\ SameBut(t, u, o)
    BY <2>1, <2>2, PurgingIsWhole
  <2> QED BY <2>3 DEF WholeMemory
<1>5. /\ DOMAIN torn' = Stores /\ DOMAIN met' = Stores /\ writings' \in Nat
      /\ torn'[s] = torn[s] \ {o} /\ met'[s] = met[s] \ {o}
      /\ \A x \in Stores \ {s} : torn'[x] = torn[x] /\ met'[x] = met[x]
  BY <1>2, <1>3
<1>6. TablesAre' /\ StoresAreWhole'
  BY <1>2, <1>4, <1>5, StoreChanges
<1>7. \A x \in Stores : torn'[x] \subseteq torn[x] /\ met'[x] \subseteq met[x]
  BY <1>5
<1>8. FileIsWhole'
  <2>1. \A x \in DOMAIN kept[s].objects :
            \/ /\ x \in DOMAIN u.objects /\ u.objects[x].head = kept[s].objects[x].head
               /\ u.objects[x].writing = kept[s].objects[x].writing
            \/ export.at = 1 /\ export.from = s => x \in export'.changed
    BY <1>1, <1>2, <1>4, ChangesAreMarked DEF SameBut
  <2>2. /\ DOMAIN export' = DOMAIN export /\ export'.at = export.at /\ export'.from = export.from
        /\ export'.file = export.file /\ export'.met = export.met
        /\ export.changed \subseteq export'.changed
    BY <1>2, ChangesAreMarked
  <2> QED BY <1>2, <1>7, <2>1, <2>2, FileStays
<1> QED BY <1>6, <1>8 DEF TransferInv

(* While a file is written the memories are left alone.                    *)
LEMMA ExportingLeavesStores ==
  ASSUME TransferInv, UNCHANGED <<kept, writings, made, met, torn>>
  PROVE  TablesAre' /\ StoresAreWhole'
BY DEF TransferInv, TablesAre, StoresAreWhole

(* An export takes the objects first.                                      *)
LEMMA BeginExportKeeps ==
  ASSUME TransferInv, NEW s \in Stores, BeginExport(s) PROVE TransferInv'
<1>1. PICK pack : pack = [EmptyStore EXCEPT !.objects = kept[s].objects]
  OBVIOUS
<1>2. /\ DOMAIN export' = {"at", "from", "file", "changed", "met"}
      /\ export'.at = 1 /\ export'.from = s /\ export'.file = pack
      /\ export'.changed = torn[s] /\ export'.met = met[s]
  BY <1>1 DEF BeginExport, NoExport
<1>3. kept' = kept /\ made' = made /\ torn' = torn /\ met' = met
  BY DEF BeginExport
<1>4. /\ DOMAIN pack = Columns /\ pack.objects = kept[s].objects /\ pack.versions = {}
      /\ DOMAIN pack.relations = {}
  BY <1>1 DEF EmptyStore, Empty, Columns
<1>5. RowsAreRows(pack, made)
  BY <1>4, StoreIsWhole DEF RowsAreRows
<1>6. \A o \in Unchanged' : StillTrue(o)'
  BY <1>2, <1>3, <1>4 DEF Unchanged, StillTrue
<1>7. FileIsWhole'
  BY <1>2, <1>3, <1>5, <1>6 DEF FileIsWhole
<1> QED BY <1>7, ExportingLeavesStores DEF BeginExport, TransferInv

(* Then the versions, which go with the objects that did not change since, *)
(* and then what is about them.                                            *)
LEMMA ExportNextKeeps == ASSUME TransferInv, ExportNext PROVE TransferInv'
<1>1. PICK s, t, f, n, table, pack :
        /\ s = export.from /\ t = kept[s] /\ f = export.file /\ n = export.at + 1
        /\ table = Tables[n] /\ pack = [f EXCEPT ![table] = t[table]]
  OBVIOUS
<1>2. /\ export.at \in 1..5 /\ n \in 2..6
  BY <1>1 DEF ExportNext, Whole, Tables
<1>3. /\ DOMAIN export' = {"at", "from", "file", "changed", "met"}
      /\ export'.at = n /\ export'.from = s /\ export'.file = pack
      /\ export'.changed = export.changed /\ export'.met = export.met
  <2>1. export' = [export EXCEPT !.at = n, !.file = pack]
    BY <1>1 DEF ExportNext
  <2> QED BY <1>1, <2>1 DEF TransferInv, FileIsWhole
<1>4. kept' = kept /\ made' = made /\ torn' = torn /\ met' = met
  BY DEF ExportNext
<1>5. s \in Stores
  BY <1>1, <1>2 DEF TransferInv, FileIsWhole
<1>6. /\ RowsAreRows(t, made) /\ HeadsStand(t, torn[s], met[s]) /\ DOMAIN t = Columns
      /\ RowsAreRows(f, made) /\ DOMAIN f = Columns
  BY <1>1, <1>5, StoreIsWhole DEF TransferInv, FileIsWhole, RowsAreRows
<1>7. RowsAreRows(pack, made) /\ HeadsStand(pack, export.changed, export.met)
  <2>1. CASE export.at = 1
    <3>1. table = "versions"
      BY <1>1, <2>1 DEF Tables
    <3>2. /\ DOMAIN pack = Columns /\ pack.objects = f.objects /\ pack.versions = t.versions
          /\ pack.relations = f.relations
      BY <1>1, <1>6, <3>1 DEF Columns
    <3>3. RowsAreRows(pack, made)
      BY <1>6, <3>2 DEF RowsAreRows
    <3>4. ASSUME NEW o \in DOMAIN pack.objects \ export.changed
          PROVE  HeadIsThere(pack, o) /\ (o \notin export.met => HeadIsLast(pack, o))
      <4>1. /\ o \in DOMAIN t.objects \ torn[s] /\ t.objects[o].head = f.objects[o].head
            /\ t.objects[o].writing = f.objects[o].writing /\ (o \notin export.met => o \notin met[s])
        BY <1>1, <2>1, <3>2 DEF TransferInv, FileIsWhole, Unchanged, StillTrue
      <4>2. HeadIsThere(t, o) /\ (o \notin met[s] => HeadIsLast(t, o))
        BY <1>6, <4>1 DEF HeadsStand
      <4>3. HeadIsThere(pack, o)
        BY <3>2, <4>1, <4>2 DEF HeadIsThere, Version
      <4>4. HeadIsLast(t, o) => HeadIsLast(pack, o)
        BY <3>2, <4>1 DEF HeadIsLast
      <4> QED BY <4>1, <4>2, <4>3, <4>4
    <3> QED BY <3>3, <3>4 DEF HeadsStand
  <2>2. CASE export.at > 1
    <3>1. table \in {"relations", "sources", "evidence", "conflicts"}
      BY <1>1, <1>2, <2>2 DEF Tables
    <3>2. /\ DOMAIN pack = Columns /\ pack.objects = f.objects /\ pack.versions = f.versions
          /\ pack.relations \in {f.relations, t.relations}
      BY <1>1, <1>6, <3>1 DEF Columns
    <3>3. DOMAIN pack.relations \subseteq Links
      BY <1>6, <3>2 DEF RowsAreRows
    <3>4. HeadsStand(f, export.changed, export.met)
      BY <1>1, <2>2 DEF TransferInv, FileIsWhole
    <3> QED BY <1>6, <3>2, <3>3, <3>4, ObjectsAreLeftAlone
  <2> QED BY <1>2, <2>1, <2>2
<1>8. FileIsWhole'
  BY <1>2, <1>3, <1>4, <1>5, <1>7 DEF FileIsWhole
<1> QED BY <1>8, ExportingLeavesStores DEF ExportNext, TransferInv

(* A file that is dropped is no file.                                      *)
LEMMA DropExportKeeps == ASSUME TransferInv, DropExport PROVE TransferInv'
<1>1. /\ DOMAIN export' = {"at", "from", "file", "changed", "met"}
      /\ export'.at = 0 /\ export'.file = EmptyStore
  BY DEF DropExport, NoExport
<1>2. FileIsWhole'
  BY <1>1, NothingIsWhole DEF FileIsWhole
<1> QED BY <1>2, ExportingLeavesStores DEF DropExport, TransferInv

(* A finished file is read into a memory.                                  *)
LEMMA ImportKeeps == ASSUME TransferInv, NEW s \in Stores, Import(s) PROVE TransferInv'
<1>1. PICK t, f, u, broken, spoken :
        /\ t = kept[s] /\ f = export.file /\ u = Imported(t, f)
        /\ broken = StillBroken(t, torn[s], export.changed)
        /\ spoken = NowSpoken(t, met[s], f, export.met)
  OBVIOUS
<1>2. /\ export.at = 6 /\ kept' = [kept EXCEPT ![s] = u]
      /\ torn' = [torn EXCEPT ![s] = broken] /\ met' = [met EXCEPT ![s] = spoken]
      /\ writings' = writings /\ made' = made /\ export' = export
  BY <1>1 DEF Import, Here, StillBroken, NowSpoken, Whole, Tables
<1>3. /\ WholeMemory(t, made, torn[s], met[s])
      /\ DOMAIN torn = Stores /\ DOMAIN met = Stores /\ writings \in Nat
  BY <1>1, StoreIsWhole DEF WholeMemory
<1>4. WholeFile(f, made, export.changed, export.met)
  BY <1>1, <1>2 DEF TransferInv, FileIsWhole, WholeFile
<1>5. WholeMemory(u, made, broken, spoken)
  BY <1>1, <1>3, <1>4, ImportingIsWhole DEF IsImported
<1>6. /\ DOMAIN torn' = Stores /\ DOMAIN met' = Stores
      /\ torn'[s] = broken /\ met'[s] = spoken
      /\ \A x \in Stores \ {s} : torn'[x] = torn[x] /\ met'[x] = met[x]
  BY <1>2, <1>3
<1>7. TablesAre' /\ StoresAreWhole'
  BY <1>2, <1>3, <1>5, <1>6, StoreChanges DEF WholeMemory
<1>8. FileIsWhole'
  BY <1>2 DEF TransferInv, FileIsWhole
<1> QED BY <1>7, <1>8 DEF TransferInv

(* Every step keeps the memories and the file whole.                       *)
LEMMA TransferSteps == TransferInv /\ [TransferNext]_transferVars => TransferInv'
<1> SUFFICES ASSUME TransferInv, [TransferNext]_transferVars PROVE TransferInv'
  OBVIOUS
<1>1. ASSUME NEW s \in Stores, NEW o \in Things,
             \/ Make(s, o) \/ EraseThing(s, o)
             \/ \E heir \in Things \cup {NoHeir} : Amend(s, o, heir)
             \/ \E b \in Things : Disagree(s, o, b)
             \/ \E dst \in Things, r \in Links : Connect(s, r, o, dst)
      PROVE  TransferInv'
  BY <1>1, MakeKeeps, EraseKeeps, AmendKeeps, DisagreeKeeps, ConnectKeeps
<1>2. ASSUME NEW s \in Stores, NEW q \in Quotes, NEW target \in Things \cup Links, Cite(s, q, target)
      PROVE  TransferInv'
  BY <1>2, CiteKeeps
<1>3. ASSUME NEW s \in Stores, BeginExport(s) \/ Import(s) PROVE TransferInv'
  BY <1>3, BeginExportKeeps, ImportKeeps
<1>4. CASE UNCHANGED transferVars
  BY <1>4 DEF transferVars, TransferInv, TablesAre, StoresAreWhole, FileIsWhole, Unchanged, StillTrue
<1> QED BY <1>1, <1>2, <1>3, <1>4, ExportNextKeeps, DropExportKeeps DEF TransferNext

(* What the invariant says of a memory is what its readers rely on.        *)
LEMMA WholeIsWhole == TransferInv => ImportedMemoryIsWhole
<1> SUFFICES ASSUME TransferInv, NEW s \in Stores, NEW t, t = kept[s]
             PROVE  /\ \A q \in DOMAIN t.evidence : t.evidence[q] \in DOMAIN t.objects \cup Links
                    /\ \A c \in t.conflicts : {c[1], c[2]} \subseteq DOMAIN t.objects
                    /\ \A o \in DOMAIN t.objects \ torn[s] :
                          /\ [object |-> o, version |-> t.objects[o].head,
                              writing |-> t.objects[o].writing] \in t.versions
                          /\ o \notin met[s] => CanEdit(s, o)
  BY DEF ImportedMemoryIsWhole
<1>1. RowsAreRows(t, made) /\ RefersHome(t) /\ HeadsStand(t, torn[s], met[s])
  BY StoreIsWhole
<1>2. ASSUME NEW o \in DOMAIN t.objects \ torn[s]
      PROVE  /\ [object |-> o, version |-> t.objects[o].head,
                 writing |-> t.objects[o].writing] \in t.versions
             /\ o \notin met[s] => CanEdit(s, o)
  <2>1. HeadIsThere(t, o) /\ (o \notin met[s] => HeadIsLast(t, o))
    BY <1>1 DEF HeadsStand
  <2>2. t.objects[o].head \in Nat /\ \A v \in t.versions : v.version \in Nat
    BY <1>1 DEF RowsAreRows, IsRow
  <2>3. HeadIsLast(t, o) => CanEdit(s, o)
    BY <2>2 DEF HeadIsLast, CanEdit
  <2> QED BY <2>1, <2>3 DEF HeadIsThere, Version
<1>3. /\ \A q \in DOMAIN t.evidence : t.evidence[q] \in DOMAIN t.objects \cup Links
      /\ \A c \in t.conflicts : {c[1], c[2]} \subseteq DOMAIN t.objects
  BY <1>1 DEF RefersHome
<1> QED BY <1>2, <1>3

(* Whatever was written, erased or imported while a file was made, no      *)
(* evidence or conflict is about an object that is not here, and the head  *)
(* of every object that did not come in from the middle of a change is     *)
(* there (src/core/transfer.js).                                           *)
THEOREM ImportsStayWhole == TransferSpec => []ImportedMemoryIsWhole
BY TransferBegins, TransferSteps, WholeIsWhole, PTL DEF TransferSpec
=============================================================================
