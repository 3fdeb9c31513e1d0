--------------------------- MODULE GatewayProofs ---------------------------
(***************************************************************************)
(* What the gateway promises, for any memory, proposals and people, where  *)
(* one process serves the database: what humans asserted and confirmed     *)
(* stands, a proposal is applied when and only when it is accepted, a      *)
(* decision is final, and nothing is left about objects that are gone.     *)
(* (With two processes AppliedIffAccepted fails: the run gateway_two.)     *)
(***************************************************************************)
EXTENDS Gateway, KnowledgeObjectsProofs, RelationsProofs

(* No two processes write the same database.                               *)
OneProcess == \A a, b \in Processes : a = b

Subjects == ObjectIds \cup RelationIds

(* What is said of memory: objects and edges keep their own invariants,    *)
(* and provenance is about versions that exist, which is what a new        *)
(* version of an object cannot be mistaken for.                            *)
MemoryInv == /\ ObjectInv /\ EdgesInv
             /\ derivation \subseteq Subjects \X Nat
             /\ evidence \subseteq TargetKinds \X ObjectIds \X Cited
             /\ HumanWorkStands
             /\ NothingIsOrphaned

(* Evidence filed under objects is about those there are, and cites them.  *)
WellFounded(rows, there) ==
    /\ rows \subseteq TargetKinds \X ObjectIds \X Cited
    /\ \A e \in rows : (e[1] = "object" => e[2] \in there) /\ e[3] \in there \cup {NoObject}

(* What is said of proposals.                                              *)
ProposalInv ==
    /\ Recorded \subseteq ProposalIds
    /\ \A q \in Recorded : proposal[q] \in [payload : Payloads, status : Statuses]
    /\ effects \in [ProposalIds -> Nat]
    /\ accepting \in [Processes -> Held \cup {Idle}]
    /\ AppliedIffAccepted

(* What an acceptance found when it began is still so: it needs that no    *)
(* other process moves in between.                                         *)
HeldStands == \A a \in Processes : accepting[a] # Idle =>
                 /\ accepting[a].id \in Pending
                 /\ \A p \in Payloads : accepting[a].valid /\ p = proposal[accepting[a].id].payload
                                         => Valid(p)

GatewayInv == MemoryInv /\ ProposalInv /\ HeldStands

(* Derivation rows are about versions that exist.                          *)
DerivationsKnown == \A d \in derivation : d[1] \in ObjectIds =>
                       d[1] \in Present /\ d[2] <= object[d[1]].head_version

(* One version more of an object, after all there were.                    *)
Grows(i) ==
    /\ Present' = Present
    /\ \A j \in Present \ {i} : object'[j] = object[j] /\ object_version'[j] = object_version[j]
    /\ object'[i].head_version = object[i].head_version + 1
    /\ \A n \in 1..object[i].head_version : object_version'[i][n] = object_version[i][n]

(* An update that changes something is one version more.                   *)
LEMMA UpdateGrows ==
    ASSUME ObjectInv, NEW i \in Present, NEW next, NEW kind \in ChangeKinds, NEW also,
           PatchOf(i, next), Update(i, next, kind, also)
    PROVE  /\ Differs(object[i], next) => Grows(i)
           /\ ~Differs(object[i], next) => UNCHANGED <<object, object_version>>
<1>1. CASE Differs(object[i], next)
  <2> DEFINE v == Snapshot(next, kind)
             h == object_version[i]
             row == Bumped(next)
  <2>1. object' = [object EXCEPT ![i] = row] /\ object_version' = [object_version EXCEPT ![i] = Append(h, v)]
    BY <1>1 DEF Update, WriteVersion
  <2>2. i \in ObjectIds /\ h \in Seq(VersionRow) /\ object_version \in [ObjectIds -> Seq(VersionRow)]
    BY DEF ObjectInv, ObjectTypeOK
  <2>3. Len(h) = object[i].head_version
    BY <2>2 DEF ObjectInv, HistoryMatchesHead
  <2>4. v \in VersionRow
    BY SnapshotType DEF PatchOf, ObjectInv, ObjectTypeOK
  <2>5. row.head_version = object[i].head_version + 1
    BY BumpedType DEF PatchOf
  <2> HIDE DEF v, row
  <2>6. \A n \in 1..Len(h) : Append(h, v)[n] = h[n]
    BY <2>2, <2>4
  <2>7. Present' = Present
    BY <2>1 DEF Present
  <2>8. /\ object'[i] = row /\ object_version'[i] = Append(h, v)
        /\ \A j \in Present \ {i} : object'[j] = object[j] /\ object_version'[j] = object_version[j]
    BY <2>1, <2>2 DEF Present, ObjectInv, ObjectTypeOK
  <2>9. Grows(i)
    BY <2>3, <2>5, <2>6, <2>7, <2>8 DEF Grows
  <2> QED BY <1>1, <2>9
<1>2. CASE ~Differs(object[i], next)
  BY <1>2 DEF Update
<1> QED BY <1>1, <1>2

(* A version more, of which provenance says nothing unless the words were  *)
(* not a human's to confirm, leaves what humans confirmed to humans.       *)
LEMMA GrowthKeepsWords ==
    ASSUME MemoryInv, NEW i \in Present,
           \/ Grows(i) /\ derivation' = derivation
           \/ /\ Grows(i) /\ ~HumanConfirmed(i)
              /\ derivation' = derivation \cup {<<i, object[i].head_version + 1>>}
           \/ UNCHANGED <<object, object_version, derivation>>
    PROVE  /\ HumanWordStands' /\ DerivationsKnown'
           /\ derivation' \subseteq Subjects \X Nat
<1>1. CASE UNCHANGED <<object, object_version, derivation>>
  BY <1>1 DEF MemoryInv, HumanWorkStands, HumanWordStands, NothingIsOrphaned, DerivationsKnown,
              Present
<1>2. CASE Grows(i)
  <2> DEFINE k == object[i].head_version
  <2>1. /\ i \in ObjectIds /\ object[i] \in Row /\ k \in Nat \ {0}
        /\ Len(object_version[i]) = k /\ Agrees(Latest(i), object[i])
        /\ \A j \in Present : object[j].head_version \in Nat /\ j \in ObjectIds
    BY DEF MemoryInv, ObjectInv, ObjectTypeOK, HistoryMatchesHead, Row
  <2>2. /\ derivation \subseteq derivation'
        /\ \A d \in derivation' : d \in derivation \/ (d = <<i, k + 1>> /\ ~HumanConfirmed(i))
    BY <1>2
  <2>3. /\ Present' = Present /\ object'[i].head_version = k + 1
        /\ \A j \in Present \ {i} : object'[j] = object[j] /\ object_version'[j] = object_version[j]
        /\ \A n \in 1..k : object_version'[i][n] = object_version[i][n]
    BY <1>2 DEF Grows
  <2>4. DerivationsKnown /\ HumanWordStands /\ derivation \subseteq Subjects \X Nat
    BY DEF MemoryInv, HumanWorkStands, NothingIsOrphaned, DerivationsKnown
  <2>5. object_version[i][k].origin = object[i].origin /\ object_version[i][k].review = object[i].review
    BY <2>1 DEF Latest, Agrees
  <2> HIDE DEF k
  <2>6. \A d \in derivation' : d[1] = i => d[2] <= k + 1
    <3>1. \A d \in derivation : d[1] = i => d[2] \in Nat /\ d[2] <= k
      BY <2>1, <2>4 DEF DerivationsKnown, k
    <3>2. <<i, k + 1>>[2] = k + 1 /\ k \in Nat
      BY <2>1
    <3> QED BY <2>2, <3>1, <3>2
  <2>7. derivation' \subseteq Subjects \X Nat
    BY <2>1, <2>2, <2>4 DEF Subjects
  <2>8. DerivationsKnown'
    BY <2>1, <2>2, <2>3, <2>4, <2>6 DEF DerivationsKnown
  <2>9. HumanWordStands'
    <3> SUFFICES ASSUME NEW j \in Present, NEW n \in 2..object'[j].head_version,
                        <<j, n>> \in derivation'
                 PROVE  ~(object_version'[j][n-1].origin = "user"
                          /\ object_version'[j][n-1].review = "confirmed")
      BY <2>3 DEF HumanWordStands
    <3>1. CASE j # i
      <4>1. <<j, n>> \in derivation
        BY <2>2, <3>1
      <4> QED BY <2>3, <2>4, <3>1, <4>1 DEF HumanWordStands
    <3>2. CASE j = i /\ n <= k
      <4>1. <<i, n>> \in derivation
        BY <2>1, <2>2, <3>2
      <4>2. n \in 2..k /\ n-1 \in 1..k
        BY <2>1, <3>2
      <4> QED BY <2>3, <2>4, <3>2, <4>1, <4>2 DEF HumanWordStands, k
    <3>3. CASE j = i /\ n = k + 1
      <4>1. <<i, k + 1>> \notin derivation
        BY <2>1, <2>4 DEF DerivationsKnown, k
      <4>2. ~HumanConfirmed(i)
        BY <2>2, <3>3, <4>1
      <4>3. n - 1 = k /\ k \in 1..k
        BY <2>1, <3>3
      <4> QED BY <2>3, <2>5, <3>3, <4>2, <4>3 DEF HumanConfirmed
    <3> QED BY <2>1, <2>3, <3>1, <3>2, <3>3
  <2> QED BY <2>7, <2>8, <2>9
<1> QED BY <1>1, <1>2

(* A new object has one version, and no older provenance.                  *)
LEMMA CreationKeepsWords ==
    ASSUME MemoryInv, NEW i \in ObjectIds, NEW c, NEW o, Create(i, c, o),
           derivation' = derivation \/ derivation' = derivation \cup {<<i, 1>>}
    PROVE  /\ HumanWordStands' /\ DerivationsKnown'
           /\ derivation' \subseteq Subjects \X Nat
           /\ Present' = Present \cup {i}
<1>1. i \notin Present
  BY DEF Create, Unused, MemoryInv, ObjectInv, PresentIsUsed
<1>2. /\ Present' = Present \cup {i} /\ object'[i].head_version = 1
      /\ \A j \in Present : object'[j] = object[j] /\ object_version'[j] = object_version[j]
  BY <1>1 DEF Create, NewRow, WriteVersion, Present, MemoryInv, ObjectInv, ObjectTypeOK
<1>3. DerivationsKnown /\ HumanWordStands /\ derivation \subseteq Subjects \X Nat
  BY DEF MemoryInv, HumanWorkStands, NothingIsOrphaned, DerivationsKnown
<1>4. \A d \in derivation' : d \in derivation \/ d = <<i, 1>>
  OBVIOUS
<1>5. derivation' \subseteq Subjects \X Nat
  BY <1>3 DEF Subjects
<1>6. DerivationsKnown'
  BY <1>2, <1>3, <1>4 DEF DerivationsKnown
<1>7. HumanWordStands'
  <2> SUFFICES ASSUME NEW j \in Present', NEW n \in 2..object'[j].head_version,
                      <<j, n>> \in derivation'
               PROVE  ~(object_version'[j][n-1].origin = "user"
                        /\ object_version'[j][n-1].review = "confirmed")
    BY DEF HumanWordStands
  <2>1. j # i /\ j \in Present
    BY <1>2
  <2>2. <<j, n>> \in derivation
    BY <1>4, <2>1
  <2> QED BY <1>2, <1>3, <2>1, <2>2 DEF HumanWordStands
<1> QED BY <1>2, <1>5, <1>6, <1>7

(* Erasing an object takes along what was recorded of its provenance.      *)
LEMMA ErasureKeepsWords ==
    ASSUME MemoryInv, NEW i \in ObjectIds, Purge(i),
           derivation' = {d \in derivation : d[1] # i}
    PROVE  /\ HumanWordStands' /\ DerivationsKnown'
           /\ derivation' \subseteq Subjects \X Nat
           /\ Present' = Present \ {i}
<1>1. /\ object' = WithoutLinkTo(i)
      /\ object_version' = [object_version EXCEPT ![i] = <<>>]
  BY DEF Purge
<1>2. Present' = Present \ {i}
  BY <1>1 DEF Present, WithoutLinkTo
<1>3. ASSUME NEW j \in Present'
      PROVE  object'[j].head_version = object[j].head_version /\ object_version'[j] = object_version[j]
  <2>1. j \in Present /\ j # i /\ j \in ObjectIds /\ object[j] \in Row
    BY <1>2 DEF MemoryInv, ObjectInv, ObjectTypeOK
  <2>2. object'[j] = IF object[j].superseded_by = i
                       THEN [object[j] EXCEPT !.superseded_by = NoObject] ELSE object[j]
    BY <1>1, <2>1 DEF WithoutLinkTo
  <2>3. object'[j].head_version = object[j].head_version
    BY <2>1, <2>2 DEF Row
  <2>4. object_version'[j] = object_version[j]
    BY <1>1, <2>1 DEF MemoryInv, ObjectInv, ObjectTypeOK
  <2> QED BY <2>3, <2>4
<1>4. DerivationsKnown /\ HumanWordStands /\ derivation \subseteq Subjects \X Nat
  BY DEF MemoryInv, HumanWorkStands, NothingIsOrphaned, DerivationsKnown
<1>5. DerivationsKnown'
  BY <1>2, <1>3, <1>4 DEF DerivationsKnown
<1>6. HumanWordStands'
  <2> SUFFICES ASSUME NEW j \in Present', NEW n \in 2..object'[j].head_version,
                      <<j, n>> \in derivation'
               PROVE  ~(object_version'[j][n-1].origin = "user"
                        /\ object_version'[j][n-1].review = "confirmed")
    BY DEF HumanWordStands
  <2> QED BY <1>2, <1>3, <1>4 DEF HumanWordStands
<1> QED BY <1>2, <1>4, <1>5, <1>6

(* What is done to edges says nothing of objects.                          *)
LEMMA EdgesKeepWords ==
    ASSUME MemoryInv, UNCHANGED objectVars,
           derivation' = derivation \/ (\E r \in RelationIds : derivation' = derivation \cup {<<r, 1>>})
    PROVE  /\ HumanWordStands' /\ DerivationsKnown'
           /\ derivation' \subseteq Subjects \X Nat
           /\ Present' = Present
<1>1. object' = object /\ object_version' = object_version /\ Present' = Present
  BY DEF objectVars, Present
<1>2. DerivationsKnown /\ HumanWordStands /\ derivation \subseteq Subjects \X Nat
  BY DEF MemoryInv, HumanWorkStands, NothingIsOrphaned, DerivationsKnown
<1>3. \A d \in derivation' : d \in derivation \/ (d[1] \in RelationIds /\ d[2] = 1)
  OBVIOUS
<1>4. \A d \in derivation' : d[1] \in ObjectIds => d \in derivation
  BY <1>3, IdsAssumption
<1>5. derivation' \subseteq Subjects \X Nat
  BY <1>2 DEF Subjects
<1>6. DerivationsKnown'
  BY <1>1, <1>2, <1>4 DEF DerivationsKnown
<1>7. HumanWordStands'
  <2>1. Present \subseteq ObjectIds
    BY DEF MemoryInv, ObjectInv, ObjectTypeOK
  <2>2. \A j \in Present, n \in Nat : <<j, n>> \in derivation' => <<j, n>> \in derivation
    BY <1>4, <2>1
  <2>3. \A j \in Present : object[j].head_version \in Nat
    BY DEF MemoryInv, ObjectInv, ObjectTypeOK, Row
  <2> QED BY <1>1, <1>2, <2>2, <2>3 DEF HumanWordStands
<1> QED BY <1>1, <1>5, <1>6, <1>7
-----------------------------------------------------------------------------
(* An edge that a human asserted takes a new version from a human only.    *)
LEMMA UpdatesKeepAssertions ==
    ASSUME EdgesInv, HumanEdgesStand, NEW r \in Edges, NEW by \in ActorKinds, NEW next,
           Allowed(r, next), UpdateRelation(r, next, by),
           by = "user" \/ relation[r].origin # "user"
    PROVE  HumanEdgesStand'
<1>1. CASE UNCHANGED relationVars
  BY <1>1 DEF relationVars, HumanEdgesStand, Edges
<1>2. CASE RelationDiffers(relation[r], next)
  <2> DEFINE h == relation_version[r]
             v == RelationSnapshot(next, by)
  <2>1. /\ h \in Seq(RelationVersionRow) /\ Len(h) > 0 /\ r \in RelationIds
        /\ h[Len(h)].origin = relation[r].origin
        /\ relation_version \in [RelationIds -> Seq(RelationVersionRow)]
        /\ Edges \subseteq RelationIds
    BY EdgesHaveVersions DEF EdgesInv, HeadsMatch, LatestOf, Repeats, RelationTypeOK
  <2>2. v.actor_kind = by /\ v \in RelationVersionRow
    BY SnapshotSays DEF RelationSnapshot, Allowed, EdgesInv
  <2>3. /\ relation_version' = [relation_version EXCEPT ![r] = Append(h, v)]
        /\ Edges' = Edges
    BY <1>2 DEF UpdateRelation, WriteRelationVersion, Edges
  <2> HIDE DEF v
  <2>4. ASSUME NEW n \in 2..Len(Append(h, v)), Append(h, v)[n-1].origin = "user"
        PROVE  Append(h, v)[n].actor_kind = "user"
    <3>1. CASE n <= Len(h)
      <4>1. n \in 2..Len(h) /\ Append(h, v)[n] = h[n] /\ Append(h, v)[n-1] = h[n-1]
        BY <2>1, <2>2, <3>1
      <4> QED BY <2>4, <4>1 DEF HumanEdgesStand
    <3>2. CASE n > Len(h)
      <4>1. n = Len(h) + 1 /\ Append(h, v)[n] = v /\ Append(h, v)[n-1] = h[Len(h)]
        BY <2>1, <2>2, <3>2
      <4> QED BY <2>1, <2>2, <2>4, <4>1
    <3> QED BY <2>1, <3>1, <3>2
  <2>5. relation_version'[r] = Append(h, v) /\ \A s \in Edges \ {r} : relation_version'[s] = relation_version[s]
    BY <2>1, <2>3
  <2> QED BY <2>3, <2>4, <2>5 DEF HumanEdgesStand
<1> QED BY <1>1, <1>2 DEF UpdateRelation

(* A new edge has one version.                                             *)
LEMMA RelatingKeepsAssertions ==
    ASSUME EdgesInv, HumanEdgesStand, NEW r \in RelationIds, NEW by, NEW src, NEW dst, NEW t,
           NEW o, NEW n, Relate(r, src, t, dst, o, n, by)
    PROVE  HumanEdgesStand'
<1> PICK v : relation_version' = [relation_version EXCEPT ![r] = Append(@, v)]
  BY DEF Relate, InsertRelation, WriteRelationVersion
<1>1. r \notin Edges /\ relation_version[r] = <<>>
  BY DEF Relate, InsertRelation, UnusedRelation, EdgesInv, HeadsMatch
<1>2. Edges' = Edges \cup {r} /\ Edges \subseteq RelationIds
  BY DEF Relate, InsertRelation, Edges, EdgesInv, RelationTypeOK
<1>3. Len(relation_version'[r]) = 1 /\ \A s \in Edges : relation_version'[s] = relation_version[s]
  BY <1>1, <1>2 DEF EdgesInv, RelationTypeOK
<1> QED BY <1>2, <1>3 DEF HumanEdgesStand

(* The edges that stay keep their versions.                                *)
LEMMA ErasureKeepsAssertions ==
    ASSUME EdgesInv, HumanEdgesStand, NEW i, PurgeEdges(i)
    PROVE  HumanEdgesStand'
<1>1. Edges' = Edges \ Touching(i) /\ Edges \subseteq RelationIds
  BY DEF PurgeEdges, Edges, EdgesInv, RelationTypeOK
<1>2. \A s \in Edges' : relation_version'[s] = relation_version[s]
  BY <1>1 DEF PurgeEdges
<1> QED BY <1>1, <1>2 DEF HumanEdgesStand
-----------------------------------------------------------------------------
(* The parts of MemoryInv, and what is left to show of a step.             *)
LEMMA MemoryParts ==
    ASSUME ObjectInv', EdgesInv', HumanWordStands', HumanEdgesStand', DerivationsKnown',
           derivation' \subseteq Subjects \X Nat,
           WellFounded(evidence', Present'),
           conflict' \subseteq Present' \X (Present' \cup {NoObject})
    PROVE  MemoryInv'
BY DEF MemoryInv, HumanWorkStands, NothingIsOrphaned, DerivationsKnown, WellFounded

(* A step that leaves the edges and takes no object away.                  *)
LEMMA ObjectStep ==
    ASSUME MemoryInv, ObjectInv', UNCHANGED relationVars, Present \subseteq Present', clock' = clock,
           HumanWordStands', DerivationsKnown', derivation' \subseteq Subjects \X Nat,
           WellFounded(evidence', Present'), conflict' = conflict
    PROVE  MemoryInv'
<1>1. EdgesInv'
  <2>1. EdgesInv /\ clock \in Nat
    BY DEF MemoryInv, EdgesInv
  <2> QED BY <2>1, ObjectsLeaveEdges
<1>2. HumanEdgesStand'
  BY DEF MemoryInv, HumanWorkStands, HumanEdgesStand, relationVars, Edges
<1>3. conflict' \subseteq Present' \X (Present' \cup {NoObject})
  BY DEF MemoryInv, NothingIsOrphaned
<1> QED BY <1>1, <1>2, <1>3, MemoryParts

(* A step that leaves the objects.                                         *)
LEMMA EdgeStep ==
    ASSUME MemoryInv, UNCHANGED objectVars, EdgesInv', HumanEdgesStand',
           derivation' = derivation \/ (\E r \in RelationIds : derivation' = derivation \cup {<<r, 1>>}),
           WellFounded(evidence', Present), conflict' \subseteq Present \X (Present \cup {NoObject})
    PROVE  MemoryInv'
<1>1. ObjectInv'
  BY NextKeepsInv DEF MemoryInv
<1>2. /\ HumanWordStands' /\ DerivationsKnown' /\ Present' = Present
      /\ derivation' \subseteq Subjects \X Nat
  BY EdgesKeepWords
<1> QED BY <1>1, <1>2, MemoryParts

(* Evidence and conflicts name what the memory has.                        *)
LEMMA OrphansBefore ==
    ASSUME MemoryInv
    PROVE  /\ WellFounded(evidence, Present)
           /\ conflict \subseteq Present \X (Present \cup {NoObject})
BY DEF MemoryInv, NothingIsOrphaned, WellFounded

(* What a person writes.                                                   *)
LEMMA PersonWritesKeeps ==
    ASSUME MemoryInv, NEW i \in ObjectIds, PersonWrites(i)
    PROVE  MemoryInv'
<1>1. /\ UNCHANGED relationVars /\ derivation' = derivation /\ evidence' = evidence
      /\ conflict' = conflict
      /\ (\E c \in Contents, o \in {"user", "source"} : Create(i, c, o)) \/ Changes(i)
  BY DEF PersonWrites, Changes
<1>2. CASE \E c \in Contents, o \in {"user", "source"} : Create(i, c, o)
  <2> PICK c \in Contents, o \in {"user", "source"} : Create(i, c, o)
    BY <1>2
  <2>1. o \in Origins
    BY OriginsAssumption
  <2>2. ObjectInv'
    BY <2>1, CreateKeepsInv DEF MemoryInv
  <2>3. clock' = clock
    BY DEF Create
  <2>4. /\ HumanWordStands' /\ DerivationsKnown' /\ Present' = Present \cup {i}
        /\ derivation' \subseteq Subjects \X Nat
    BY <1>1, CreationKeepsWords
  <2>5. WellFounded(evidence', Present')
    BY <1>1, <2>4, OrphansBefore DEF WellFounded
  <2> QED BY <1>1, <2>2, <2>3, <2>4, <2>5, ObjectStep
<1>3. CASE Changes(i)
  <2>1. ObjectInv /\ i \in Present /\ Patches(i)
    BY <1>3, ChangesArePatches DEF MemoryInv, ObjectInv
  <2>2. PICK next \in Row, kind \in ChangeKinds, also \in Seq(EventTypes) :
           PatchOf(i, next) /\ Update(i, next, kind, also)
    BY <2>1 DEF Patches
  <2>3. Grows(i) \/ UNCHANGED <<object, object_version>>
    BY <2>1, <2>2, UpdateGrows
  <2>4. /\ HumanWordStands' /\ DerivationsKnown'
        /\ derivation' \subseteq Subjects \X Nat
    BY <1>1, <2>1, <2>3, GrowthKeepsWords
  <2>5. ObjectInv' /\ Present' = Present /\ clock' = clock
    BY <2>1, UpdateKeepsInv, UpdateEffect DEF ObjectInv
  <2> QED BY <1>1, <2>4, <2>5, ObjectStep, OrphansBefore
<1> QED BY <1>1, <1>2, <1>3

(* What a person says of edges.                                            *)
LEMMA PersonConnectsKeeps ==
    ASSUME MemoryInv, NEW r \in RelationIds, PersonConnects(r)
    PROVE  MemoryInv'
<1>1. /\ UNCHANGED objectVars /\ derivation' = derivation /\ evidence' = evidence
      /\ conflict' = conflict /\ EdgesInv /\ HumanEdgesStand
  BY DEF PersonConnects, MemoryInv, HumanWorkStands
<1>by. "user" \in ActorKinds /\ "user" \in Origins
  BY OriginsAssumption DEF ActorKinds
<1>2. CASE \E src, dst \in ObjectIds, t \in Types, n \in Notes :
              Relate(r, src, t, dst, "user", n, "user")
  <2> PICK src \in ObjectIds, dst \in ObjectIds, t \in Types, n \in Notes :
              Relate(r, src, t, dst, "user", n, "user")
    BY <1>2
  <2>1. EdgesInv'
    BY <1>1, <1>by, RelateKeepsEdges
  <2>2. HumanEdgesStand'
    BY <1>1, RelatingKeepsAssertions
  <2> QED BY <1>1, <2>1, <2>2, EdgeStep, OrphansBefore
<1>3. ASSUME NEW next, r \in Edges, Allowed(r, next), UpdateRelation(r, next, "user")
      PROVE  MemoryInv'
  <2>1. EdgesInv'
    BY <1>1, <1>3, <1>by, UpdateKeepsEdges
  <2>2. HumanEdgesStand'
    BY <1>1, <1>3, <1>by, UpdatesKeepAssertions
  <2> QED BY <1>1, <2>1, <2>2, EdgeStep, OrphansBefore
<1>4. CASE \E src, dst \in ObjectIds, t \in Types, n \in Notes :
              Reinforce(r, src, t, dst, "user", n, "user")
  <2> PICK src \in ObjectIds, dst \in ObjectIds, t \in Types, n \in Notes :
              Reinforce(r, src, t, dst, "user", n, "user")
    BY <1>4
  <2>1. r \in Edges /\ Allowed(r, [relation[r] EXCEPT !.origin = "user", !.note = n])
    BY <1>1, <1>by, ReinforceIsAllowed
  <2>2. UpdateRelation(r, [relation[r] EXCEPT !.origin = "user", !.note = n], "user")
    BY DEF Reinforce
  <2> QED BY <1>3, <2>1, <2>2
<1>5. CASE Retract(r, "user") \/ ConfirmRelation(r, "user")
  <2>1. r \in Edges
    BY <1>5 DEF Retract, ConfirmRelation
  <2> QED BY <1>1, <1>3, <1>5, <2>1, RestIsAllowed DEF Retract, ConfirmRelation
<1> QED BY <1>2, <1>4, <1>5 DEF PersonConnects

(* What a person erases.                                                   *)
LEMMA PersonErasesKeeps ==
    ASSUME MemoryInv, NEW i \in ObjectIds, PersonErases(i)
    PROVE  MemoryInv'
<1>1. /\ Purge(i) /\ PurgeEdges(i) /\ ObjectInv /\ EdgesInv /\ HumanEdgesStand
      /\ derivation' = {d \in derivation : d[1] # i}
      /\ evidence' = {e \in evidence : <<e[1], e[2]>> # <<"object", i>> /\ e[3] # i}
      /\ conflict' = {c \in conflict : i \notin {c[1], c[2]}}
  BY DEF PersonErases, MemoryInv, HumanWorkStands
<1>2. ObjectInv'
  BY <1>1, PurgeKeepsInv
<1>3. EdgesInv'
  BY <1>1, PurgeKeepsEdges DEF PurgeWhole
<1>4. HumanEdgesStand'
  BY <1>1, ErasureKeepsAssertions
<1>5. /\ HumanWordStands' /\ DerivationsKnown' /\ derivation' \subseteq Subjects \X Nat
      /\ Present' = Present \ {i}
  BY <1>1, ErasureKeepsWords
<1>6. WellFounded(evidence', Present')
  BY <1>1, <1>5, OrphansBefore DEF WellFounded
<1>7. conflict' \subseteq Present' \X (Present' \cup {NoObject})
  BY <1>1, <1>5, OrphansBefore
<1> QED BY <1>2, <1>3, <1>4, <1>5, <1>6, <1>7, MemoryParts
-----------------------------------------------------------------------------
(* What a capability may ask for, by operation.                            *)
LEMMA PayloadTypes ==
    ASSUME NEW p \in Payloads
    PROVE  /\ p.op = "create_object" => p.content \in Contents /\ p.origin \in Origins
           /\ p.op \in {"update_object", "set_attributes"} =>
                 p.target \in ObjectIds /\ p.content \in Contents
           /\ p.op = "create_relation" =>
                 /\ p.target \in ObjectIds /\ p.other \in ObjectIds /\ p.type \in Types
                 /\ p.origin \in Origins /\ p.note \in Notes
           /\ p.op = "link_evidence" =>
                 p.kind \in TargetKinds /\ p.target \in ObjectIds /\ p.cites \in Cited
BY DEF Payloads

(* A proposal that creates leaves the memory sound.                        *)
LEMMA ApplyCreateKeeps ==
    ASSUME MemoryInv, NEW p \in Payloads, ApplyCreate(p)
    PROVE  MemoryInv'
<1>1. PICK i \in ObjectIds :
         /\ Create(i, p.content, p.origin)
         /\ derivation' = derivation \cup {<<i, 1>>}
         /\ evidence' = IF p.cites THEN evidence \cup {<<"object", i, NoObject>>} ELSE evidence
  BY DEF ApplyCreate
<1>2. p.content \in Contents /\ p.origin \in Origins /\ UNCHANGED relationVars /\ conflict' = conflict
  BY PayloadTypes DEF ApplyCreate
<1>3. ObjectInv'
  BY <1>1, <1>2, CreateKeepsInv DEF MemoryInv
<1>4. /\ HumanWordStands' /\ DerivationsKnown' /\ Present' = Present \cup {i}
      /\ derivation' \subseteq Subjects \X Nat
  BY <1>1, CreationKeepsWords
<1>5. clock' = clock
  BY <1>1 DEF Create
<1>6. WellFounded(evidence', Present')
  BY <1>1, <1>4, OrphansBefore DEF WellFounded, TargetKinds, Cited
<1> QED BY <1>2, <1>3, <1>4, <1>5, <1>6, ObjectStep

(* An edit of what a human confirmed is what validate() refuses.           *)
LEMMA ApplyEditKeeps ==
    ASSUME MemoryInv, NEW p \in Payloads, Valid(p), ApplyEdit(p)
    PROVE  MemoryInv'
<1> DEFINE i == p.target
           next == [object[i] EXCEPT !.content = p.content]
<1>1. /\ i \in Present /\ p.op \in {"update_object", "set_attributes"}
      /\ Update(i, next, "edit", <<>>)
      /\ derivation' = IF Differs(object[i], next)
                          THEN derivation \cup {<<i, next.head_version + 1>>} ELSE derivation
      /\ UNCHANGED relationVars /\ evidence' = evidence /\ conflict' = conflict
  BY DEF ApplyEdit
<1>2. ObjectInv /\ object[i] \in Row /\ p.content \in Contents
  BY <1>1, PayloadTypes DEF MemoryInv, ObjectInv, ObjectTypeOK
<1>3. PatchOf(i, next) /\ next.head_version = object[i].head_version /\ next \in Row
  BY <1>1, <1>2 DEF PatchOf, Row, ObjectInv, SupersededByIsPresent
<1>4. ~HumanConfirmed(i)
  BY <1>1 DEF Valid
<1>kind. "edit" \in ChangeKinds /\ <<>> \in Seq(EventTypes)
  BY DEF ChangeKinds
<1> HIDE DEF next
<1>5. Patches(i)
  BY <1>1, <1>3, <1>kind DEF Patches, Also, ChangeKinds
<1>6. ObjectInv' /\ Present' = Present /\ clock' = clock
  BY <1>1, <1>2, <1>5, UpdateKeepsInv, UpdateEffect DEF ObjectInv
<1>7. CASE Differs(object[i], next)
  <2>1. Grows(i)
    BY <1>1, <1>2, <1>3, <1>7, <1>kind, UpdateGrows
  <2>2. derivation' = derivation \cup {<<i, object[i].head_version + 1>>}
    BY <1>1, <1>3, <1>7
  <2>3. /\ HumanWordStands' /\ DerivationsKnown'
        /\ derivation' \subseteq Subjects \X Nat
    BY <1>1, <1>4, <2>1, <2>2, GrowthKeepsWords
  <2> QED BY <1>1, <1>6, <2>3, ObjectStep, OrphansBefore
<1>8. CASE ~Differs(object[i], next)
  <2>1. UNCHANGED <<object, object_version, derivation>>
    BY <1>1, <1>2, <1>3, <1>8, <1>kind, UpdateGrows
  <2>2. /\ HumanWordStands' /\ DerivationsKnown'
        /\ derivation' \subseteq Subjects \X Nat
    BY <1>1, <2>1, GrowthKeepsWords
  <2> QED BY <1>1, <1>6, <2>2, ObjectStep, OrphansBefore
<1> QED BY <1>7, <1>8

(* The edge a human asserted is not reinforced by a capability.            *)
LEMMA ApplyRelationKeeps ==
    ASSUME MemoryInv, NEW p \in Payloads, Valid(p), ApplyRelation(p)
    PROVE  MemoryInv'
<1>1. /\ p.op = "create_relation" /\ UNCHANGED objectVars
      /\ evidence' = evidence /\ conflict' = conflict
      /\ EdgesInv /\ HumanEdgesStand
  BY DEF ApplyRelation, MemoryInv, HumanWorkStands
<1>2. /\ p.target \in ObjectIds /\ p.other \in ObjectIds /\ p.type \in Types
      /\ p.origin \in Origins /\ p.note \in Notes /\ "capability" \in ActorKinds
  BY <1>1, PayloadTypes DEF ActorKinds
<1>3. PICK r \in RelationIds :
         \/ /\ Relate(r, p.target, p.type, p.other, p.origin, p.note, "capability")
            /\ derivation' = derivation \cup {<<r, 1>>}
         \/ /\ Reinforce(r, p.target, p.type, p.other, p.origin, p.note, "capability")
            /\ derivation' = derivation
  BY DEF ApplyRelation
<1>4. CASE /\ Relate(r, p.target, p.type, p.other, p.origin, p.note, "capability")
           /\ derivation' = derivation \cup {<<r, 1>>}
  <2>1. EdgesInv'
    BY <1>1, <1>2, <1>4, RelateKeepsEdges
  <2>2. HumanEdgesStand'
    BY <1>1, <1>4, RelatingKeepsAssertions
  <2> QED BY <1>1, <1>4, <2>1, <2>2, EdgeStep, OrphansBefore
<1>5. CASE /\ Reinforce(r, p.target, p.type, p.other, p.origin, p.note, "capability")
           /\ derivation' = derivation
  <2> DEFINE next == [relation[r] EXCEPT !.origin = p.origin, !.note = p.note]
  <2>1. r \in Edges /\ Allowed(r, next)
    BY <1>1, <1>2, <1>5, ReinforceIsAllowed
  <2>2. UpdateRelation(r, next, "capability") /\ r \in ActiveEdges(p.target, p.type, p.other)
    BY <1>5 DEF Reinforce
  <2>3. relation[r].origin # "user"
    BY <1>1, <2>2 DEF Valid, HumanAsserted
  <2> HIDE DEF next
  <2>4. EdgesInv'
    BY <1>1, <1>2, <2>1, <2>2, UpdateKeepsEdges
  <2>5. HumanEdgesStand'
    BY <1>1, <1>2, <2>1, <2>2, <2>3, UpdatesKeepAssertions
  <2> QED BY <1>1, <1>5, <2>4, <2>5, EdgeStep, OrphansBefore
<1> QED BY <1>3, <1>4, <1>5

(* Memory as it was, with evidence or conflicts of what is there.          *)
LEMMA TablesKeep ==
    ASSUME MemoryInv, UNCHANGED memoryVars, derivation' = derivation,
           WellFounded(evidence', Present), conflict' \subseteq Present \X (Present \cup {NoObject})
    PROVE  MemoryInv'
<1>1. UNCHANGED objectVars /\ UNCHANGED relationVars /\ UNCHANGED memoryVars
  BY DEF memoryVars, objectVars, relationVars
<1>2. EdgesInv' /\ HumanEdgesStand'
  BY <1>1, ObjectsKeepInv DEF MemoryInv, HumanWorkStands, HumanEdgesStand, Edges, relationVars
<1> QED BY <1>1, <1>2, EdgeStep

(* Whatever a proposal asks for, applying it leaves the memory sound.      *)
LEMMA ApplyKeeps ==
    ASSUME MemoryInv, NEW p \in Payloads, Valid(p), ApplyOp(p)
    PROVE  MemoryInv'
<1>1. CASE ApplyEvidence(p)
  <2>1. p.target \in Present /\ p.cites \in Present \cup {NoObject} /\ p.op = "link_evidence"
    BY <1>1 DEF ApplyEvidence, Valid
  <2>2. p.kind \in TargetKinds /\ p.target \in ObjectIds /\ p.cites \in Cited
    BY <2>1, PayloadTypes
  <2>3. /\ UNCHANGED memoryVars /\ derivation' = derivation /\ conflict' = conflict
        /\ evidence' = evidence \cup {<<p.kind, p.target, p.cites>>}
    BY <1>1 DEF ApplyEvidence
  <2>4. WellFounded(evidence', Present)
    BY <2>1, <2>2, <2>3, OrphansBefore DEF WellFounded
  <2> QED BY <2>3, <2>4, TablesKeep, OrphansBefore
<1>2. CASE ApplyConflict(p)
  <2>1. p.target \in Present /\ p.other \in Present \cup {NoObject}
    BY <1>2 DEF ApplyConflict, Valid, BothPresent
  <2> QED BY <1>2, <2>1, TablesKeep, OrphansBefore DEF ApplyConflict
<1> QED BY <1>1, <1>2, ApplyCreateKeeps, ApplyEditKeeps, ApplyRelationKeeps DEF ApplyOp
-----------------------------------------------------------------------------
ProposalRow == [payload : Payloads, status : Statuses]

(* A new row decides nothing about the others.                             *)
LEMMA InsertingDecides ==
    ASSUME ProposalInv, NEW q \in ProposalIds, q \notin Recorded, NEW p \in Payloads,
           NEW status \in Statuses, Insert(q, p, status),
           effects' = IF status = "accepted" THEN [effects EXCEPT ![q] = @ + 1] ELSE effects,
           accepting' \in [Processes -> Held \cup {Idle}]
    PROVE  ProposalInv' /\ Final
<1>1. /\ Recorded' = Recorded \cup {q}
      /\ proposal'[q] = [payload |-> p, status |-> status]
      /\ \A r \in Recorded : proposal'[r] = proposal[r]
  BY DEF Insert, Recorded
<1>2. /\ Recorded \subseteq ProposalIds /\ \A r \in Recorded : proposal[r] \in ProposalRow
      /\ effects \in [ProposalIds -> Nat] /\ effects[q] = 0
      /\ \A r \in ProposalIds : effects[r] = IF r \in Recorded /\ proposal[r].status = "accepted" THEN 1 ELSE 0
  BY DEF ProposalInv, ProposalRow, AppliedIffAccepted
<1>3. Final
  BY <1>1 DEF Final
<1>4. \A r \in Recorded' : proposal'[r] \in ProposalRow
  BY <1>1, <1>2 DEF ProposalRow
<1>5. /\ effects' \in [ProposalIds -> Nat]
      /\ effects'[q] = IF status = "accepted" THEN 1 ELSE 0
      /\ \A r \in ProposalIds \ {q} : effects'[r] = effects[r]
  BY <1>2
<1>6. AppliedIffAccepted'
  BY <1>1, <1>2, <1>5 DEF AppliedIffAccepted
<1> QED BY <1>1, <1>2, <1>3, <1>4, <1>5, <1>6 DEF ProposalInv, ProposalRow

(* A decision is taken of what is pending.                                 *)
LEMMA DecidingDecides ==
    ASSUME ProposalInv, NEW q \in Pending, NEW status \in Statuses, Decide(q, status),
           effects' = IF status = "accepted" THEN [effects EXCEPT ![q] = @ + 1] ELSE effects,
           accepting' \in [Processes -> Held \cup {Idle}]
    PROVE  ProposalInv' /\ Final
<1>1. /\ q \in Recorded /\ proposal[q].status = "pending" /\ proposal[q] \in ProposalRow
      /\ Recorded \subseteq ProposalIds /\ \A r \in Recorded : proposal[r] \in ProposalRow
      /\ effects \in [ProposalIds -> Nat]
      /\ \A r \in ProposalIds : effects[r] = IF r \in Recorded /\ proposal[r].status = "accepted" THEN 1 ELSE 0
  BY DEF Pending, ProposalInv, ProposalRow, AppliedIffAccepted
<1>2. /\ Recorded' = Recorded
      /\ proposal'[q] = [proposal[q] EXCEPT !.status = status]
      /\ \A r \in Recorded \ {q} : proposal'[r] = proposal[r]
  BY <1>1 DEF Decide, Recorded
<1>3. /\ proposal'[q] \in ProposalRow /\ proposal'[q].status = status
      /\ proposal'[q].payload = proposal[q].payload
  BY <1>1, <1>2 DEF ProposalRow
<1>4. Final
  BY <1>1, <1>2, <1>3 DEF Final
<1>5. /\ effects' \in [ProposalIds -> Nat]
      /\ effects'[q] = IF status = "accepted" THEN 1 ELSE 0
      /\ \A r \in ProposalIds \ {q} : effects'[r] = effects[r]
  BY <1>1
<1>6. AppliedIffAccepted'
  BY <1>1, <1>2, <1>3, <1>5 DEF AppliedIffAccepted
<1> QED BY <1>1, <1>2, <1>3, <1>4, <1>5, <1>6 DEF ProposalInv, ProposalRow

(* Nor does age decide of anything else.                                   *)
LEMMA ExpiringDecides ==
    ASSUME ProposalInv, NEW a \in Processes, ExpireStale(a)
    PROVE  ProposalInv' /\ Final
<1>1. PICK stale \in SUBSET Pending :
         proposal' = [q \in Recorded |-> IF q \in stale
                                           THEN [proposal[q] EXCEPT !.status = "expired"]
                                           ELSE proposal[q]]
  BY DEF ExpireStale
<1>2. Recorded' = Recorded /\ effects' = effects /\ accepting' = accepting
  BY <1>1 DEF Recorded, ExpireStale
<1>3. ASSUME NEW q \in Recorded
      PROVE  /\ proposal'[q] \in ProposalRow
             /\ proposal'[q].payload = proposal[q].payload
             /\ proposal[q].status # "pending" => proposal'[q] = proposal[q]
             /\ proposal'[q].status = "accepted" <=> proposal[q].status = "accepted"
  <2>1. proposal[q] \in ProposalRow
    BY DEF ProposalInv, ProposalRow
  <2>2. CASE q \in stale
    <3>1. proposal'[q] = [proposal[q] EXCEPT !.status = "expired"] /\ proposal[q].status = "pending"
      BY <1>1, <2>2 DEF Pending
    <3> QED BY <2>1, <3>1 DEF ProposalRow, Statuses
  <2>3. CASE q \notin stale
    BY <1>1, <2>1, <2>3
  <2> QED BY <2>2, <2>3
<1>4. Final
  BY <1>2, <1>3 DEF Final
<1> QED BY <1>2, <1>3, <1>4 DEF ProposalInv, ProposalRow, AppliedIffAccepted

(* Steps that touch no proposal.                                           *)
LEMMA RestDecides ==
    ASSUME ProposalInv, proposal' = proposal, effects' = effects,
           accepting' \in [Processes -> Held \cup {Idle}]
    PROVE  ProposalInv' /\ Final
BY DEF ProposalInv, AppliedIffAccepted, Final, Recorded

(* With one process, nothing comes between the two steps of an acceptance: *)
(* what it holds was pending and valid, and is.                            *)
LEMMA NobodyInBetween ==
    ASSUME OneProcess, NEW a \in Processes, accepting \in [Processes -> Held \cup {Idle}],
           \/ accepting[a] = Idle /\ accepting' = accepting
           \/ Accepting(a)
    PROVE  HeldStands' /\ accepting' \in [Processes -> Held \cup {Idle}]
BY DEF OneProcess, HeldStands, Accepting
-----------------------------------------------------------------------------
(* What a person does through the gateway, alone in its process.           *)
LEMMA PersonSteps ==
    ASSUME OneProcess, GatewayInv, NEW a \in Processes, Person(a)
    PROVE  GatewayInv' /\ Final
<1>1. MemoryInv'
  BY PersonWritesKeeps, PersonErasesKeeps, PersonConnectsKeeps DEF Person, GatewayInv
<1>2. HeldStands' /\ ProposalInv' /\ Final
  BY NobodyInBetween, RestDecides DEF Person, GatewayInv, ProposalInv
<1> QED BY <1>1, <1>2 DEF GatewayInv

(* Proposing, with and without the policy that accepts at once.            *)
LEMMA ProposeSteps ==
    ASSUME OneProcess, GatewayInv, NEW a \in Processes, NEW q \in ProposalIds, NEW p \in Payloads,
           (\E sure \in BOOLEAN : Propose(a, q, p, sure)) \/ ProposeAccepted(a, q, p)
    PROVE  GatewayInv' /\ Final
<1>1. CASE \E sure \in BOOLEAN : Propose(a, q, p, sure)
  <2> DEFINE status == IF Valid(p) THEN "pending" ELSE "invalid"
  <2>1. /\ accepting[a] = Idle /\ q \notin Recorded
        /\ UNCHANGED <<memoryVars, derivation, evidence, conflict, effects, accepting>>
        /\ Insert(q, p, status)
    BY <1>1 DEF Propose
  <2>2. status \in Statuses /\ status # "accepted"
    BY DEF Statuses
  <2> HIDE DEF status
  <2>3. MemoryInv'
    BY <2>1, TablesKeep, OrphansBefore DEF GatewayInv
  <2>4. HeldStands'
    BY <2>1, NobodyInBetween DEF GatewayInv, ProposalInv
  <2>5. ProposalInv' /\ Final
    BY <2>1, <2>2, InsertingDecides DEF GatewayInv, ProposalInv
  <2> QED BY <2>3, <2>4, <2>5 DEF GatewayInv
<1>2. CASE ProposeAccepted(a, q, p)
  <2>1. /\ accepting[a] = Idle /\ q \notin Recorded /\ accepting' = accepting
        /\ Valid(p) /\ ApplyOp(p) /\ Insert(q, p, "accepted")
        /\ effects' = [effects EXCEPT ![q] = @ + 1]
    BY <1>2 DEF ProposeAccepted
  <2>2. "accepted" \in Statuses
    BY DEF Statuses
  <2>3. MemoryInv'
    BY <2>1, ApplyKeeps DEF GatewayInv
  <2>4. HeldStands'
    BY <2>1, NobodyInBetween DEF GatewayInv, ProposalInv
  <2>5. ProposalInv' /\ Final
    BY <2>1, <2>2, InsertingDecides DEF GatewayInv, ProposalInv
  <2> QED BY <2>3, <2>4, <2>5 DEF GatewayInv
<1> QED BY <1>1, <1>2

(* What the gate says depends on memory alone.                             *)
LEMMA ValidStands ==
    ASSUME UNCHANGED memoryVars, NEW p
    PROVE  Valid(p)' <=> Valid(p)
<1>1. object' = object /\ relation' = relation /\ Present' = Present
  BY DEF memoryVars, Present
<1>2. \A i : HumanConfirmed(i)' <=> HumanConfirmed(i)
  BY <1>1 DEF HumanConfirmed
<1>3. \A i, t, j : HumanAsserted(i, t, j)' <=> HumanAsserted(i, t, j)
  BY <1>1 DEF HumanAsserted, ActiveEdges, Edges
<1>4. \A i, j : CanRelate(i, j)' <=> CanRelate(i, j)
  BY <1>1 DEF CanRelate
<1>5. \A i, j : BothPresent(i, j)' <=> BothPresent(i, j)
  BY <1>1 DEF BothPresent
<1> QED BY <1>1, <1>2, <1>3, <1>4, <1>5 DEF Valid

(* An acceptance begins with what it finds.                                *)
LEMMA BeginStep ==
    ASSUME OneProcess, GatewayInv, NEW a \in Processes, NEW q \in ProposalIds, BeginAccept(a, q)
    PROVE  GatewayInv' /\ Final
<1> DEFINE held == [id |-> q, valid |-> Valid(proposal[q].payload)]
<1>1. /\ q \in Pending /\ accepting' = [accepting EXCEPT ![a] = held]
      /\ UNCHANGED memoryVars
      /\ UNCHANGED <<proposal, derivation, evidence, conflict, effects>>
  BY DEF BeginAccept
<1>2. held \in Held
  <2>1. Valid(proposal[q].payload) \in BOOLEAN
    BY DEF Valid
  <2> QED BY <2>1 DEF Held
<1>3. accepting' \in [Processes -> Held \cup {Idle}]
  BY <1>1, <1>2 DEF GatewayInv, ProposalInv
<1>4. MemoryInv'
  BY <1>1, TablesKeep, OrphansBefore DEF GatewayInv
<1>5. ProposalInv' /\ Final
  BY <1>1, <1>3, RestDecides DEF GatewayInv
<1>6. HeldStands'
  <2> SUFFICES ASSUME NEW b \in Processes, accepting'[b] # Idle
               PROVE  /\ accepting'[b].id \in Pending'
                      /\ \A p \in Payloads : accepting'[b].valid /\ p = proposal'[accepting'[b].id].payload
                                              => Valid(p)'
    BY DEF HeldStands
  <2>1. b = a /\ accepting'[b] = held
    BY <1>1 DEF OneProcess, GatewayInv, ProposalInv
  <2>2. Pending' = Pending /\ accepting'[b].id = q /\ accepting'[b].valid = Valid(proposal[q].payload)
    BY <1>1, <2>1 DEF Pending, Recorded
  <2>3. ASSUME NEW p \in Payloads, Valid(proposal[q].payload), p = proposal[q].payload
        PROVE  Valid(p)'
    <3>1. Valid(p)
      BY <2>3
    <3> QED BY <1>1, <3>1, ValidStands
  <2> QED BY <1>1, <2>1, <2>2, <2>3
<1> QED BY <1>4, <1>5, <1>6 DEF GatewayInv

(* And ends in one of three ways.                                          *)
LEMMA EndSteps ==
    ASSUME OneProcess, GatewayInv, NEW a \in Processes,
           RefuseAccept(a) \/ FinishAccept(a) \/ AbandonAccept(a)
    PROVE  GatewayInv' /\ Final
<1> DEFINE q == accepting[a].id
<1>1. Accepting(a)
  BY DEF RefuseAccept, FinishAccept, AbandonAccept
<1>2. /\ HeldStands' /\ accepting' \in [Processes -> Held \cup {Idle}]
      /\ q \in Pending /\ (accepting[a].valid => Valid(proposal[q].payload))
  <2>1. /\ HeldStands' /\ accepting' \in [Processes -> Held \cup {Idle}]
        /\ q \in Pending
    BY <1>1, NobodyInBetween DEF GatewayInv, ProposalInv, HeldStands, Accepting
  <2>2. proposal[q].payload \in Payloads
    BY <2>1 DEF GatewayInv, ProposalInv, Pending
  <2> QED BY <1>1, <2>1, <2>2 DEF GatewayInv, HeldStands, Accepting
<1>3. proposal[q].payload \in Payloads
  BY <1>2 DEF GatewayInv, ProposalInv, Pending
<1>4. {"invalid", "accepted"} \subseteq Statuses
  BY DEF Statuses
<1> HIDE DEF q
<1>5. CASE RefuseAccept(a)
  <2>1. /\ Decide(q, "invalid") /\ UNCHANGED memoryVars
        /\ UNCHANGED <<derivation, evidence, conflict, effects>>
    BY <1>5 DEF RefuseAccept, q
  <2>2. MemoryInv'
    BY <2>1, TablesKeep, OrphansBefore DEF GatewayInv
  <2>3. ProposalInv' /\ Final
    BY <1>2, <1>4, <2>1, DecidingDecides DEF GatewayInv
  <2> QED BY <1>2, <2>2, <2>3 DEF GatewayInv
<1>6. CASE FinishAccept(a)
  <2>1. /\ accepting[a].valid /\ ApplyOp(proposal[q].payload) /\ Decide(q, "accepted")
        /\ effects' = [effects EXCEPT ![q] = @ + 1]
    BY <1>6 DEF FinishAccept, Apply, q
  <2>2. MemoryInv'
    BY <1>2, <1>3, <2>1, ApplyKeeps DEF GatewayInv
  <2>3. ProposalInv' /\ Final
    BY <1>2, <1>4, <2>1, DecidingDecides DEF GatewayInv
  <2> QED BY <1>2, <2>2, <2>3 DEF GatewayInv
<1>7. CASE AbandonAccept(a)
  <2>1. UNCHANGED memoryVars /\ UNCHANGED <<proposal, derivation, evidence, conflict, effects>>
    BY <1>7 DEF AbandonAccept
  <2>2. MemoryInv'
    BY <2>1, TablesKeep, OrphansBefore DEF GatewayInv
  <2>3. ProposalInv' /\ Final
    BY <1>2, <2>1, RestDecides DEF GatewayInv
  <2> QED BY <1>2, <2>2, <2>3 DEF GatewayInv
<1> QED BY <1>5, <1>6, <1>7

(* The rest decides, or resolves, without a write to memory.               *)
LEMMA OtherSteps ==
    ASSUME OneProcess, GatewayInv, NEW a \in Processes,
           \/ \E q \in ProposalIds : Decline(a, q)
           \/ ExpireStale(a)
           \/ \E c \in conflict : ResolveConflict(a, c)
    PROVE  GatewayInv' /\ Final
<1>1. /\ accepting[a] = Idle /\ accepting' = accepting /\ effects' = effects
      /\ UNCHANGED memoryVars /\ derivation' = derivation /\ evidence' = evidence
      /\ conflict' \subseteq conflict
  BY DEF Decline, ExpireStale, ResolveConflict
<1>2. MemoryInv'
  BY <1>1, TablesKeep, OrphansBefore DEF GatewayInv
<1>3. HeldStands' /\ accepting' \in [Processes -> Held \cup {Idle}]
  BY <1>1, NobodyInBetween DEF GatewayInv, ProposalInv
<1>4. ProposalInv' /\ Final
  <2>1. CASE \E q \in ProposalIds : Decline(a, q)
    <3>1. \E q \in Pending : Decide(q, "rejected")
      BY <2>1 DEF Decline
    <3>2. "rejected" \in Statuses /\ "rejected" # "accepted"
      BY DEF Statuses
    <3> QED BY <1>1, <1>3, <3>1, <3>2, DecidingDecides DEF GatewayInv
  <2>2. CASE ExpireStale(a)
    BY <2>2, ExpiringDecides DEF GatewayInv
  <2>3. CASE \E c \in conflict : ResolveConflict(a, c)
    BY <1>1, <1>3, <2>3, RestDecides DEF GatewayInv, ResolveConflict
  <2> QED BY <2>1, <2>2, <2>3
<1> QED BY <1>2, <1>3, <1>4 DEF GatewayInv

(* Every step of the gateway and of the memory under it.                   *)
LEMMA GatewaySteps ==
    ASSUME OneProcess, GatewayInv, [Next]_vars
    PROVE  GatewayInv' /\ (Final \/ UNCHANGED vars)
<1>1. CASE Next
  BY <1>1, PersonSteps, ProposeSteps, BeginStep, EndSteps, OtherSteps DEF Next
<1>2. CASE UNCHANGED vars
  <2>1. UNCHANGED memoryVars /\ UNCHANGED <<proposal, derivation, evidence, conflict, effects, accepting>>
    BY <1>2 DEF vars, gatewayVars
  <2>2. MemoryInv'
    BY <2>1, TablesKeep, OrphansBefore DEF GatewayInv
  <2>3. ProposalInv'
    BY <2>1, RestDecides DEF GatewayInv, ProposalInv
  <2>4. HeldStands'
    <3>1. Pending' = Pending /\ accepting' = accepting /\ proposal' = proposal
      BY <2>1 DEF Pending, Recorded
    <3>2. \A p \in Payloads : Valid(p)' <=> Valid(p)
      BY <2>1, ValidStands
    <3> QED BY <3>1, <3>2 DEF GatewayInv, HeldStands
  <2> QED BY <1>2, <2>2, <2>3, <2>4 DEF GatewayInv
<1> QED BY <1>1, <1>2

(* An empty memory with no proposals.                                      *)
LEMMA GatewayInit == Init => GatewayInv
<1> SUFFICES ASSUME Init PROVE GatewayInv
  OBVIOUS
<1>1. ObjectInv /\ Present = {}
  BY InitInv DEF Init, ObjectInit, Present
<1>2. EdgesInv /\ Edges = {}
  BY EdgesInit DEF Init, RelationInit, Edges
<1>3. MemoryInv
  BY <1>1, <1>2 DEF Init, MemoryInv, HumanWorkStands, HumanEdgesStand, HumanWordStands, NothingIsOrphaned
<1>4. Recorded = {}
  BY DEF Init, Recorded
<1>5. ProposalInv /\ HeldStands
  BY <1>4 DEF Init, ProposalInv, AppliedIffAccepted, HeldStands
<1> QED BY <1>3, <1>5 DEF GatewayInv

(* The inductive invariant, where one process serves the database.         *)
THEOREM GatewayInvariant == ASSUME OneProcess PROVE Spec => []GatewayInv
<1>1. GatewayInv /\ [Next]_vars => GatewayInv'
  BY GatewaySteps
<1> QED BY <1>1, GatewayInit, PTL DEF Spec

(* What humans asserted of two objects, and the words they confirmed, only *)
(* humans change, however stale a proposal is when it is accepted.         *)
THEOREM HumansKeepTheirWork == ASSUME OneProcess PROVE Spec => []HumanWorkStands
<1>1. GatewayInv => HumanWorkStands
  BY DEF GatewayInv, MemoryInv
<1> QED BY <1>1, GatewayInvariant, PTL

(* A proposal has its effect once if it is accepted, and never otherwise.  *)
THEOREM AppliedOnce == ASSUME OneProcess PROVE Spec => []AppliedIffAccepted
<1>1. GatewayInv => AppliedIffAccepted
  BY DEF GatewayInv, ProposalInv
<1> QED BY <1>1, GatewayInvariant, PTL

(* Provenance, evidence and conflicts are about objects that are there.    *)
THEOREM NothingLeftBehind == ASSUME OneProcess PROVE Spec => []NothingIsOrphaned
<1>1. GatewayInv => NothingIsOrphaned
  BY DEF GatewayInv, MemoryInv
<1> QED BY <1>1, GatewayInvariant, PTL

(* What is decided of a proposal is never decided otherwise.               *)
THEOREM DecisionsStayFinal == ASSUME OneProcess PROVE Spec => DecisionsAreFinal
<1>1. GatewayInv /\ [Next]_vars => [Final]_vars
  BY GatewaySteps
<1> QED BY <1>1, GatewayInvariant, PTL DEF Spec, DecisionsAreFinal
=============================================================================
