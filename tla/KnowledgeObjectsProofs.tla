---------------------- MODULE KnowledgeObjectsProofs ----------------------
(***************************************************************************)
(* Proofs about KnowledgeObjects, for any identifiers, contents, origins   *)
(* and bounds.                                                             *)
(*                                                                         *)
(* Every operation of objects.js but create, purge and the clock is an     *)
(* Update of one row by a row of the same object that differs only in what *)
(* a patch may touch.  Lemma StepShape says so; after it four kinds of     *)
(* step are left, and each preserves the inductive invariant ObjectInv.    *)
(***************************************************************************)
EXTENDS KnowledgeObjects, WellFoundedInduction, FiniteSetTheorems, SequenceTheorems, TLAPS

(* The bookkeeping the other invariants lean on: an object that is present *)
(* has been logged about, so a fresh identifier is not a present one.      *)
PresentIsUsed == \A i \in Present : event[i] # <<>>

ObjectInv == /\ ObjectTypeOK
             /\ HistoryMatchesHead
             /\ SupersededByIsPresent
             /\ PresentIsUsed

(* What a patch may do to a row. *)
PatchOf(i, next) == /\ next \in Row
                    /\ next.origin = object[i].origin
                    /\ next.head_version = object[i].head_version
                    /\ next.superseded_by \in Present \cup {NoObject}

(* What the operation logs after update() did. *)
Also(kind) == IF kind = "supersede" THEN <<"KnowledgeSuperseded">> ELSE <<>>

Patches(i) == \E next \in Row, kind \in ChangeKinds \ {"create"}, also \in Seq(EventTypes) :
                 /\ also = Also(kind)
                 /\ PatchOf(i, next)
                 /\ Update(i, next, kind, also)

(* The operations that patch a row. *)
Changes(i) == \/ Edit(i) \/ Confirm(i) \/ Reject(i) \/ Archive(i) \/ Restore(i) \/ Remove(i)
              \/ \E new \in ObjectIds : Supersede(i, new)

(* Every operation that changes an object does it by one patch of its row. *)
LEMMA ChangesArePatches ==
  ASSUME ObjectTypeOK, SupersededByIsPresent, NEW o \in ObjectIds, Changes(o)
  PROVE  o \in Present /\ Patches(o)
<1>1. ASSUME NEW i \in ObjectIds, i \in Present
      PROVE  /\ object[i] \in Row
             /\ object[i].superseded_by \in Present \cup {NoObject}
             /\ Present \subseteq ObjectIds
             /\ clock \in Nat
  BY <1>1 DEF ObjectTypeOK, SupersededByIsPresent
<1>none. <<>> \in Seq(EventTypes)
  OBVIOUS
<1>2. ASSUME NEW i \in ObjectIds, Edit(i) PROVE i \in Present /\ Patches(i)
  <2>1. i \in Present BY <1>2 DEF Edit
  <2>2. PICK next \in Patched(i) : Update(i, next, "edit", <<>>)
    BY <1>2 DEF Edit
  <2>3. next \in Row /\ PatchOf(i, next)
    <3>1. \/ \E c \in Contents : next = [object[i] EXCEPT !.content = c]
          \/ \E r \in Reviews : next = [object[i] EXCEPT !.review = r]
          \/ \E s \in States : next = [object[i] EXCEPT !.state = s]
          \/ \E j \in Present \cup {NoObject} :
                next = [object[i] EXCEPT !.superseded_by = j]
          \/ \E t \in {0, clock} : next = [object[i] EXCEPT !.valid_until = t]
      BY <2>2 DEF Patched
    <3> QED BY <1>1, <2>1, <3>1 DEF PatchOf, Row
  <2> QED BY <2>1, <2>2, <2>3, <1>none DEF Patches, ChangeKinds, Also
<1>3. ASSUME NEW i \in ObjectIds, Confirm(i) PROVE i \in Present /\ Patches(i)
  <2> DEFINE next == [object[i] EXCEPT !.review = "confirmed"]
  <2>1. i \in Present /\ Update(i, next, "confirm", <<>>) BY <1>3 DEF Confirm
  <2>2. next \in Row /\ PatchOf(i, next)
    BY <1>1, <2>1 DEF PatchOf, Row, Reviews
  <2> QED BY <2>1, <2>2, <1>none DEF Patches, ChangeKinds, Also
<1>4. ASSUME NEW i \in ObjectIds, Reject(i) PROVE i \in Present /\ Patches(i)
  <2> DEFINE next == [object[i] EXCEPT !.review = "rejected", !.state = "archived"]
  <2>1. i \in Present /\ Update(i, next, "reject", <<>>) BY <1>4 DEF Reject
  <2>2. next \in Row /\ PatchOf(i, next)
    BY <1>1, <2>1 DEF PatchOf, Row, Reviews, States
  <2> QED BY <2>1, <2>2, <1>none DEF Patches, ChangeKinds, Also
<1>5. ASSUME NEW i \in ObjectIds, Archive(i) PROVE i \in Present /\ Patches(i)
  <2> DEFINE next == [object[i] EXCEPT !.state = "archived"]
  <2>1. i \in Present /\ Update(i, next, "archive", <<>>) BY <1>5 DEF Archive
  <2>2. next \in Row /\ PatchOf(i, next)
    BY <1>1, <2>1 DEF PatchOf, Row, States
  <2> QED BY <2>1, <2>2, <1>none DEF Patches, ChangeKinds, Also
<1>6. ASSUME NEW i \in ObjectIds, Restore(i) PROVE i \in Present /\ Patches(i)
  <2> DEFINE next == [object[i] EXCEPT !.state = "active"]
  <2>1. i \in Present /\ Update(i, next, "restore", <<>>) BY <1>6 DEF Restore
  <2>2. next \in Row /\ PatchOf(i, next)
    BY <1>1, <2>1 DEF PatchOf, Row, States
  <2> QED BY <2>1, <2>2, <1>none DEF Patches, ChangeKinds, Also
<1>7. ASSUME NEW i \in ObjectIds, Remove(i) PROVE i \in Present /\ Patches(i)
  <2> DEFINE next == [object[i] EXCEPT !.state = "deleted"]
  <2>1. i \in Present /\ Update(i, next, "delete", <<>>) BY <1>7 DEF Remove
  <2>2. next \in Row /\ PatchOf(i, next)
    BY <1>1, <2>1 DEF PatchOf, Row, States
  <2> QED BY <2>1, <2>2, <1>none DEF Patches, ChangeKinds, Also
<1>8. ASSUME NEW old \in ObjectIds, NEW new \in ObjectIds, Supersede(old, new)
      PROVE  old \in Present /\ Patches(old)
  <2> DEFINE next == [object[old] EXCEPT !.state = "superseded", !.superseded_by = new,
                                         !.valid_until = clock]
             also == <<"KnowledgeSuperseded">>
  <2>1. /\ old \in Present /\ new \in Present
        /\ Update(old, next, "supersede", also)
    BY <1>8 DEF Supersede
  <2>2. next \in Row /\ PatchOf(old, next)
    BY <1>1, <2>1 DEF PatchOf, Row, States
  <2>3. also \in Seq(EventTypes) BY DEF EventTypes
  <2> QED BY <2>1, <2>2, <2>3 DEF Patches, ChangeKinds, Also
<1> QED BY <1>2, <1>3, <1>4, <1>5, <1>6, <1>7, <1>8 DEF Changes

(* A step makes an object, patches one, erases one, or only passes time.   *)
LEMMA StepShape ==
  ASSUME ObjectTypeOK, SupersededByIsPresent, ObjectNext
  PROVE  \/ \E i \in ObjectIds, c \in Contents, o \in Origins : Create(i, c, o)
         \/ \E i \in ObjectIds : i \in Present /\ Patches(i)
         \/ \E i \in ObjectIds : Purge(i)
         \/ Tick
<1>1. ASSUME NEW i \in ObjectIds, Changes(i) PROVE i \in Present /\ Patches(i)
  BY <1>1, ChangesArePatches
<1> QED BY <1>1 DEF ObjectNext, Changes
-----------------------------------------------------------------------------
(* The version a row is recorded as.                                       *)
LEMMA SnapshotType ==
  ASSUME NEW next \in Row, NEW kind \in ChangeKinds, clock \in Nat
  PROVE  /\ Snapshot(next, kind) \in VersionRow
         /\ Snapshot(next, kind).origin = next.origin
         /\ Snapshot(next, kind).recorded_at = clock
         /\ Agrees(Snapshot(next, kind), next)
BY DEF Snapshot, Row, VersionRow, Agrees

(* A row whose head moves by one.                                          *)
LEMMA BumpedType ==
  ASSUME NEW next \in Row
  PROVE  /\ Bumped(next) \in Row
         /\ Bumped(next).head_version = next.head_version + 1
         /\ Bumped(next).origin = next.origin
         /\ Bumped(next).superseded_by = next.superseded_by
         /\ \A v : Agrees(v, next) => Agrees(v, Bumped(next))
BY DEF Bumped, Row, Agrees

(* What an Update that writes a version does to the three tables. *)
LEMMA UpdateEffect ==
  ASSUME ObjectTypeOK, NEW i \in Present, Patches(i)
  PROVE  /\ Present' = Present
         /\ clock' = clock
         /\ \E log \in Seq(EventTypes) :
               event' = [event EXCEPT ![i] = @ \o log]
         /\ \/ object' = object /\ object_version' = object_version
            \/ \E next \in Row, v \in VersionRow :
                 /\ PatchOf(i, next)
                 /\ Agrees(v, next) /\ v.recorded_at = clock
                 /\ object' = [object EXCEPT ![i] = Bumped(next)]
                 /\ object_version' = [object_version EXCEPT ![i] = Append(@, v)]
<1>1. PICK next \in Row, kind \in ChangeKinds, also \in Seq(EventTypes) :
         PatchOf(i, next) /\ Update(i, next, kind, also)
  BY DEF Patches
<1>2. clock' = clock /\ clock \in Nat
  BY <1>1 DEF Update, ObjectTypeOK
<1>3. EventForChange(kind) \in EventTypes
  BY DEF EventForChange, EventTypes, ChangeKinds
<1>4. <<EventForChange(kind)>> \o also \in Seq(EventTypes)
  BY <1>3
<1>5. CASE Differs(object[i], next)
  <2>1. /\ object' = [object EXCEPT ![i] = Bumped(next)]
        /\ WriteVersion(i, next, kind)
        /\ Log(i, <<EventForChange(kind)>> \o also)
    BY <1>1, <1>5 DEF Update
  <2>2. Present' = Present BY <2>1 DEF Present
  <2>3. \E log \in Seq(EventTypes) : event' = [event EXCEPT ![i] = @ \o log]
    BY <2>1, <1>4 DEF Log
  <2>4. /\ Snapshot(next, kind) \in VersionRow
        /\ Agrees(Snapshot(next, kind), next)
        /\ Snapshot(next, kind).recorded_at = clock
    BY <1>2, SnapshotType
  <2> QED BY <1>1, <1>2, <2>1, <2>2, <2>3, <2>4 DEF WriteVersion
<1>6. CASE ~Differs(object[i], next)
  <2>1. object' = object /\ object_version' = object_version /\ Log(i, also)
    BY <1>1, <1>6 DEF Update
  <2> QED BY <1>2, <2>1 DEF Log, Present
<1> QED BY <1>5, <1>6

(* One more row at the end of a history keeps what is said of histories. *)
LEMMA AppendKeepsOrder ==
  ASSUME NEW h \in Seq(VersionRow), NEW v \in VersionRow, NEW origin,
         h # <<>>, v.origin = origin,
         h[Len(h)].recorded_at <= v.recorded_at,
         \A n \in DOMAIN h :
            /\ h[n].origin = origin
            /\ n > 1 => h[n-1].recorded_at <= h[n].recorded_at
  PROVE  /\ Len(Append(h, v)) = Len(h) + 1
         /\ Append(h, v)[Len(Append(h, v))] = v
         /\ \A n \in DOMAIN Append(h, v) :
               /\ Append(h, v)[n].origin = origin
               /\ n > 1 => Append(h, v)[n-1].recorded_at <= Append(h, v)[n].recorded_at
<1> DEFINE g == Append(h, v)
<1>1. Len(h) \in Nat /\ Len(h) > 0 /\ DOMAIN h = 1..Len(h)
  OBVIOUS
<1>2. Len(g) = Len(h) + 1 /\ DOMAIN g = 1..(Len(h) + 1) /\ g[Len(h) + 1] = v
  OBVIOUS
<1>3. \A n \in 1..Len(h) : g[n] = h[n]
  OBVIOUS
<1> HIDE DEF g
<1>4. ASSUME NEW n \in DOMAIN g
      PROVE  g[n].origin = origin /\ (n > 1 => g[n-1].recorded_at <= g[n].recorded_at)
  <2>1. CASE n = Len(h) + 1
    BY <1>1, <1>2, <1>3, <2>1
  <2>2. CASE n \in 1..Len(h)
    <3>1. n > 1 => n - 1 \in 1..Len(h) BY <1>1, <2>2
    <3> QED BY <1>1, <1>3, <2>2, <3>1
  <2> QED BY <1>1, <1>2, <1>4, <2>1, <2>2
<1> QED BY <1>2, <1>4 DEF g
-----------------------------------------------------------------------------
(* A present object has a version, its latest one. *)
LEMMA PresentHasVersions ==
  ASSUME ObjectTypeOK, HistoryMatchesHead, NEW i \in Present
  PROVE  /\ i \in ObjectIds
         /\ object[i] \in Row
         /\ object_version[i] \in Seq(VersionRow)
         /\ object_version[i] # <<>>
         /\ Latest(i) \in VersionRow
<1>1. i \in ObjectIds /\ object[i] \in Row /\ object_version[i] \in Seq(VersionRow)
  BY DEF ObjectTypeOK
<1>2. Len(object_version[i]) = object[i].head_version
  BY <1>1 DEF HistoryMatchesHead
<1>3. Len(object_version[i]) > 0
  BY <1>1, <1>2 DEF Row
<1> QED BY <1>1, <1>3 DEF Latest

(* No objects yet.                                                         *)
LEMMA InitInv == ObjectInit => ObjectInv
<1> SUFFICES ASSUME ObjectInit PROVE ObjectInv
  OBVIOUS
<1>1. Present = {} BY DEF ObjectInit, Present
<1>2. ObjectTypeOK BY <1>1 DEF ObjectInit, ObjectTypeOK, Present
<1>3. HistoryMatchesHead BY <1>1 DEF ObjectInit, HistoryMatchesHead
<1> QED BY <1>1, <1>2, <1>3 DEF ObjectInv, SupersededByIsPresent, PresentIsUsed

(* A new object begins with version one.                                   *)
LEMMA CreateKeepsInv ==
  ASSUME ObjectInv, NEW i \in ObjectIds, NEW c \in Contents, NEW o \in Origins,
         Create(i, c, o)
  PROVE  ObjectInv'
<1> USE DEF ObjectInv
<1> DEFINE row == NewRow(c, o)
           v == Snapshot(row, "create")
<1>1. i \notin Present /\ object_version[i] = <<>> /\ event[i] = <<>>
  BY DEF Create, Unused, PresentIsUsed, HistoryMatchesHead
<1>2. /\ object' = [j \in Present \cup {i} |-> IF j = i THEN row ELSE object[j]]
      /\ object_version' = [object_version EXCEPT ![i] = Append(@, v)]
      /\ event' = [event EXCEPT ![i] = @ \o <<"KnowledgeCaptured">>]
      /\ clock' = clock
  BY DEF Create, WriteVersion, Log
<1>3. row \in Row /\ row.head_version = 1 /\ row.superseded_by = NoObject /\ row.origin = o
  BY DEF NewRow, Row, Reviews, States
<1>4. v \in VersionRow /\ v.origin = row.origin /\ v.recorded_at = clock /\ Agrees(v, row)
  BY <1>3, SnapshotType DEF ObjectTypeOK, ChangeKinds
<1> HIDE DEF row, v
<1>5. Present' = Present \cup {i} BY <1>2 DEF Present
<1>6. object'[i] = row /\ \A j \in Present : object'[j] = object[j]
  BY <1>1, <1>2
<1>7. object_version'[i] = <<v>> /\ \A j \in ObjectIds \ {i} : object_version'[j] = object_version[j]
  BY <1>1, <1>2 DEF ObjectTypeOK
<1>8. event'[i] = <<"KnowledgeCaptured">> /\ \A j \in ObjectIds \ {i} : event'[j] = event[j]
  BY <1>1, <1>2 DEF ObjectTypeOK
<1>9. ObjectTypeOK'
  <2>1. object_version' \in [ObjectIds -> Seq(VersionRow)]
    BY <1>2, <1>4, <1>7 DEF ObjectTypeOK
  <2>2. event' \in [ObjectIds -> Seq(EventTypes)]
    BY <1>2, <1>8 DEF ObjectTypeOK, EventTypes
  <2>3. object' = [j \in Present' |-> object'[j]] BY <1>2, <1>5
  <2>4. \A j \in Present' : object'[j] \in Row BY <1>3, <1>5, <1>6 DEF ObjectTypeOK
  <2> QED BY <1>2, <1>5, <2>1, <2>2, <2>3, <2>4 DEF ObjectTypeOK
<1>10. HistoryMatchesHead'
  <2>1. ASSUME NEW j \in ObjectIds, j # i
        PROVE  /\ j \in Present' <=> j \in Present
               /\ object_version'[j] = object_version[j]
               /\ Latest(j)' = Latest(j)
               /\ j \in Present => object'[j] = object[j]
    BY <1>5, <1>6, <1>7, <2>1 DEF Latest
  <2>2. /\ Len(object_version'[i]) = object'[i].head_version
        /\ Agrees(Latest(i)', object'[i])
        /\ Latest(i)'.recorded_at <= clock'
        /\ \A n \in DOMAIN object_version'[i] :
             /\ object_version'[i][n].origin = object'[i].origin
             /\ n > 1 => object_version'[i][n-1].recorded_at <= object_version'[i][n].recorded_at
    BY <1>2, <1>3, <1>4, <1>6, <1>7 DEF Latest, ObjectTypeOK
  <2>3. ASSUME NEW j \in ObjectIds, j # i
        PROVE  IF j \in Present
               THEN /\ Len(object_version[j]) = object[j].head_version
                    /\ Agrees(Latest(j), object[j])
                    /\ Latest(j).recorded_at <= clock
                    /\ \A n \in DOMAIN object_version[j] :
                         /\ object_version[j][n].origin = object[j].origin
                         /\ n > 1 => object_version[j][n-1].recorded_at
                                        <= object_version[j][n].recorded_at
               ELSE object_version[j] = <<>>
    BY DEF HistoryMatchesHead
  <2>4. i \in Present' BY <1>5
  <2>5. ASSUME NEW j \in ObjectIds
        PROVE  IF j \in Present'
               THEN /\ Len(object_version'[j]) = object'[j].head_version
                    /\ Agrees(Latest(j)', object'[j])
                    /\ Latest(j)'.recorded_at <= clock'
                    /\ \A n \in DOMAIN object_version'[j] :
                         /\ object_version'[j][n].origin = object'[j].origin
                         /\ n > 1 => object_version'[j][n-1].recorded_at
                                        <= object_version'[j][n].recorded_at
               ELSE object_version'[j] = <<>>
    <3>1. CASE j = i BY <2>2, <2>4, <3>1
    <3>2. CASE j # i
      <4>1. /\ j \in Present' <=> j \in Present
            /\ object_version'[j] = object_version[j]
            /\ j \in Present => object'[j] = object[j]
        BY <2>1, <3>2
      <4>2. CASE j \in Present BY <1>2, <2>3, <3>2, <4>1, <4>2 DEF Latest, Agrees
      <4>3. CASE j \notin Present BY <2>3, <3>2, <4>1, <4>3
      <4> QED BY <4>2, <4>3
    <3> QED BY <3>1, <3>2
  <2> QED BY <2>5 DEF HistoryMatchesHead, Agrees
<1>11. SupersededByIsPresent'
  BY <1>3, <1>5, <1>6 DEF SupersededByIsPresent
<1>12. PresentIsUsed'
  <2>1. event'[i] # <<>> BY <1>8
  <2>2. \A j \in Present : event'[j] # <<>>
    BY <1>1, <1>8 DEF PresentIsUsed, ObjectTypeOK
  <2> QED BY <1>5, <2>1, <2>2 DEF PresentIsUsed
<1> QED BY <1>9, <1>10, <1>11, <1>12

(* A patch records the version it moves the head to.                       *)
LEMMA UpdateKeepsInv ==
  ASSUME ObjectInv, NEW i \in Present, Patches(i)
  PROVE  ObjectInv'
<1> USE DEF ObjectInv
<1>1. /\ i \in ObjectIds /\ object[i] \in Row
      /\ object_version[i] \in Seq(VersionRow) /\ object_version[i] # <<>>
      /\ Latest(i) \in VersionRow
  BY PresentHasVersions
<1>2. Present' = Present /\ clock' = clock
  BY UpdateEffect
<1>3. PICK log \in Seq(EventTypes) : event' = [event EXCEPT ![i] = @ \o log]
  BY UpdateEffect
<1>4. event' \in [ObjectIds -> Seq(EventTypes)] /\ PresentIsUsed'
  <2>1. event[i] \in Seq(EventTypes) /\ event[i] # <<>>
    BY <1>1 DEF ObjectTypeOK, PresentIsUsed
  <2>2. event[i] \o log \in Seq(EventTypes) /\ event[i] \o log # <<>>
    BY <2>1
  <2>3. event'[i] # <<>> /\ \A j \in ObjectIds \ {i} : event'[j] = event[j]
    BY <1>1, <1>3, <2>2 DEF ObjectTypeOK
  <2> QED BY <1>1, <1>2, <1>3, <2>2, <2>3 DEF ObjectTypeOK, PresentIsUsed
<1>5. CASE object' = object /\ object_version' = object_version
  BY <1>2, <1>4, <1>5 DEF ObjectTypeOK, HistoryMatchesHead, Latest, SupersededByIsPresent
<1>6. CASE ~(object' = object /\ object_version' = object_version)
  <2>1. PICK next \in Row, v \in VersionRow :
           /\ PatchOf(i, next)
           /\ Agrees(v, next) /\ v.recorded_at = clock
           /\ object' = [object EXCEPT ![i] = Bumped(next)]
           /\ object_version' = [object_version EXCEPT ![i] = Append(@, v)]
    BY <1>6, UpdateEffect
  <2>2. /\ Bumped(next) \in Row
        /\ Bumped(next).head_version = object[i].head_version + 1
        /\ Bumped(next).origin = object[i].origin
        /\ Bumped(next).superseded_by \in Present \cup {NoObject}
        /\ Agrees(v, Bumped(next))
        /\ v.origin = object[i].origin
    BY <2>1, BumpedType DEF PatchOf, Agrees
  <2>3. /\ object'[i] = Bumped(next)
        /\ \A j \in Present \ {i} : object'[j] = object[j]
        /\ object' = [j \in Present |-> object'[j]]
    BY <2>1 DEF ObjectTypeOK
  <2>4. /\ object_version'[i] = Append(object_version[i], v)
        /\ \A j \in ObjectIds \ {i} : object_version'[j] = object_version[j]
        /\ object_version' \in [ObjectIds -> Seq(VersionRow)]
    BY <1>1, <2>1 DEF ObjectTypeOK
  <2>5. ObjectTypeOK'
    BY <1>2, <1>4, <2>2, <2>3, <2>4 DEF ObjectTypeOK
  <2>6. /\ Len(object_version'[i]) = object'[i].head_version
        /\ Latest(i)' = v
        /\ \A n \in DOMAIN object_version'[i] :
             /\ object_version'[i][n].origin = object'[i].origin
             /\ n > 1 => object_version'[i][n-1].recorded_at <= object_version'[i][n].recorded_at
    <3>1. /\ Len(object_version[i]) = object[i].head_version
          /\ Latest(i).recorded_at <= clock
          /\ \A n \in DOMAIN object_version[i] :
               /\ object_version[i][n].origin = object[i].origin
               /\ n > 1 => object_version[i][n-1].recorded_at <= object_version[i][n].recorded_at
      BY <1>1 DEF HistoryMatchesHead
    <3> DEFINE h == object_version[i]
               g == Append(h, v)
    <3>2. h[Len(h)].recorded_at <= v.recorded_at
      BY <2>1, <3>1 DEF Latest
    <3>3. /\ Len(g) = Len(h) + 1 /\ g[Len(g)] = v
          /\ \A n \in DOMAIN g :
               /\ g[n].origin = object[i].origin
               /\ n > 1 => g[n-1].recorded_at <= g[n].recorded_at
      <4> HIDE DEF g
      <4> QED BY <1>1, <2>2, <3>1, <3>2, AppendKeepsOrder DEF g
    <3>4. object_version'[i] = g BY <2>4
    <3> HIDE DEF g
    <3> QED BY <2>2, <2>3, <3>1, <3>3, <3>4 DEF Latest
  <2>7. HistoryMatchesHead'
    <3>1. ASSUME NEW j \in ObjectIds, j # i
          PROVE  /\ object_version'[j] = object_version[j]
                 /\ Latest(j)' = Latest(j)
                 /\ j \in Present => object'[j] = object[j]
      BY <2>3, <2>4, <3>1 DEF Latest
    <3>2. Agrees(Latest(i)', object'[i]) /\ Latest(i)'.recorded_at <= clock'
      BY <1>2, <2>1, <2>2, <2>3, <2>6 DEF ObjectTypeOK
    <3> QED BY <1>2, <2>6, <3>1, <3>2 DEF HistoryMatchesHead, Agrees
  <2>8. SupersededByIsPresent'
    BY <1>2, <2>2, <2>3 DEF SupersededByIsPresent
  <2> QED BY <1>4, <2>5, <2>7, <2>8
<1> QED BY <1>5, <1>6

(* An erased object takes its versions with it.                            *)
LEMMA PurgeKeepsInv ==
  ASSUME ObjectInv, NEW i \in ObjectIds, Purge(i)
  PROVE  ObjectInv'
<1> USE DEF ObjectInv
<1>1. /\ i \in Present /\ clock' = clock
      /\ object' = WithoutLinkTo(i)
      /\ object_version' = [object_version EXCEPT ![i] = <<>>]
      /\ event' = [event EXCEPT ![i] = @ \o <<"Purged">>]
  BY DEF Purge, Log
<1>2. Present' = Present \ {i}
  BY <1>1 DEF Present, WithoutLinkTo
<1>3. ASSUME NEW j \in Present \ {i}
      PROVE  /\ object'[j] \in Row
             /\ object'[j].head_version = object[j].head_version
             /\ object'[j].origin = object[j].origin
             /\ object'[j].superseded_by \in (Present \ {i}) \cup {NoObject}
             /\ \A v : Agrees(v, object[j]) => Agrees(v, object'[j])
  <2>1. object[j] \in Row /\ object[j].superseded_by \in Present \cup {NoObject}
    BY DEF ObjectTypeOK, SupersededByIsPresent
  <2>2. object'[j] = IF object[j].superseded_by = i
                       THEN [object[j] EXCEPT !.superseded_by = NoObject] ELSE object[j]
    BY <1>1 DEF WithoutLinkTo
  <2>3. CASE object[j].superseded_by = i
    BY <2>1, <2>2, <2>3 DEF Row, Agrees
  <2>4. CASE object[j].superseded_by # i
    BY <2>1, <2>2, <2>4
  <2> QED BY <2>3, <2>4
<1>4. /\ object_version'[i] = <<>>
      /\ \A j \in ObjectIds \ {i} : object_version'[j] = object_version[j]
      /\ object_version' \in [ObjectIds -> Seq(VersionRow)]
  BY <1>1 DEF ObjectTypeOK
<1>5. event' \in [ObjectIds -> Seq(EventTypes)] /\ PresentIsUsed'
  <2>1. event[i] \o <<"Purged">> \in Seq(EventTypes)
    BY DEF ObjectTypeOK, EventTypes
  <2> QED BY <1>1, <1>2, <2>1 DEF ObjectTypeOK, PresentIsUsed
<1>6. ObjectTypeOK'
  <2>1. object' = [j \in Present' |-> object'[j]]
    BY <1>1, <1>2 DEF WithoutLinkTo
  <2> QED BY <1>1, <1>2, <1>3, <1>4, <1>5, <2>1 DEF ObjectTypeOK
<1>7. HistoryMatchesHead'
  <2>1. ASSUME NEW j \in ObjectIds, j # i
        PROVE  object_version'[j] = object_version[j] /\ Latest(j)' = Latest(j)
    BY <1>4, <2>1 DEF Latest
  <2> QED BY <1>1, <1>2, <1>3, <1>4, <2>1 DEF HistoryMatchesHead
<1>8. SupersededByIsPresent'
  BY <1>2, <1>3 DEF SupersededByIsPresent
<1> QED BY <1>5, <1>6, <1>7, <1>8

(* Time passes and nothing else.                                           *)
LEMMA TickKeepsInv ==
  ASSUME ObjectInv, Tick
  PROVE  ObjectInv'
<1>1. /\ object' = object /\ object_version' = object_version /\ event' = event
      /\ clock' = clock + 1 /\ clock \in Nat \ {0}
  BY DEF Tick, ObjectInv, ObjectTypeOK
<1>2. Present' = Present BY <1>1 DEF Present
<1>3. ObjectTypeOK' BY <1>1, <1>2 DEF ObjectInv, ObjectTypeOK
<1>4. HistoryMatchesHead'
  <2>1. ASSUME NEW i \in Present PROVE Latest(i)'.recorded_at <= clock'
    <3>1. Latest(i) \in VersionRow /\ Latest(i).recorded_at <= clock
      BY PresentHasVersions DEF ObjectInv, HistoryMatchesHead
    <3> QED BY <1>1, <3>1 DEF Latest, VersionRow
  <2> QED BY <1>1, <1>2, <2>1 DEF ObjectInv, HistoryMatchesHead, Latest
<1> QED BY <1>1, <1>2, <1>3, <1>4 DEF ObjectInv, SupersededByIsPresent, PresentIsUsed

(* Every operation keeps objects and versions in step.                     *)
LEMMA NextKeepsInv == ObjectInv /\ [ObjectNext]_objectVars => ObjectInv'
<1> SUFFICES ASSUME ObjectInv, [ObjectNext]_objectVars PROVE ObjectInv'
  OBVIOUS
<1>1. CASE ObjectNext
  BY <1>1, StepShape, CreateKeepsInv, UpdateKeepsInv, PurgeKeepsInv, TickKeepsInv
     DEF ObjectInv
<1>2. CASE UNCHANGED objectVars
  BY <1>2 DEF objectVars, ObjectInv, ObjectTypeOK, HistoryMatchesHead, Latest,
              SupersededByIsPresent, PresentIsUsed, Present
<1> QED BY <1>1, <1>2

(* The inductive invariant. *)
THEOREM ObjectInvariant == ObjectSpec => []ObjectInv
BY InitInv, NextKeepsInv, PTL DEF ObjectSpec

(* Every table keeps its columns and their ranges, whatever the identifiers, *)
(* contents, origins and bounds are.                                         *)
THEOREM ObjectTypeCorrect == ObjectSpec => []ObjectTypeOK
<1>1. ObjectInv => ObjectTypeOK BY DEF ObjectInv
<1> QED BY <1>1, ObjectInvariant, PTL

(* Head rows and version rows never part: see HistoryMatchesHead. *)
THEOREM HeadMatchesHistory == ObjectSpec => []HistoryMatchesHead
<1>1. ObjectInv => HistoryMatchesHead BY DEF ObjectInv
<1> QED BY <1>1, ObjectInvariant, PTL

(* No erasure leaves a forward link dangling. *)
THEOREM LinksArePresent == ObjectSpec => []SupersededByIsPresent
<1>1. ObjectInv => SupersededByIsPresent BY DEF ObjectInv
<1> QED BY <1>1, ObjectInvariant, PTL
-----------------------------------------------------------------------------
(* The refinement: each step of the tables is a step of the abstract       *)
(* history or leaves it alone.                                             *)
Erased == {i \in ObjectIds : i \notin Present /\ event[i] # <<>>}

(* To make an object is to begin a history.                                *)
LEMMA CreateBegins ==
  ASSUME ObjectInv, NEW i \in ObjectIds, NEW c \in Contents, NEW o \in Origins,
         Create(i, c, o)
  PROVE  ObjectHistory!Next
<1> DEFINE v == Snapshot(NewRow(c, o), "create")
<1>1. /\ i \notin Present /\ object_version[i] = <<>> /\ event[i] = <<>>
      /\ object_version \in [ObjectIds -> Seq(VersionRow)]
      /\ event \in [ObjectIds -> Seq(EventTypes)]
  BY DEF Create, Unused, ObjectInv, PresentIsUsed, HistoryMatchesHead, ObjectTypeOK
<1>2. /\ Present' = Present \cup {i}
      /\ object_version' = [object_version EXCEPT ![i] = Append(@, v)]
      /\ event' = [event EXCEPT ![i] = @ \o <<"KnowledgeCaptured">>]
  BY DEF Create, WriteVersion, Log, Present
<1> HIDE DEF v
<1>3. object_version'[i] = <<v>> /\ object_version'[i] # <<>> /\ Latest(i)' = v
  BY <1>1, <1>2 DEF Latest
<1>4. object_version' = [object_version EXCEPT ![i] = <<Latest(i)'>>]
  BY <1>1, <1>2, <1>3
<1>5. \A j \in ObjectIds \ {i} : event'[j] = event[j]
  BY <1>1, <1>2
<1>6. Erased' = Erased /\ i \notin Erased
  BY <1>1, <1>2, <1>5 DEF Erased
<1>7. ObjectHistory!Begin(i)
  BY <1>1, <1>3, <1>4, <1>6 DEF ObjectHistory!Begin, ObjectHistory!Latest, Latest, Erased
<1> QED BY <1>7 DEF ObjectHistory!Next

(* A patch appends to a history, or changes none.                          *)
LEMMA UpdateRecords ==
  ASSUME ObjectInv, NEW i \in Present, Patches(i)
  PROVE  ObjectHistory!Next \/ (object_version' = object_version /\ Erased' = Erased)
<1>1. /\ i \in ObjectIds /\ object_version[i] \in Seq(VersionRow)
      /\ object_version[i] # <<>>
      /\ Latest(i).origin = object[i].origin /\ Latest(i).recorded_at <= clock
  BY PresentHasVersions DEF ObjectInv, HistoryMatchesHead, Agrees
<1>2. /\ event \in [ObjectIds -> Seq(EventTypes)]
      /\ object_version \in [ObjectIds -> Seq(VersionRow)]
      /\ clock \in Nat
  BY DEF ObjectInv, ObjectTypeOK
<1>3. Erased' = Erased
  <2>1. PICK log \in Seq(EventTypes) : event' = [event EXCEPT ![i] = @ \o log]
    BY UpdateEffect DEF ObjectInv
  <2>2. \A j \in ObjectIds \ {i} : event'[j] = event[j]
    BY <1>2, <2>1
  <2>3. Present' = Present BY UpdateEffect DEF ObjectInv
  <2> QED BY <2>2, <2>3 DEF Erased
<1>4. CASE object_version' = object_version
  BY <1>3, <1>4
<1>5. CASE object_version' # object_version
  <2>1. PICK next \in Row, v \in VersionRow :
           /\ PatchOf(i, next)
           /\ Agrees(v, next) /\ v.recorded_at = clock
           /\ object_version' = [object_version EXCEPT ![i] = Append(@, v)]
    BY <1>5, UpdateEffect DEF ObjectInv
  <2>2. object_version'[i] = Append(object_version[i], v)
    BY <1>1, <1>2, <2>1
  <2>3. object_version'[i] # <<>> /\ Latest(i)' = v
    BY <1>1, <2>1, <2>2 DEF Latest
  <2>4. v.origin = Latest(i).origin /\ v.recorded_at >= Latest(i).recorded_at
    <3>1. Latest(i).recorded_at \in Nat
      BY PresentHasVersions DEF ObjectInv, VersionRow
    <3> QED BY <1>1, <1>2, <2>1, <3>1 DEF PatchOf, Agrees
  <2>5. object_version' = [object_version EXCEPT ![i] = Append(@, Latest(i)')]
    BY <2>1, <2>3
  <2>6. ObjectHistory!Record(i)
    BY <1>1, <1>3, <2>3, <2>4, <2>5
       DEF ObjectHistory!Record, ObjectHistory!Latest, Latest, Erased
  <2> QED BY <1>1, <2>6 DEF ObjectHistory!Next
<1> QED BY <1>4, <1>5

(* To erase an object is to erase its history.                             *)
LEMMA PurgeErases ==
  ASSUME ObjectInv, NEW i \in ObjectIds, Purge(i)
  PROVE  ObjectHistory!Next
<1>1. /\ i \in Present /\ object_version[i] # <<>>
      /\ event \in [ObjectIds -> Seq(EventTypes)]
      /\ object_version \in [ObjectIds -> Seq(VersionRow)]
  BY PresentHasVersions DEF ObjectInv, Purge, ObjectTypeOK
<1>2. /\ Present' = Present \ {i}
      /\ object_version' = [object_version EXCEPT ![i] = <<>>]
      /\ event' = [event EXCEPT ![i] = @ \o <<"Purged">>]
  BY DEF Purge, Log, Present, WithoutLinkTo
<1>3. event'[i] # <<>> /\ \A j \in ObjectIds \ {i} : event'[j] = event[j]
  <2>1. event[i] \o <<"Purged">> # <<>> BY <1>1 DEF EventTypes
  <2> QED BY <1>1, <1>2, <2>1
<1>4. Erased' = Erased \cup {i}
  BY <1>1, <1>2, <1>3 DEF Erased
<1>5. object_version' = [j \in ObjectIds |-> IF j \in {i} THEN <<>> ELSE object_version[j]]
  BY <1>1, <1>2
<1>6. ObjectHistory!Erase({i})
  BY <1>1, <1>4, <1>5 DEF ObjectHistory!Erase, Erased
<1> QED BY <1>6 DEF ObjectHistory!Next

(* The tables of objects.js implement the append-only history: versions    *)
(* are only ever added at the end, the origin of an object never changes,  *)
(* and only an erasure takes versions away, all of them and for good.      *)
THEOREM ObjectsImplementHistory == ObjectSpec => HistoryIsAppendOnly
<1>1. ObjectInit => ObjectHistory!Init
  <2> SUFFICES ASSUME ObjectInit PROVE ObjectHistory!Init
    OBVIOUS
  <2>1. object_version = [i \in ObjectIds |-> <<>>] /\ Erased = {}
    BY DEF ObjectInit, Erased
  <2> QED BY <2>1 DEF ObjectHistory!Init, Erased
<1>2. ObjectInv /\ [ObjectNext]_objectVars
        => [ObjectHistory!Next]_<<object_version, Erased>>
  <2> SUFFICES ASSUME ObjectInv, [ObjectNext]_objectVars
               PROVE  \/ ObjectHistory!Next
                      \/ object_version' = object_version /\ Erased' = Erased
    OBVIOUS
  <2>1. CASE ObjectNext
    <3>1. ASSUME Tick PROVE object_version' = object_version /\ Erased' = Erased
      BY <3>1 DEF Tick, Erased, Present
    <3> QED BY <2>1, <3>1, StepShape, CreateBegins, UpdateRecords, PurgeErases DEF ObjectInv
  <2>2. CASE UNCHANGED objectVars
    BY <2>2 DEF objectVars, Erased, Present
  <2> QED BY <2>1, <2>2
<1> QED BY <1>1, <1>2, ObjectInvariant, PTL
        DEF ObjectSpec, HistoryIsAppendOnly, ObjectHistory!Spec, Erased
-----------------------------------------------------------------------------
(* The past: what asOf() answers about an instant that is over.            *)

(* Bounded naturals have a greatest, for they have no endless ascent.      *)
LEMMA GreatestExists ==
  ASSUME NEW S \in SUBSET Nat, S # {}, NEW top \in Nat, \A n \in S : n <= top
  PROVE  \E n \in S : \A m \in S : m <= n
<1> DEFINE T == {k \in Nat : top - k \in S}
<1>1. T \subseteq Nat /\ T # {}
  <2>1. PICK n \in S : TRUE
    OBVIOUS
  <2>2. top - n \in T
    OBVIOUS
  <2> QED BY <2>2
<1>2. \E k \in T : \A l \in T : ~(<<l, k>> \in OpToRel(<, Nat))
  <2> HIDE DEF T
  <2> QED BY <1>1, NatLessThanWellFounded, WFMin
<1>3. PICK k \in T : \A l \in T : ~(l < k)
  BY <1>2 DEF OpToRel
<1>4. ASSUME NEW m \in S PROVE m <= top - k
  <2>1. top - m \in T /\ m \in Nat /\ k \in Nat
    OBVIOUS
  <2> QED BY <1>3, <2>1
<1> QED BY <1>4

(* The newest version up to an instant is one of them.                     *)
LEMMA NewestIsOne ==
  ASSUME NEW S \in SUBSET Nat, S # {}, NEW top \in Nat, \A n \in S : n <= top
  PROVE  (CHOOSE n \in S : \A m \in S : m <= n) \in S
BY GreatestExists

(* The same versions up to an instant give the same answer.                *)
LEMMA SameVersionsSameAnswer ==
  ASSUME ObjectTypeOK, NEW i \in ObjectIds, NEW instant,
         VersionsUpTo(i, instant)' = VersionsUpTo(i, instant),
         \A n \in VersionsUpTo(i, instant) : object_version'[i][n] = object_version[i][n]
  PROVE  AsOf(i, instant)' = AsOf(i, instant)
<1> DEFINE S == VersionsUpTo(i, instant)
           newest == CHOOSE n \in S : \A m \in S : m <= n
<1>1. CASE S = {}
  BY <1>1 DEF AsOf
<1>2. CASE S # {}
  <2>1. object_version[i] \in Seq(VersionRow)
    BY DEF ObjectTypeOK
  <2>2. S \in SUBSET Nat /\ Len(object_version[i]) \in Nat /\ \A n \in S : n <= Len(object_version[i])
    BY <2>1 DEF VersionsUpTo
  <2>3. newest \in S
    <3> HIDE DEF S
    <3> QED BY <1>2, <2>2, NewestIsOne
  <2>4. AsOf(i, instant) = object_version[i][newest]
    BY <1>2 DEF AsOf
  <2>5. AsOf(i, instant)' = object_version'[i][newest]
    BY <1>2 DEF AsOf
  <2> HIDE DEF newest
  <2> QED BY <2>3, <2>4, <2>5
<1> QED BY <1>1, <1>2

(* What is recorded now is no version of an instant before now.            *)
LEMMA AppendingSettles ==
  ASSUME ObjectTypeOK, NEW i \in ObjectIds, NEW instant \in Nat, instant < clock,
         NEW v \in VersionRow, v.recorded_at = clock,
         object_version'[i] = Append(object_version[i], v)
  PROVE  AsOf(i, instant)' = AsOf(i, instant)
<1> DEFINE h == object_version[i]
<1>1. h \in Seq(VersionRow) /\ clock \in Nat
  BY DEF ObjectTypeOK
<1>2. /\ DOMAIN h = 1..Len(h) /\ DOMAIN Append(h, v) = 1..(Len(h) + 1) /\ Len(h) \in Nat
      /\ Append(h, v)[Len(h) + 1] = v /\ \A n \in 1..Len(h) : Append(h, v)[n] = h[n]
  BY <1>1
<1>3. VersionsUpTo(i, instant)' = {n \in DOMAIN Append(h, v) : Append(h, v)[n].recorded_at <= instant}
  BY DEF VersionsUpTo
<1>4. VersionsUpTo(i, instant)' = VersionsUpTo(i, instant)
  <2>1. ~(v.recorded_at <= instant)
    BY <1>1
  <2> QED BY <1>2, <1>3, <2>1 DEF VersionsUpTo
<1>5. \A n \in VersionsUpTo(i, instant) : object_version'[i][n] = object_version[i][n]
  BY <1>2 DEF VersionsUpTo
<1> QED BY <1>4, <1>5, SameVersionsSameAnswer

(* A step writes one version of one object, recorded now, or erases one.   *)
LEMMA EachStepSettles == ASSUME ObjectInv, ObjectNext PROVE Settled
<1> SUFFICES ASSUME NEW j \in ObjectIds, NEW instant \in 1..MaxClock, instant < clock,
                    ~(j \in Present /\ j \notin Present')
             PROVE  AsOf(j, instant)' = AsOf(j, instant)
  BY DEF Settled
<1>1. ObjectTypeOK /\ SupersededByIsPresent /\ instant \in Nat /\ clock \in Nat
  BY BoundsAssumption DEF ObjectInv, ObjectTypeOK
<1>2. ASSUME object_version'[j] = object_version[j]
      PROVE  AsOf(j, instant)' = AsOf(j, instant)
  <2>1. VersionsUpTo(j, instant)' = VersionsUpTo(j, instant)
    BY <1>2 DEF VersionsUpTo
  <2> QED BY <1>1, <1>2, <2>1, SameVersionsSameAnswer
<1>3. ASSUME NEW i \in ObjectIds, NEW v \in VersionRow, v.recorded_at = clock,
             object_version' = [object_version EXCEPT ![i] = Append(object_version[i], v)]
      PROVE  AsOf(j, instant)' = AsOf(j, instant)
  <2>1. CASE i = j
    <3>1. object_version'[j] = Append(object_version[j], v)
      BY <1>1, <1>3, <2>1 DEF ObjectTypeOK
    <3> QED BY <1>1, <1>3, <3>1, AppendingSettles
  <2>2. CASE i # j
    BY <1>1, <1>2, <1>3, <2>2 DEF ObjectTypeOK
  <2> QED BY <2>1, <2>2
<1>4. CASE \E i \in ObjectIds, c \in Contents, o \in Origins : Create(i, c, o)
  <2> PICK i \in ObjectIds, c \in Contents, o \in Origins : Create(i, c, o)
    BY <1>4
  <2> DEFINE row == NewRow(c, o)
             v == Snapshot(row, "create")
  <2>1. row \in Row /\ "create" \in ChangeKinds
    BY DEF NewRow, Row, Reviews, States, ChangeKinds
  <2>2. v \in VersionRow /\ v.recorded_at = clock
    BY <1>1, <2>1, SnapshotType
  <2>3. object_version' = [object_version EXCEPT ![i] = Append(object_version[i], v)]
    BY DEF Create, WriteVersion
  <2> HIDE DEF v
  <2> QED BY <1>3, <2>2, <2>3
<1>5. CASE \E i \in ObjectIds : i \in Present /\ Patches(i)
  <2> PICK i \in Present : Patches(i)
    BY <1>5
  <2>1. i \in ObjectIds
    BY <1>1 DEF ObjectTypeOK
  <2>2. \/ object_version' = object_version
        \/ \E v \in VersionRow : /\ v.recorded_at = clock
                                  /\ object_version' = [object_version EXCEPT ![i] = Append(object_version[i], v)]
    BY <1>1, UpdateEffect
  <2> QED BY <1>2, <1>3, <2>1, <2>2
<1>6. CASE \E i \in ObjectIds : Purge(i)
  <2> PICK i \in ObjectIds : Purge(i)
    BY <1>6
  <2>1. i \in Present /\ i \notin Present'
    BY DEF Purge, WithoutLinkTo, Present
  <2>2. i # j
    BY <2>1
  <2>3. object_version'[j] = object_version[j]
    BY <1>1, <2>2 DEF Purge, ObjectTypeOK
  <2> QED BY <1>2, <2>3
<1>7. CASE Tick
  BY <1>2, <1>7 DEF Tick
<1> QED BY <1>1, <1>4, <1>5, <1>6, <1>7, StepShape

(* Nobody can change what the memory says it said.                         *)
THEOREM PastStaysSettled == ObjectSpec => PastIsSettled
<1>1. ObjectInv /\ [ObjectNext]_objectVars => [Settled]_objectVars
  BY EachStepSettles
<1> QED BY <1>1, ObjectInvariant, PTL DEF ObjectSpec, PastIsSettled
-----------------------------------------------------------------------------
(* The log: as many events of each type as versions it stands for.         *)

(* What is counted out of an interval is finite.                           *)
LEMMA CountedIsFinite ==
  ASSUME NEW n \in Nat, NEW T, T \subseteq 1..n
  PROVE  IsFiniteSet(T) /\ Cardinality(T) \in Nat
<1>1. IsFiniteSet(1..n)
  BY FS_Interval
<1>2. IsFiniteSet(T)
  BY <1>1, FS_Subset
<1> QED BY <1>2, FS_CardinalityType

(* The log of an object and its history, apart from the tables.            *)
CountOf(log, type) == Cardinality({n \in DOMAIN log : log[n] = type})
VersionsOf(h, type) ==
    Cardinality({n \in DOMAIN h \ {1} : EventForChange(h[n].change_kind) = type})

Plain == EventTypes \ {"KnowledgeCaptured", "KnowledgeSuperseded"}
Tallied(h, log) ==
    /\ \A type \in Plain : CountOf(log, type) = VersionsOf(h, type)
    /\ CountOf(log, "KnowledgeSuperseded") >= 2 * VersionsOf(h, "KnowledgeSuperseded")
Begun(log) == CountOf(log, "KnowledgeCaptured") = 1 /\ log[1] = "KnowledgeCaptured"

Ended(log) == log[Len(log)] = "Purged"

LogInv == \A i \in ObjectIds : \A h, log : h = object_version[i] /\ log = event[i] =>
             /\ i \in Present => Tallied(h, log)
             /\ log # <<>> => Begun(log)
             /\ log # <<>> => (i \notin Present <=> Ended(log))

(* One event more counts for its own type.                                 *)
LEMMA LogCounts ==
  ASSUME NEW log \in Seq(EventTypes), NEW e \in EventTypes, NEW type
  PROVE  /\ CountOf(log, type) \in Nat
         /\ CountOf(Append(log, e), type) = CountOf(log, type) + (IF e = type THEN 1 ELSE 0)
<1> DEFINE g == Append(log, e)
           before == {n \in DOMAIN log : log[n] = type}
           after == {n \in DOMAIN g : g[n] = type}
<1>1. /\ DOMAIN log = 1..Len(log) /\ DOMAIN g = 1..(Len(log) + 1) /\ Len(log) \in Nat
      /\ g[Len(log) + 1] = e /\ \A n \in 1..Len(log) : g[n] = log[n]
  OBVIOUS
<1>2. after = IF e = type THEN before \cup {Len(log) + 1} ELSE before
  <2> HIDE DEF g
  <2> QED BY <1>1
<1>3. before \subseteq 1..Len(log) /\ Len(log) + 1 \notin before
  BY <1>1
<1>4. IsFiniteSet(before) /\ Cardinality(before) \in Nat
  BY <1>1, <1>3, CountedIsFinite
<1>5. CountOf(log, type) = Cardinality(before) /\ CountOf(Append(log, e), type) = Cardinality(after)
  BY DEF CountOf
<1> HIDE DEF before, after
<1>6. Cardinality(before \cup {Len(log) + 1}) = Cardinality(before) + 1
  BY <1>3, <1>4, FS_AddElement
<1> QED BY <1>2, <1>4, <1>5, <1>6

(* One version more counts for the type of its change.                     *)
LEMMA VersionCounts ==
  ASSUME NEW h \in Seq(VersionRow), h # <<>>, NEW v \in VersionRow, NEW type
  PROVE  /\ VersionsOf(h, type) \in Nat
         /\ VersionsOf(Append(h, v), type)
               = VersionsOf(h, type) + (IF EventForChange(v.change_kind) = type THEN 1 ELSE 0)
<1> DEFINE g == Append(h, v)
           before == {n \in DOMAIN h \ {1} : EventForChange(h[n].change_kind) = type}
           after == {n \in DOMAIN g \ {1} : EventForChange(g[n].change_kind) = type}
<1>1. /\ DOMAIN h = 1..Len(h) /\ DOMAIN g = 1..(Len(h) + 1) /\ Len(h) \in Nat \ {0}
      /\ g[Len(h) + 1] = v /\ \A n \in 1..Len(h) : g[n] = h[n]
  OBVIOUS
<1>2. after = IF EventForChange(v.change_kind) = type THEN before \cup {Len(h) + 1} ELSE before
  <2> HIDE DEF g
  <2> QED BY <1>1
<1>3. before \subseteq 1..Len(h) /\ Len(h) + 1 \notin before
  BY <1>1
<1>4. IsFiniteSet(before) /\ Cardinality(before) \in Nat
  BY <1>1, <1>3, CountedIsFinite
<1>5. VersionsOf(h, type) = Cardinality(before) /\ VersionsOf(Append(h, v), type) = Cardinality(after)
  BY DEF VersionsOf
<1> HIDE DEF before, after
<1>6. Cardinality(before \cup {Len(h) + 1}) = Cardinality(before) + 1
  BY <1>3, <1>4, FS_AddElement
<1> QED BY <1>2, <1>4, <1>5, <1>6

(* The log begins as it began, and ends with the newest event.             *)
LEMMA LogEnds ==
  ASSUME NEW log \in Seq(EventTypes), NEW e \in EventTypes
  PROVE  /\ Append(log, e) = log \o <<e>> /\ Append(log, e) \in Seq(EventTypes)
         /\ Append(log, e) # <<>>
         /\ Append(log, e)[Len(Append(log, e))] = e
         /\ log # <<>> /\ Begun(log) /\ e # "KnowledgeCaptured" => Begun(Append(log, e))
<1>1. CountOf(Append(log, e), "KnowledgeCaptured")
        = CountOf(log, "KnowledgeCaptured") + (IF e = "KnowledgeCaptured" THEN 1 ELSE 0)
  BY LogCounts
<1>2. log # <<>> => Append(log, e)[1] = log[1]
  OBVIOUS
<1>3. log # <<>> /\ Begun(log) /\ e # "KnowledgeCaptured" => Begun(Append(log, e))
  BY <1>1, <1>2 DEF Begun
<1>4. Append(log, e) = log \o <<e>>
  OBVIOUS
<1> QED BY <1>3, <1>4

(* Changes and their events.                                               *)
LEMMA EventOfChange ==
  ASSUME NEW kind \in ChangeKinds \ {"create"}
  PROVE  /\ EventForChange(kind) \in EventTypes \ {"KnowledgeCaptured", "Purged"}
         /\ EventForChange(kind) = "KnowledgeSuperseded" <=> kind = "supersede"
BY DEF EventForChange, ChangeKinds, EventTypes

(* One event more of an object that stands.                                *)
OneMore(log, e, g) ==
    /\ g = log \o <<e>> /\ g \in Seq(EventTypes) /\ g # <<>>
    /\ Begun(g) /\ g[Len(g)] # "Purged"
    /\ \A type \in EventTypes : /\ CountOf(log, type) \in Nat
                                /\ CountOf(g, type) = CountOf(log, type) + (IF e = type THEN 1 ELSE 0)

(* An event appended to a log is counted once.                             *)
LEMMA OneMoreEvent ==
  ASSUME NEW log \in Seq(EventTypes), log # <<>>, Begun(log),
         NEW e \in EventTypes, e # "KnowledgeCaptured", e # "Purged"
  PROVE  OneMore(log, e, Append(log, e))
BY LogEnds, LogCounts DEF OneMore

(* An operation that changed something logs its event, a supersession two; *)
(* one that changed nothing logs at most the second of the two.            *)
LEMMA UpdateTallies ==
  ASSUME NEW h \in Seq(VersionRow), h # <<>>, NEW log \in Seq(EventTypes), log # <<>>,
         Tallied(h, log), Begun(log), log[Len(log)] # "Purged",
         NEW kind \in ChangeKinds \ {"create"}, NEW v \in VersionRow, v.change_kind = kind
  PROVE  /\ LET g == log \o (<<EventForChange(kind)>> \o Also(kind))
            IN Tallied(Append(h, v), g) /\ Begun(g) /\ g[Len(g)] # "Purged"
         /\ LET g == log \o Also(kind)
            IN Tallied(h, g) /\ Begun(g) /\ g[Len(g)] # "Purged"
<1> DEFINE e == EventForChange(kind)
           more == Append(log, e)
           once == Append(log, "KnowledgeSuperseded")
           twice == Append(once, "KnowledgeSuperseded")
<1>1. /\ e \in EventTypes \ {"KnowledgeCaptured", "Purged"}
      /\ e = "KnowledgeSuperseded" <=> kind = "supersede"
      /\ "KnowledgeSuperseded" \in EventTypes
  BY EventOfChange DEF EventTypes
<1> HIDE DEF e
<1>2. OneMore(log, "KnowledgeSuperseded", once)
  BY <1>1, OneMoreEvent
<1>3. OneMore(log, e, more)
  BY <1>1, OneMoreEvent
<1>4. OneMore(once, "KnowledgeSuperseded", twice)
  BY <1>1, <1>2, OneMoreEvent DEF OneMore
<1> HIDE DEF once, more, twice
<1>5. /\ \A type \in EventTypes : /\ CountOf(log, type) \in Nat
                                  /\ CountOf(once, type) = CountOf(log, type)
                                        + (IF "KnowledgeSuperseded" = type THEN 1 ELSE 0)
                                  /\ CountOf(more, type) = CountOf(log, type) + (IF e = type THEN 1 ELSE 0)
                                  /\ CountOf(twice, type) = CountOf(once, type)
                                        + (IF "KnowledgeSuperseded" = type THEN 1 ELSE 0)
      /\ once = log \o <<"KnowledgeSuperseded">> /\ more = log \o <<e>>
      /\ twice = once \o <<"KnowledgeSuperseded">>
      /\ Begun(once) /\ once[Len(once)] # "Purged"
      /\ Begun(more) /\ more[Len(more)] # "Purged"
      /\ Begun(twice) /\ twice[Len(twice)] # "Purged"
  BY <1>2, <1>3, <1>4 DEF OneMore
<1>6. \A type \in EventTypes : /\ VersionsOf(h, type) \in Nat
                               /\ VersionsOf(Append(h, v), type)
                                    = VersionsOf(h, type) + (IF e = type THEN 1 ELSE 0)
  BY VersionCounts DEF e
<1>7. Plain \subseteq EventTypes /\ "KnowledgeSuperseded" \notin Plain
  BY DEF Plain
<1>8. CASE kind = "supersede"
  <2>1. log \o (<<e>> \o Also(kind)) = twice /\ log \o Also(kind) = once
    <3>1. e = "KnowledgeSuperseded" /\ Also(kind) = <<"KnowledgeSuperseded">> /\ <<e>> \in Seq(EventTypes)
      BY <1>1, <1>8 DEF Also
    <3>2. log \o (<<e>> \o <<e>>) = (log \o <<e>>) \o <<e>>
      BY <3>1, ConcatAssociative
    <3> QED BY <1>5, <3>1, <3>2
  <2>2. Tallied(Append(h, v), twice)
    <3>1. ASSUME NEW type \in Plain PROVE CountOf(twice, type) = VersionsOf(Append(h, v), type)
      <4>1. type \in EventTypes /\ type # "KnowledgeSuperseded" /\ e # type
        BY <1>1, <1>7, <1>8
      <4>2. CountOf(twice, type) = CountOf(log, type) /\ VersionsOf(Append(h, v), type) = VersionsOf(h, type)
        BY <1>5, <1>6, <4>1
      <4> QED BY <4>2 DEF Tallied
    <3>2. /\ CountOf(twice, "KnowledgeSuperseded") = CountOf(log, "KnowledgeSuperseded") + 2
          /\ VersionsOf(Append(h, v), "KnowledgeSuperseded") = VersionsOf(h, "KnowledgeSuperseded") + 1
      BY <1>1, <1>5, <1>6, <1>8
    <3>3. CountOf(log, "KnowledgeSuperseded") >= 2 * VersionsOf(h, "KnowledgeSuperseded")
      BY DEF Tallied
    <3>4. VersionsOf(h, "KnowledgeSuperseded") \in Nat /\ CountOf(log, "KnowledgeSuperseded") \in Nat
      BY <1>1, <1>5, <1>6
    <3> QED BY <3>1, <3>2, <3>3, <3>4 DEF Tallied
  <2>3. Tallied(h, once)
    <3>1. ASSUME NEW type \in Plain PROVE CountOf(once, type) = VersionsOf(h, type)
      <4>1. type \in EventTypes /\ type # "KnowledgeSuperseded"
        BY <1>7
      <4>2. CountOf(once, type) = CountOf(log, type)
        BY <1>5, <4>1
      <4> QED BY <4>2 DEF Tallied
    <3>2. CountOf(once, "KnowledgeSuperseded") = CountOf(log, "KnowledgeSuperseded") + 1
      BY <1>1, <1>5
    <3>3. CountOf(log, "KnowledgeSuperseded") >= 2 * VersionsOf(h, "KnowledgeSuperseded")
      BY DEF Tallied
    <3>4. VersionsOf(h, "KnowledgeSuperseded") \in Nat /\ CountOf(log, "KnowledgeSuperseded") \in Nat
      BY <1>1, <1>5, <1>6
    <3> QED BY <3>1, <3>2, <3>3, <3>4 DEF Tallied
  <2> QED BY <1>5, <2>1, <2>2, <2>3 DEF e
<1>9. CASE kind # "supersede"
  <2>1. log \o (<<e>> \o Also(kind)) = more /\ log \o Also(kind) = log
    <3>1. Also(kind) = <<>> /\ <<e>> \in Seq(EventTypes)
      BY <1>1, <1>9 DEF Also
    <3>2. <<e>> \o <<>> = <<e>> /\ log \o <<>> = log
      BY <3>1, ConcatEmptySeq
    <3> QED BY <1>5, <3>1, <3>2
  <2>2. Tallied(Append(h, v), more)
    <3>1. ASSUME NEW type \in Plain PROVE CountOf(more, type) = VersionsOf(Append(h, v), type)
      <4>1. type \in EventTypes
        BY <1>7
      <4>2. CountOf(log, type) = VersionsOf(h, type)
        BY DEF Tallied
      <4> QED BY <1>5, <1>6, <4>1, <4>2
    <3>2. /\ CountOf(more, "KnowledgeSuperseded") = CountOf(log, "KnowledgeSuperseded")
          /\ VersionsOf(Append(h, v), "KnowledgeSuperseded") = VersionsOf(h, "KnowledgeSuperseded")
      <4>1. "KnowledgeSuperseded" \in EventTypes /\ e # "KnowledgeSuperseded"
        BY <1>1, <1>9
      <4>2. CountOf(more, "KnowledgeSuperseded") = CountOf(log, "KnowledgeSuperseded") + 0
        BY <1>5, <4>1
      <4>3. /\ VersionsOf(Append(h, v), "KnowledgeSuperseded") = VersionsOf(h, "KnowledgeSuperseded") + 0
            /\ VersionsOf(h, "KnowledgeSuperseded") \in Nat
            /\ CountOf(log, "KnowledgeSuperseded") \in Nat
        BY <1>5, <1>6, <4>1
      <4> QED BY <4>2, <4>3
    <3> QED BY <3>1, <3>2 DEF Tallied
  <2> QED BY <1>5, <2>1, <2>2 DEF e
<1> QED BY <1>8, <1>9

(* The log begins with the creation.                                       *)
LEMMA CreationTallies ==
  ASSUME NEW v \in VersionRow
  PROVE  Tallied(<<v>>, <<"KnowledgeCaptured">>) /\ Begun(<<"KnowledgeCaptured">>)
<1> DEFINE log == <<"KnowledgeCaptured">>
<1>1. \A type : {n \in DOMAIN <<v>> \ {1} : EventForChange(<<v>>[n].change_kind) = type} = {}
  OBVIOUS
<1>2. \A type \in EventTypes \ {"KnowledgeCaptured"} : {n \in DOMAIN log : log[n] = type} = {}
  OBVIOUS
<1>3. {n \in DOMAIN log : log[n] = "KnowledgeCaptured"} = {1}
  OBVIOUS
<1>4. Cardinality({}) = 0 /\ Cardinality({1}) = 1
  BY FS_EmptySet, FS_Singleton
<1>5. \A type : VersionsOf(<<v>>, type) = 0
  BY <1>1, <1>4 DEF VersionsOf
<1>6. \A type \in EventTypes \ {"KnowledgeCaptured"} : CountOf(log, type) = 0
  BY <1>2, <1>4 DEF CountOf
<1>7. CountOf(log, "KnowledgeCaptured") = 1
  BY <1>3, <1>4 DEF CountOf
<1>8. "KnowledgeSuperseded" \in EventTypes \ {"KnowledgeCaptured"} /\ Plain \subseteq EventTypes \ {"KnowledgeCaptured"}
  BY DEF EventTypes, Plain
<1> QED BY <1>5, <1>6, <1>7, <1>8 DEF Tallied, Begun

(* What is not touched is accounted for as before.                         *)
LEMMA OthersAccounted ==
  ASSUME LogInv, NEW i \in ObjectIds,
         \A j \in ObjectIds \ {i} : /\ object_version'[j] = object_version[j] /\ event'[j] = event[j]
                                    /\ j \in Present' <=> j \in Present,
         i \in Present' => Tallied(object_version'[i], event'[i]),
         event'[i] # <<>> => Begun(event'[i]),
         event'[i] # <<>> => (i \notin Present' <=> Ended(event'[i]))
  PROVE  LogInv'
<1> SUFFICES ASSUME NEW j \in ObjectIds, NEW h, NEW log, h = object_version'[j], log = event'[j]
             PROVE  /\ j \in Present' => Tallied(h, log)
                    /\ log # <<>> => Begun(log)
                    /\ log # <<>> => (j \notin Present' <=> Ended(log))
  BY DEF LogInv
<1>1. CASE j = i
  BY <1>1
<1>2. CASE j # i
  <2>1. h = object_version[j] /\ log = event[j] /\ (j \in Present' <=> j \in Present)
    BY <1>2
  <2>2. /\ j \in Present => Tallied(h, log)
        /\ log # <<>> => Begun(log)
        /\ log # <<>> => (j \notin Present <=> Ended(log))
    BY <2>1 DEF LogInv
  <2> QED BY <2>1, <2>2
<1> QED BY <1>1, <1>2

(* The log stays in step with the versions.                                *)
LEMMA EachStepIsLogged == ASSUME ObjectInv, LogInv, ObjectNext PROVE LogInv'
<1>1. /\ object_version \in [ObjectIds -> Seq(VersionRow)] /\ event \in [ObjectIds -> Seq(EventTypes)]
      /\ Present \subseteq ObjectIds /\ ObjectTypeOK /\ SupersededByIsPresent /\ HistoryMatchesHead
      /\ clock \in Nat
  BY DEF ObjectInv, ObjectTypeOK
<1>2. CASE \E i \in ObjectIds, c \in Contents, o \in Origins : Create(i, c, o)
  <2> PICK i \in ObjectIds, c \in Contents, o \in Origins : Create(i, c, o)
    BY <1>2
  <2> DEFINE row == NewRow(c, o)
             v == Snapshot(row, "create")
  <2>1. row \in Row /\ "create" \in ChangeKinds
    BY DEF NewRow, Row, Reviews, States, ChangeKinds
  <2>2. v \in VersionRow
    BY <1>1, <2>1, SnapshotType
  <2>3. /\ object_version' = [object_version EXCEPT ![i] = Append(object_version[i], v)]
        /\ event' = [event EXCEPT ![i] = event[i] \o <<"KnowledgeCaptured">>]
        /\ Present' = Present \cup {i} /\ event[i] = <<>>
    BY DEF Create, WriteVersion, Log, Unused, Present
  <2> HIDE DEF v
  <2>4. i \notin Present
    BY <2>3 DEF ObjectInv, PresentIsUsed
  <2>5. object_version[i] = <<>>
    BY <2>4 DEF ObjectInv, HistoryMatchesHead
  <2>6. object_version'[i] = <<v>> /\ event'[i] = <<"KnowledgeCaptured">>
    BY <1>1, <2>2, <2>3, <2>5
  <2>7. Tallied(object_version'[i], event'[i]) /\ Begun(event'[i])
    BY <2>2, <2>6, CreationTallies
  <2>8. ~Ended(event'[i]) /\ i \in Present'
    <3>1. Len(<<"KnowledgeCaptured">>) = 1 /\ <<"KnowledgeCaptured">>[1] = "KnowledgeCaptured"
      OBVIOUS
    <3> QED BY <2>3, <2>6, <3>1 DEF Ended
  <2>9. \A j \in ObjectIds \ {i} : /\ object_version'[j] = object_version[j] /\ event'[j] = event[j]
                                   /\ j \in Present' <=> j \in Present
    BY <1>1, <2>3
  <2> QED BY <2>7, <2>8, <2>9, OthersAccounted
<1>3. CASE \E i \in ObjectIds : i \in Present /\ Patches(i)
  <2> PICK i \in Present : Patches(i)
    BY <1>3
  <2> DEFINE h == object_version[i]
             log == event[i]
  <2>1. PICK next \in Row, kind \in ChangeKinds \ {"create"}, also \in Seq(EventTypes) :
           also = Also(kind) /\ PatchOf(i, next) /\ Update(i, next, kind, also)
    BY DEF Patches
  <2> DEFINE v == Snapshot(next, kind)
  <2>2. /\ i \in ObjectIds /\ h \in Seq(VersionRow) /\ h # <<>>
        /\ log \in Seq(EventTypes) /\ log # <<>>
    BY <1>1, PresentHasVersions DEF ObjectInv, PresentIsUsed
  <2>3. Tallied(h, log) /\ Begun(log) /\ log[Len(log)] # "Purged"
    BY <2>2 DEF LogInv, Ended
  <2>4. v \in VersionRow /\ v.change_kind = kind
    BY <1>1, <2>1, SnapshotType DEF Snapshot
  <2>5. \/ /\ object_version' = [object_version EXCEPT ![i] = Append(h, v)]
           /\ event' = [event EXCEPT ![i] = log \o (<<EventForChange(kind)>> \o Also(kind))]
           /\ Present' = Present
        \/ /\ object_version' = object_version
           /\ event' = [event EXCEPT ![i] = log \o Also(kind)]
           /\ Present' = Present
    BY <2>1 DEF Update, WriteVersion, Log, Present
  <2>6. /\ LET g == log \o (<<EventForChange(kind)>> \o Also(kind))
           IN Tallied(Append(h, v), g) /\ Begun(g) /\ g[Len(g)] # "Purged"
        /\ LET g == log \o Also(kind)
           IN Tallied(h, g) /\ Begun(g) /\ g[Len(g)] # "Purged"
    <3> HIDE DEF v, h, log
    <3> QED BY <2>1, <2>2, <2>3, <2>4, UpdateTallies
  <2>7. Tallied(object_version'[i], event'[i]) /\ Begun(event'[i]) /\ event'[i][Len(event'[i])] # "Purged"
    <3> HIDE DEF v
    <3> QED BY <1>1, <2>2, <2>5, <2>6
  <2>8. /\ i \in Present'
        /\ \A j \in ObjectIds \ {i} : /\ object_version'[j] = object_version[j] /\ event'[j] = event[j]
                                      /\ j \in Present' <=> j \in Present
    <3> HIDE DEF v
    <3> QED BY <1>1, <2>5
  <2> QED BY <2>2, <2>7, <2>8, OthersAccounted DEF Ended
<1>4. CASE \E i \in ObjectIds : Purge(i)
  <2> PICK i \in ObjectIds : Purge(i)
    BY <1>4
  <2> DEFINE log == event[i]
  <2>1. /\ i \in Present /\ Present' = Present \ {i}
        /\ object_version' = [object_version EXCEPT ![i] = <<>>]
        /\ event' = [event EXCEPT ![i] = log \o <<"Purged">>]
    BY DEF Purge, WithoutLinkTo, Present, Log
  <2>2. log \in Seq(EventTypes) /\ log # <<>> /\ "Purged" \in EventTypes
    BY <1>1, <2>1 DEF ObjectInv, PresentIsUsed, EventTypes
  <2>6. Begun(log)
    BY <2>2 DEF LogInv
  <2>3. event'[i] = Append(log, "Purged")
    BY <1>1, <2>1, <2>2, LogEnds
  <2>4. Begun(event'[i]) /\ Ended(event'[i]) /\ i \notin Present'
    BY <2>1, <2>2, <2>3, <2>6, LogEnds DEF Ended
  <2>5. \A j \in ObjectIds \ {i} : /\ object_version'[j] = object_version[j] /\ event'[j] = event[j]
                                   /\ j \in Present' <=> j \in Present
    BY <1>1, <2>1
  <2> QED BY <2>4, <2>5, OthersAccounted
<1>5. CASE Tick
  BY <1>5 DEF Tick, LogInv, Present
<1> QED BY <1>1, <1>2, <1>3, <1>4, <1>5, StepShape

(* The log accounts for every version of every object, whatever was done.  *)
THEOREM LogStaysTrue == ObjectSpec => []LogAccountsForHistory
<1>1. ObjectInit => LogInv
  BY DEF ObjectInit, LogInv, Present
<1>2. ObjectInv /\ LogInv /\ [ObjectNext]_objectVars => LogInv'
  <2>1. ASSUME UNCHANGED objectVars, LogInv PROVE LogInv'
    BY <2>1 DEF objectVars, LogInv, Present
  <2> QED BY <2>1, EachStepIsLogged
<1>3. LogInv => LogAccountsForHistory
  <2> SUFFICES ASSUME LogInv, NEW i \in ObjectIds
               PROVE  /\ i \in Present =>
                            /\ \A type \in Plain : Logged(i, type) = Versions(i, type)
                            /\ Logged(i, "KnowledgeSuperseded") >= 2 * Versions(i, "KnowledgeSuperseded")
                      /\ event[i] # <<>> =>
                            /\ Logged(i, "KnowledgeCaptured") = 1
                            /\ event[i][1] = "KnowledgeCaptured"
                            /\ i \notin Present <=> event[i][Len(event[i])] = "Purged"
    BY DEF LogAccountsForHistory, Plain
  <2>1. \A type : /\ Logged(i, type) = CountOf(event[i], type)
                  /\ Versions(i, type) = VersionsOf(object_version[i], type)
    BY DEF Logged, Versions, CountOf, VersionsOf
  <2>2. /\ i \in Present => Tallied(object_version[i], event[i])
        /\ event[i] # <<>> => Begun(event[i])
        /\ event[i] # <<>> => (i \notin Present <=> Ended(event[i]))
    BY DEF LogInv
  <2> QED BY <2>1, <2>2 DEF Tallied, Begun, Ended
<1> QED BY <1>1, <1>2, <1>3, ObjectInvariant, PTL DEF ObjectSpec
=============================================================================
