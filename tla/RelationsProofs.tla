-------------------------- MODULE RelationsProofs --------------------------
(***************************************************************************)
(* EdgesStand for any objects, edges, types and notes, and the history of  *)
(* the edges as an append-only one.                                        *)
(***************************************************************************)
EXTENDS Relations, TLAPS

(* No two active edges say the same thing.                                 *)
SayTheSame(r, s) == /\ relation[r].src_id = relation[s].src_id
                    /\ relation[r].type = relation[s].type
                    /\ relation[r].dst_id = relation[s].dst_id
Alone == \A r, s \in Edges :
            relation[r].state = "active" /\ relation[s].state = "active" /\ SayTheSame(r, s)
              => r = s

(* The last version of an edge says what its head row says.                *)
Repeats(v, row) == /\ v.origin = row.origin /\ v.note = row.note /\ v.review = row.review
                   /\ v.state = row.state /\ v.valid_until = row.valid_until

HeadsMatch ==
    /\ \A r \in Edges : /\ relation[r].src_id \in Present /\ relation[r].dst_id \in Present
                        /\ Len(relation_version[r]) = relation[r].head_version
                        /\ Repeats(LatestOf(r), relation[r])
                        /\ LatestOf(r).recorded_at <= clock
    /\ \A r \in RelationIds \ Edges : relation_version[r] = <<>>

EdgeEvents == {"RelationCreated", "RelationUpdated", "RelationRetracted"}

(* What EdgesStand rests on: beside its parts the tables keep their        *)
(* columns, an edge that stands was logged (so that its identifier is not  *)
(* issued again), and no version is recorded after the present instant.    *)
EdgesInv ==
    /\ clock \in Nat
    /\ RelationTypeOK
    /\ relation_event \in [RelationIds -> Seq(EdgeEvents)]
    /\ \A r \in Edges : relation_event[r] # <<>>
    /\ HeadsMatch /\ Alone
    /\ AuthorityNeverFalls

Rank == {1, 2, 3}

(* There are three degrees of authority.                                   *)
LEMMA AuthorityIsRank == \A origin : Authority(origin) \in Rank
  BY DEF Authority, Rank

(* A version says what the head row said when it was written.              *)
LEMMA SnapshotSays ==
    ASSUME NEW row \in RelationRow, NEW by \in ActorKinds, clock \in Nat
    PROVE  LET v == RelationSnapshot(row, by)
           IN v \in RelationVersionRow /\ Repeats(v, row) /\ v.recorded_at = clock
  BY DEF RelationSnapshot, RelationRow, RelationVersionRow, Repeats

(* An edge that stands has versions.                                       *)
LEMMA EdgesHaveVersions ==
    ASSUME EdgesInv, NEW r \in Edges
    PROVE  /\ r \in RelationIds /\ relation[r] \in RelationRow
           /\ relation_version[r] \in Seq(RelationVersionRow)
           /\ Len(relation_version[r]) = relation[r].head_version
           /\ Len(relation_version[r]) > 0
           /\ LatestOf(r) \in RelationVersionRow
<1>1. r \in RelationIds /\ relation[r] \in RelationRow /\ relation_version[r] \in Seq(RelationVersionRow)
  BY DEF EdgesInv, RelationTypeOK
<1>2. Len(relation_version[r]) = relation[r].head_version
  BY <1>1 DEF EdgesInv, HeadsMatch
<1>3. relation[r].head_version \in Nat \ {0}
  BY <1>1 DEF RelationRow
<1> QED BY <1>1, <1>2, <1>3 DEF LatestOf

(* What a patch of an edge may do: leave its ends and type, not bring it   *)
(* back once retracted, not lower its authority.                           *)
Allowed(r, next) ==
    /\ next \in RelationRow
    /\ next.src_id = relation[r].src_id /\ next.type = relation[r].type
    /\ next.dst_id = relation[r].dst_id /\ next.head_version = relation[r].head_version
    /\ next.state = "active" => relation[r].state = "active"
    /\ Authority(relation[r].origin) <= Authority(next.origin)

(* One version more, that repeats the head row.                            *)
Appended(r, next, v, logged) ==
    /\ v \in RelationVersionRow /\ Repeats(v, next) /\ v.recorded_at = clock
    /\ logged \in EdgeEvents
    /\ relation' = [relation EXCEPT ![r] = [next EXCEPT !.head_version = next.head_version + 1]]
    /\ relation_version' = [relation_version EXCEPT ![r] = Append(relation_version[r], v)]
    /\ relation_event' = [relation_event EXCEPT ![r] = Append(relation_event[r], logged)]

(* What an update does: nothing, or one version more.                      *)
LEMMA UpdateAppends ==
    ASSUME EdgesInv, NEW r \in Edges, NEW by \in ActorKinds, NEW next, Allowed(r, next),
           UpdateRelation(r, next, by)
    PROVE  UNCHANGED relationVars \/ \E v, logged : Appended(r, next, v, logged)
<1>1. CASE ~RelationDiffers(relation[r], next)
  BY <1>1 DEF UpdateRelation
<1>2. CASE RelationDiffers(relation[r], next)
  <2> DEFINE v == RelationSnapshot(next, by)
             logged == IF next.state = "retracted" THEN "RelationRetracted" ELSE "RelationUpdated"
  <2>1. v \in RelationVersionRow /\ Repeats(v, next) /\ v.recorded_at = clock
    BY SnapshotSays DEF Allowed, EdgesInv
  <2>2. /\ relation' = [relation EXCEPT ![r] = [next EXCEPT !.head_version = next.head_version + 1]]
        /\ relation_version' = [relation_version EXCEPT ![r] = Append(relation_version[r], v)]
        /\ relation_event' = [relation_event EXCEPT ![r] = Append(relation_event[r], logged)]
    BY <1>2 DEF UpdateRelation, WriteRelationVersion, LogRelation
  <2>3. logged \in EdgeEvents
    BY DEF EdgeEvents
  <2> HIDE DEF v, logged
  <2>4. Appended(r, next, v, logged)
    BY <2>1, <2>2, <2>3 DEF Appended
  <2> QED BY <2>4
<1> QED BY <1>1, <1>2

(* What the tables say after one version more.                             *)
LEMMA AppendedSays ==
    ASSUME EdgesInv, NEW r \in Edges, NEW next, Allowed(r, next), NEW v, NEW logged,
           Appended(r, next, v, logged)
    PROVE  /\ Edges' = Edges /\ r \in RelationIds
           /\ \A s \in RelationIds \ {r} : /\ relation'[s] = relation[s]
                                           /\ relation_version'[s] = relation_version[s]
                                           /\ relation_event'[s] = relation_event[s]
                                           /\ LatestOf(s)' = LatestOf(s)
           /\ relation'[r] \in RelationRow
           /\ relation'[r].src_id = relation[r].src_id /\ relation'[r].type = relation[r].type
           /\ relation'[r].dst_id = relation[r].dst_id
           /\ relation'[r].state = "active" => relation[r].state = "active"
           /\ relation'[r].head_version = Len(relation_version[r]) + 1
           /\ Repeats(v, relation'[r])
           /\ relation_version'[r] = Append(relation_version[r], v)
           /\ LatestOf(r)' = v /\ v.recorded_at = clock
           /\ RelationTypeOK'
           /\ relation_event' \in [RelationIds -> Seq(EdgeEvents)]
           /\ relation_event'[r] # <<>>
<1> DEFINE h == relation_version[r]
           row == [next EXCEPT !.head_version = next.head_version + 1]
<1>1. /\ r \in RelationIds /\ relation[r] \in RelationRow /\ h \in Seq(RelationVersionRow)
      /\ Len(h) = relation[r].head_version /\ Len(h) > 0
  BY EdgesHaveVersions
<1>2. /\ row \in RelationRow
      /\ row.src_id = relation[r].src_id /\ row.type = relation[r].type
      /\ row.dst_id = relation[r].dst_id
      /\ row.state = "active" => relation[r].state = "active"
      /\ row.head_version = Len(h) + 1 /\ Repeats(v, row)
  BY <1>1 DEF Appended, Allowed, RelationRow, Repeats
<1>3. /\ relation' = [relation EXCEPT ![r] = row]
      /\ relation_version' = [relation_version EXCEPT ![r] = Append(h, v)]
      /\ relation_event' = [relation_event EXCEPT ![r] = Append(relation_event[r], logged)]
      /\ v \in RelationVersionRow /\ logged \in EdgeEvents /\ v.recorded_at = clock
  BY DEF Appended
<1>4. /\ relation = [s \in Edges |-> relation[s]] /\ Edges \subseteq RelationIds
      /\ \A s \in Edges : relation[s] \in RelationRow
      /\ relation_version \in [RelationIds -> Seq(RelationVersionRow)]
      /\ relation_event \in [RelationIds -> Seq(EdgeEvents)]
  BY DEF EdgesInv, RelationTypeOK
<1> HIDE DEF row
<1>5. Edges' = Edges /\ relation'[r] = row
  BY <1>3 DEF Edges
<1>6. \A s \in RelationIds \ {r} : /\ relation'[s] = relation[s]
                                   /\ relation_version'[s] = relation_version[s]
                                   /\ relation_event'[s] = relation_event[s]
                                   /\ LatestOf(s)' = LatestOf(s)
  BY <1>3, <1>4 DEF LatestOf
<1>7. relation_version'[r] = Append(h, v) /\ relation_version' \in [RelationIds -> Seq(RelationVersionRow)]
  <2>1. Append(h, v) \in Seq(RelationVersionRow)
    BY <1>1, <1>3
  <2> QED BY <1>1, <1>3, <1>4, <2>1
<1>8. LatestOf(r)' = v
  <2>1. Len(Append(h, v)) = Len(h) + 1 /\ Append(h, v)[Len(h) + 1] = v
    BY <1>1, <1>3
  <2> QED BY <1>7, <2>1 DEF LatestOf
<1>9. relation_event' \in [RelationIds -> Seq(EdgeEvents)] /\ relation_event'[r] # <<>>
  <2>1. relation_event[r] \in Seq(EdgeEvents)
    BY <1>1, <1>4
  <2>2. Append(relation_event[r], logged) \in Seq(EdgeEvents) /\ Append(relation_event[r], logged) # <<>>
    BY <1>3, <2>1
  <2> QED BY <1>1, <1>3, <1>4, <2>2
<1>10. RelationTypeOK'
  <2>1. relation' = [s \in Edges' |-> relation'[s]]
    BY <1>3, <1>4, <1>5
  <2>2. \A s \in Edges' : relation'[s] \in RelationRow
    BY <1>2, <1>4, <1>5, <1>6
  <2> QED BY <1>4, <1>5, <1>7, <2>1, <2>2 DEF RelationTypeOK
<1> QED BY <1>1, <1>2, <1>3, <1>5, <1>6, <1>7, <1>8, <1>9, <1>10

(* One version more that is allowed leaves every edge whole.               *)
LEMMA UpdateKeepsEdges ==
    ASSUME EdgesInv, NEW r \in Edges, NEW by \in ActorKinds, NEW next, Allowed(r, next),
           UpdateRelation(r, next, by), UNCHANGED objectVars
    PROVE  EdgesInv'
<1>1. clock' = clock /\ Present' = Present /\ clock \in Nat
  BY DEF objectVars, Present, EdgesInv
<1>2. CASE UNCHANGED relationVars
  BY <1>1, <1>2 DEF EdgesInv, RelationTypeOK, HeadsMatch, Alone, SayTheSame, Repeats,
                    AuthorityNeverFalls, Edges, LatestOf, relationVars
<1>3. ASSUME NEW v, NEW logged, Appended(r, next, v, logged)
      PROVE  EdgesInv'
  <2> DEFINE h == relation_version[r]
  <2>1. h \in Seq(RelationVersionRow) /\ Len(h) > 0 /\ Edges \subseteq RelationIds
    BY EdgesHaveVersions DEF EdgesInv, RelationTypeOK
  <2>2. HeadsMatch'
    <3>1. Len(relation_version'[r]) = relation'[r].head_version
      <4>1. Len(Append(h, v)) = Len(h) + 1
        BY <2>1
      <4>2. relation_version'[r] = Append(h, v) /\ relation'[r].head_version = Len(h) + 1
        BY <1>3, AppendedSays
      <4> QED BY <4>1, <4>2
    <3>2. \A s \in Edges \ {r} : Repeats(LatestOf(s), relation[s])' = Repeats(LatestOf(s), relation[s])
      BY <1>3, <2>1, AppendedSays DEF Repeats
    <3>3. Repeats(LatestOf(r), relation[r])'
      BY <1>3, AppendedSays DEF Repeats
    <3>4. LatestOf(r)'.recorded_at <= clock'
      BY <1>1, <1>3, AppendedSays
    <3>5. /\ Edges' = Edges /\ relation'[r].src_id = relation[r].src_id
          /\ relation'[r].dst_id = relation[r].dst_id
          /\ \A s \in RelationIds \ {r} : /\ relation'[s] = relation[s]
                                          /\ relation_version'[s] = relation_version[s]
                                          /\ LatestOf(s)' = LatestOf(s)
      BY <1>3, AppendedSays
    <3>6. \A s \in Edges \ {r} : LatestOf(s)'.recorded_at <= clock'
      BY <1>1, <2>1, <3>5 DEF EdgesInv, HeadsMatch
    <3>7. \A s \in Edges \ {r} : /\ Len(relation_version'[s]) = relation'[s].head_version
                                 /\ Repeats(LatestOf(s), relation[s])'
      BY <2>1, <3>2, <3>5 DEF EdgesInv, HeadsMatch
    <3>8. \A s \in Edges : relation'[s].src_id \in Present' /\ relation'[s].dst_id \in Present'
      BY <1>1, <2>1, <3>5 DEF EdgesInv, HeadsMatch
    <3>9. \A s \in RelationIds \ Edges : relation_version'[s] = <<>>
      BY <3>5 DEF EdgesInv, HeadsMatch
    <3> QED BY <3>1, <3>3, <3>4, <3>5, <3>6, <3>7, <3>8, <3>9 DEF HeadsMatch
  <2>3. Alone'
    <3>1. \A s \in Edges : /\ relation'[s].src_id = relation[s].src_id
                           /\ relation'[s].type = relation[s].type
                           /\ relation'[s].dst_id = relation[s].dst_id
                           /\ relation'[s].state = "active" => relation[s].state = "active"
      BY <1>3, <2>1, AppendedSays
    <3>2. Edges' = Edges
      BY <1>3, AppendedSays
    <3> SUFFICES ASSUME NEW a \in Edges, NEW b \in Edges, SayTheSame(a, b)',
                        relation'[a].state = "active", relation'[b].state = "active"
                 PROVE  a = b
      BY <3>2 DEF Alone
    <3>3. relation[a].state = "active" /\ relation[b].state = "active"
      BY <3>1
    <3>4. SayTheSame(a, b)
      BY <3>1 DEF SayTheSame
    <3> QED BY <3>3, <3>4 DEF EdgesInv, Alone
  <2>4. AuthorityNeverFalls'
    <3>1. ASSUME NEW n \in 2..Len(Append(h, v))
          PROVE  Authority(Append(h, v)[n].origin) >= Authority(Append(h, v)[n-1].origin)
      <4>1. CASE n <= Len(h)
        <5>1. n \in 2..Len(h) /\ Append(h, v)[n] = h[n] /\ Append(h, v)[n-1] = h[n-1]
          BY <2>1, <4>1
        <5> QED BY <5>1 DEF EdgesInv, AuthorityNeverFalls
      <4>2. CASE n = Len(h) + 1
        <5>1. Append(h, v)[n] = v /\ Append(h, v)[n-1] = h[Len(h)]
          BY <2>1, <4>2
        <5>2. h[Len(h)].origin = relation[r].origin
          BY DEF EdgesInv, HeadsMatch, LatestOf, Repeats
        <5>3. v.origin = next.origin /\ Authority(relation[r].origin) <= Authority(next.origin)
          BY <1>3 DEF Appended, Allowed, Repeats
        <5>4. Authority(next.origin) \in Nat /\ Authority(relation[r].origin) \in Nat
          BY AuthorityIsRank DEF Rank
        <5> QED BY <5>1, <5>2, <5>3, <5>4
      <4>3. Len(Append(h, v)) = Len(h) + 1
        BY <2>1
      <4> QED BY <2>1, <4>1, <4>2, <4>3
    <3>2. relation_version'[r] = Append(h, v)
      BY <1>3, AppendedSays
    <3>3. \A s \in Edges \ {r} : relation_version'[s] = relation_version[s]
      BY <1>3, <2>1, AppendedSays
    <3>4. Edges' = Edges
      BY <1>3, AppendedSays
    <3> QED BY <3>1, <3>2, <3>3, <3>4 DEF EdgesInv, AuthorityNeverFalls
  <2>5. \A s \in Edges' : relation_event'[s] # <<>>
    BY <1>3, <2>1, AppendedSays DEF EdgesInv
  <2> QED BY <1>1, <1>3, <2>2, <2>3, <2>4, <2>5, AppendedSays DEF EdgesInv
<1> QED BY <1>2, <1>3, UpdateAppends

(* A new edge is the only active one that says what it says.               *)
LEMMA RelateKeepsEdges ==
    ASSUME EdgesInv, NEW r \in RelationIds, NEW by \in ActorKinds, NEW src \in ObjectIds,
           NEW dst \in ObjectIds, NEW t \in Types, NEW o \in Origins, NEW n \in Notes,
           Relate(r, src, t, dst, o, n, by), UNCHANGED objectVars
    PROVE  EdgesInv'
<1> DEFINE row == [src_id |-> src, type |-> t, dst_id |-> dst, origin |-> o,
                   note |-> n, review |-> "unreviewed", state |-> "active",
                   valid_until |-> 0, head_version |-> 1]
           v == RelationSnapshot(row, by)
<1>1. clock' = clock /\ Present' = Present /\ clock \in Nat
  BY DEF objectVars, Present, EdgesInv
<1>2. /\ row \in RelationRow
      /\ row.src_id = src /\ row.type = t /\ row.dst_id = dst /\ row.state = "active"
      /\ row.head_version = 1
  BY DEF RelationRow, RelationStates, Reviews
<1>3. /\ relation_event[r] = <<>> /\ src \in Present /\ dst \in Present
      /\ ActiveEdges(src, t, dst) = {}
      /\ relation' = [s \in Edges \cup {r} |-> IF s = r THEN row ELSE relation[s]]
      /\ relation_version' = [relation_version EXCEPT ![r] = Append(@, v)]
      /\ relation_event' = [relation_event EXCEPT ![r] = Append(@, "RelationCreated")]
  BY DEF Relate, CanRelate, InsertRelation, UnusedRelation, WriteRelationVersion, LogRelation
<1>4. v \in RelationVersionRow /\ Repeats(v, row) /\ v.recorded_at = clock
  BY <1>1, <1>2, SnapshotSays
<1> HIDE DEF row, v
<1>5. r \notin Edges /\ relation_version[r] = <<>>
  BY <1>3 DEF EdgesInv, HeadsMatch
<1>6. /\ Edges' = Edges \cup {r} /\ Edges \subseteq RelationIds
      /\ relation'[r] = row /\ \A s \in Edges : relation'[s] = relation[s]
      /\ \A s \in RelationIds \ {r} : /\ relation_version'[s] = relation_version[s]
                                      /\ relation_event'[s] = relation_event[s]
  BY <1>3, <1>5 DEF Edges, EdgesInv, RelationTypeOK
<1>7. /\ relation_version' \in [RelationIds -> Seq(RelationVersionRow)]
      /\ relation_version'[r] = <<v>> /\ LatestOf(r)' = v
  <2>1. relation_version \in [RelationIds -> Seq(RelationVersionRow)]
    BY DEF EdgesInv, RelationTypeOK
  <2>2. relation_version'[r] = <<v>>
    BY <1>3, <1>5, <2>1
  <2> QED BY <1>3, <1>4, <1>5, <2>1, <2>2 DEF LatestOf
<1>8. /\ relation_event' \in [RelationIds -> Seq(EdgeEvents)]
      /\ \A s \in Edges' : relation_event'[s] # <<>>
  <2>1. relation_event \in [RelationIds -> Seq(EdgeEvents)]
    BY DEF EdgesInv
  <2>2. relation_event'[r] = <<"RelationCreated">>
    BY <1>3, <2>1
  <2>3. <<"RelationCreated">> \in Seq(EdgeEvents) /\ <<"RelationCreated">> # <<>>
    BY DEF EdgeEvents
  <2> QED BY <1>3, <1>5, <1>6, <2>1, <2>2, <2>3 DEF EdgesInv
<1>9. RelationTypeOK'
  <2>1. relation' = [s \in Edges' |-> relation'[s]]
    BY <1>3 DEF Edges
  <2> QED BY <1>2, <1>6, <1>7, <2>1 DEF EdgesInv, RelationTypeOK
<1>10. HeadsMatch'
  <2>1. \A s \in Edges : /\ LatestOf(s)' = LatestOf(s)
                         /\ Repeats(LatestOf(s), relation[s])' = Repeats(LatestOf(s), relation[s])
    BY <1>5, <1>6 DEF LatestOf, Repeats
  <2>2. Repeats(LatestOf(r), relation[r])' /\ LatestOf(r)'.recorded_at <= clock'
    BY <1>1, <1>4, <1>6, <1>7 DEF Repeats
  <2>3. Len(relation_version'[r]) = relation'[r].head_version
    BY <1>2, <1>6, <1>7
  <2> QED BY <1>1, <1>2, <1>3, <1>5, <1>6, <2>1, <2>2, <2>3 DEF EdgesInv, HeadsMatch
<1>12. Alone'
  <2>1. \A s \in Edges : relation[s].state = "active" =>
           ~(relation[s].src_id = src /\ relation[s].type = t /\ relation[s].dst_id = dst)
    BY <1>3 DEF ActiveEdges
  <2> QED BY <1>2, <1>5, <1>6, <2>1 DEF EdgesInv, Alone, SayTheSame
<1>13. AuthorityNeverFalls'
  <2>1. \A m \in 2..Len(relation_version'[r]) : FALSE
    BY <1>7
  <2> QED BY <1>5, <1>6, <2>1 DEF EdgesInv, AuthorityNeverFalls
<1> QED BY <1>1, <1>8, <1>9, <1>10, <1>12, <1>13 DEF EdgesInv

(* Erasing an object takes the edges at both its ends along.               *)
LEMMA PurgeKeepsEdges ==
    ASSUME EdgesInv, NEW i \in ObjectIds, PurgeWhole(i)
    PROVE  EdgesInv'
<1>1. /\ Present' = Present \ {i} /\ clock' = clock
      /\ relation' = [r \in Edges \ Touching(i) |-> relation[r]]
      /\ relation_version' = [r \in RelationIds |-> IF r \in Touching(i) THEN <<>>
                                                   ELSE relation_version[r]]
      /\ UNCHANGED relation_event
  BY DEF PurgeWhole, Purge, PurgeEdges, Present, WithoutLinkTo
<1>2. /\ Edges' = Edges \ Touching(i) /\ Edges \subseteq RelationIds
      /\ \A r \in Edges' : /\ relation'[r] = relation[r]
                           /\ relation_version'[r] = relation_version[r]
                           /\ LatestOf(r)' = LatestOf(r)
      /\ \A r \in RelationIds \ Edges' : relation_version'[r] = <<>>
  BY <1>1 DEF Edges, EdgesInv, RelationTypeOK, LatestOf, HeadsMatch
<1>3. RelationTypeOK'
  <2>1. relation_version' \in [RelationIds -> Seq(RelationVersionRow)]
    <3>1. \A r \in RelationIds : relation_version[r] \in Seq(RelationVersionRow)
      BY DEF EdgesInv, RelationTypeOK
    <3> QED BY <1>1, <3>1
  <2>2. relation' = [r \in Edges' |-> relation'[r]]
    BY <1>1 DEF Edges
  <2> QED BY <1>2, <2>1, <2>2 DEF EdgesInv, RelationTypeOK
<1>4. HeadsMatch'
  <2>1. \A r \in Edges' : relation[r].src_id # i /\ relation[r].dst_id # i
    BY <1>2 DEF Touching
  <2>2. \A r \in Edges' : Repeats(LatestOf(r), relation[r])' = Repeats(LatestOf(r), relation[r])
    BY <1>2 DEF Repeats
  <2> QED BY <1>1, <1>2, <2>1, <2>2 DEF EdgesInv, HeadsMatch
<1>5. Alone'
  BY <1>2 DEF EdgesInv, Alone, SayTheSame
<1>8. AuthorityNeverFalls'
  BY <1>2 DEF EdgesInv, AuthorityNeverFalls
<1> QED BY <1>1, <1>2, <1>3, <1>4, <1>5, <1>8 DEF EdgesInv

(* Reinforcing never lowers authority: a stronger edge is in the way.      *)
LEMMA ReinforceIsAllowed ==
    ASSUME EdgesInv, NEW r \in RelationIds, NEW by, NEW src, NEW dst, NEW t,
           NEW o \in Origins, NEW n \in Notes, Reinforce(r, src, t, dst, o, n, by)
    PROVE  r \in Edges /\ Allowed(r, [relation[r] EXCEPT !.origin = o, !.note = n])
<1>1. r \in Edges /\ relation[r] \in RelationRow
  BY EdgesHaveVersions DEF Reinforce, ActiveEdges
<1>2. Authority(relation[r].origin) <= Authority(o)
  <2>1. ~(Authority(o) < Authority(relation[r].origin))
    BY DEF Reinforce, Blocked
  <2> QED BY <2>1, AuthorityIsRank DEF Rank
<1> QED BY <1>1, <1>2 DEF Allowed, RelationRow

(* Nor does retracting or confirming.                                      *)
LEMMA RestIsAllowed ==
    ASSUME EdgesInv, NEW r \in Edges
    PROVE  /\ Allowed(r, [relation[r] EXCEPT !.state = "retracted", !.valid_until = clock])
           /\ Allowed(r, [relation[r] EXCEPT !.review = "confirmed"])
<1>1. relation[r] \in RelationRow /\ clock \in Nat
  BY EdgesHaveVersions DEF EdgesInv
<1>2. Authority(relation[r].origin) <= Authority(relation[r].origin)
  BY AuthorityIsRank DEF Rank
<1> QED BY <1>1, <1>2 DEF Allowed, RelationRow, RelationStates, Reviews

(* What may be done to the edges, spelled out.                             *)
LEMMA EdgesMoveAs ==
    ASSUME EdgesInv, EdgesMove
    PROVE  /\ UNCHANGED objectVars
           /\ \/ \E r \in RelationIds, by \in ActorKinds, src, dst \in ObjectIds, t \in Types,
                     o \in Origins, n \in Notes : Relate(r, src, t, dst, o, n, by)
              \/ \E r \in Edges, by \in ActorKinds : \E next :
                    Allowed(r, next) /\ UpdateRelation(r, next, by)
<1>1. PICK r \in RelationIds, by \in ActorKinds :
         \/ \E src, dst \in ObjectIds, t \in Types, o \in Origins, n \in Notes :
               Relate(r, src, t, dst, o, n, by) \/ Reinforce(r, src, t, dst, o, n, by)
         \/ Retract(r, by)
         \/ ConfirmRelation(r, by)
  BY DEF EdgesMove
<1>2. UNCHANGED objectVars
  BY DEF EdgesMove
<1>3. CASE \E src, dst \in ObjectIds, t \in Types, o \in Origins, n \in Notes :
              Relate(r, src, t, dst, o, n, by)
  BY <1>2, <1>3
<1>4. CASE \E src, dst \in ObjectIds, t \in Types, o \in Origins, n \in Notes :
              Reinforce(r, src, t, dst, o, n, by)
  <2> PICK src \in ObjectIds, dst \in ObjectIds, t \in Types, o \in Origins, n \in Notes :
              Reinforce(r, src, t, dst, o, n, by)
    BY <1>4
  <2>1. UpdateRelation(r, [relation[r] EXCEPT !.origin = o, !.note = n], by)
    BY DEF Reinforce
  <2> QED BY <1>2, <2>1, ReinforceIsAllowed
<1>5. CASE Retract(r, by)
  <2>1. r \in Edges /\ UpdateRelation(r, [relation[r] EXCEPT !.state = "retracted", !.valid_until = clock], by)
    BY <1>5 DEF Retract
  <2> QED BY <1>2, <2>1, RestIsAllowed
<1>6. CASE ConfirmRelation(r, by)
  <2>1. r \in Edges /\ UpdateRelation(r, [relation[r] EXCEPT !.review = "confirmed"], by)
    BY <1>6 DEF ConfirmRelation
  <2> QED BY <1>2, <2>1, RestIsAllowed
<1> QED BY <1>1, <1>3, <1>4, <1>5, <1>6

(* What is done to objects disturbs no edge, short of erasing one.         *)
LEMMA ObjectsLeaveEdges ==
    ASSUME EdgesInv, Present \subseteq Present', clock' \in Nat, clock <= clock',
           UNCHANGED relationVars
    PROVE  EdgesInv'
<1>1. /\ Edges' = Edges /\ UNCHANGED <<relation, relation_version, relation_event>>
      /\ \A r \in Edges : LatestOf(r)' = LatestOf(r)
  BY DEF relationVars, Edges, LatestOf
<1>2. HeadsMatch'
  <2>1. \A r \in Edges : LatestOf(r).recorded_at \in Nat
    BY EdgesHaveVersions DEF RelationVersionRow
  <2>2. \A r \in Edges : LatestOf(r).recorded_at <= clock'
    BY <2>1 DEF EdgesInv, HeadsMatch
  <2>3. \A r \in Edges : Repeats(LatestOf(r), relation[r])' = Repeats(LatestOf(r), relation[r])
    BY <1>1 DEF Repeats
  <2> QED BY <1>1, <2>2, <2>3 DEF EdgesInv, HeadsMatch
<1> QED BY <1>1, <1>2 DEF EdgesInv, RelationTypeOK, Alone, SayTheSame, AuthorityNeverFalls

(* A new object, or time that passes, is such a step.                      *)
LEMMA ObjectsKeepInv ==
    ASSUME EdgesInv, ObjectsMove \/ UNCHANGED memoryVars
    PROVE  EdgesInv'
<1>1. Present \subseteq Present' /\ clock' \in Nat /\ clock <= clock'
  <2>1. CASE \E i \in ObjectIds, c \in Contents, o \in Origins : Create(i, c, o)
    <3>1. clock' = clock /\ Present \subseteq Present'
      BY <2>1 DEF Create, Present
    <3> QED BY <3>1 DEF EdgesInv
  <2>2. CASE Tick
    BY <2>2 DEF Tick, Present, EdgesInv
  <2>3. CASE UNCHANGED memoryVars
    BY <2>3 DEF memoryVars, Present, EdgesInv
  <2> QED BY <2>1, <2>2, <2>3 DEF ObjectsMove
<1>2. UNCHANGED relationVars
  BY DEF ObjectsMove, relationVars, memoryVars
<1> QED BY <1>1, <1>2, ObjectsLeaveEdges

(* An empty memory has no edges to be wrong about.                         *)
LEMMA EdgesInit == ObjectInit /\ RelationInit => EdgesInv
BY DEF ObjectInit, RelationInit, EdgesInv, RelationTypeOK, HeadsMatch, Alone, AuthorityNeverFalls, Edges

(* The invariant holds in every reachable state.                           *)
LEMMA EdgesInvariant == RelationSpec => []EdgesInv
<1>1. ObjectInit /\ RelationInit => EdgesInv
  BY EdgesInit
<1>2. EdgesInv /\ [RelationNext]_memoryVars => EdgesInv'
  <2> SUFFICES ASSUME EdgesInv, [RelationNext]_memoryVars PROVE EdgesInv'
    OBVIOUS
  <2>1. CASE EdgesMove
    BY <2>1, EdgesMoveAs, RelateKeepsEdges, UpdateKeepsEdges
  <2>2. CASE ObjectsMove \/ UNCHANGED memoryVars
    BY <2>2, ObjectsKeepInv
  <2>3. CASE \E i \in ObjectIds : PurgeWhole(i)
    BY <2>3, PurgeKeepsEdges
  <2> QED BY <2>1, <2>2, <2>3 DEF RelationNext
<1> QED BY <1>1, <1>2, PTL DEF RelationSpec

(* Whatever was claimed, reinforced, retracted, confirmed or erased, an    *)
(* edge has both its ends, is alone in what it says, is what its last      *)
(* version says, and is as authoritative as it ever was.                   *)
THEOREM EdgesAlwaysStand == RelationSpec => []EdgesStand
<1>1. EdgesInv => EdgesStand
  <2> SUFFICES ASSUME EdgesInv PROVE EdgesAreWhole
    BY DEF EdgesInv, EdgesStand
  <2>1. ASSUME NEW r \in Edges, relation[r].state = "active"
        PROVE  ActiveEdges(relation[r].src_id, relation[r].type, relation[r].dst_id) = {r}
    BY <2>1 DEF ActiveEdges, EdgesInv, Alone, SayTheSame
  <2> QED BY <2>1 DEF EdgesInv, HeadsMatch, Repeats, EdgesAreWhole
<1> QED BY <1>1, EdgesInvariant, PTL
-----------------------------------------------------------------------------
(* The refinement: each step of the tables is a step of the abstract       *)
(* history or leaves it alone.                                             *)
ErasedEdges == {r \in RelationIds : /\ r \notin Edges
                                    /\ relation_event[r] # <<>>}

(* A new edge begins a history.                                            *)
LEMMA RelateBegins ==
    ASSUME EdgesInv, NEW r \in RelationIds, NEW by, NEW src, NEW dst, NEW t, NEW o, NEW n,
           Relate(r, src, t, dst, o, n, by)
    PROVE  RelationHistory!Next
<1> PICK v : relation_version' = [relation_version EXCEPT ![r] = Append(@, v)]
  BY DEF Relate, InsertRelation, WriteRelationVersion
<1>1. /\ relation_event[r] = <<>>
      /\ Edges' = Edges \cup {r}
      /\ \A s \in RelationIds \ {r} : relation_event'[s] = relation_event[s]
  BY DEF Relate, InsertRelation, UnusedRelation, LogRelation, Edges, EdgesInv
<1>2. /\ r \notin Edges /\ relation_version[r] = <<>>
      /\ relation_version \in [RelationIds -> Seq(RelationVersionRow)]
  BY <1>1 DEF EdgesInv, HeadsMatch, RelationTypeOK
<1>3. relation_version'[r] = <<v>> /\ relation_version'[r] # <<>> /\ LatestOf(r)' = v
  BY <1>2 DEF LatestOf
<1>4. relation_version' = [relation_version EXCEPT ![r] = <<LatestOf(r)'>>]
  BY <1>2, <1>3
<1>5. ErasedEdges' = ErasedEdges /\ r \notin ErasedEdges
  BY <1>1, <1>2 DEF ErasedEdges
<1>6. RelationHistory!Begin(r)
  BY <1>2, <1>3, <1>4, <1>5 DEF RelationHistory!Begin, RelationHistory!Latest, LatestOf, ErasedEdges
<1> QED BY <1>6 DEF RelationHistory!Next

(* A change records one version more, at the end and later.                *)
LEMMA UpdateEdgeRecords ==
    ASSUME EdgesInv, NEW r \in Edges, NEW by \in ActorKinds, NEW next, Allowed(r, next),
           UpdateRelation(r, next, by)
    PROVE  RelationHistory!Next \/ UNCHANGED <<relation_version, ErasedEdges>>
<1>1. CASE UNCHANGED relationVars
  BY <1>1 DEF relationVars, ErasedEdges, Edges
<1>2. ASSUME NEW v, NEW logged, Appended(r, next, v, logged)
      PROVE  RelationHistory!Next
  <2> DEFINE h == relation_version[r]
  <2>1. /\ Edges' = Edges /\ r \in RelationIds
        /\ \A s \in RelationIds \ {r} : relation_event'[s] = relation_event[s]
        /\ relation_version'[r] = Append(h, v) /\ LatestOf(r)' = v
        /\ v.recorded_at = clock
    BY <1>2, AppendedSays
  <2>2. relation_version' = [relation_version EXCEPT ![r] = Append(h, v)]
    BY <1>2 DEF Appended
  <2>3. ErasedEdges' = ErasedEdges
    BY <2>1 DEF ErasedEdges
  <2>4. h # <<>> /\ Append(h, v) # <<>> /\ v.recorded_at >= LatestOf(r).recorded_at
    <3>1. h \in Seq(RelationVersionRow) /\ Len(h) > 0 /\ LatestOf(r).recorded_at \in Nat
      BY EdgesHaveVersions DEF RelationVersionRow
    <3>2. LatestOf(r).recorded_at <= clock /\ clock \in Nat
      BY DEF EdgesInv, HeadsMatch
    <3> QED BY <2>1, <3>1, <3>2
  <2>5. RelationHistory!Record(r)
    BY <2>1, <2>2, <2>3, <2>4 DEF RelationHistory!Record, RelationHistory!Latest, LatestOf, ErasedEdges
  <2> QED BY <2>1, <2>5 DEF RelationHistory!Next
<1> QED BY <1>1, <1>2, UpdateAppends

(* Erasing an object erases the histories of its edges, if it has any.     *)
LEMMA PurgeErasesEdges ==
    ASSUME EdgesInv, NEW i \in ObjectIds, PurgeWhole(i)
    PROVE  RelationHistory!Next \/ UNCHANGED <<relation_version, ErasedEdges>>
<1>1. /\ Edges' = Edges \ Touching(i) /\ Touching(i) \subseteq Edges /\ Edges \subseteq RelationIds
      /\ relation_version' = [r \in RelationIds |-> IF r \in Touching(i) THEN <<>>
                                                   ELSE relation_version[r]]
      /\ relation_event' = relation_event
  BY DEF PurgeWhole, PurgeEdges, Edges, Touching, EdgesInv, RelationTypeOK
<1>2. ErasedEdges' = ErasedEdges \cup Touching(i)
  BY <1>1 DEF ErasedEdges, EdgesInv
<1>3. CASE Touching(i) = {}
  <2>1. relation_version' = relation_version
    BY <1>1, <1>3 DEF EdgesInv, RelationTypeOK
  <2> QED BY <1>2, <1>3, <2>1
<1>4. CASE Touching(i) # {}
  <2>1. \A r \in Touching(i) : relation_version[r] # <<>>
    <3> SUFFICES ASSUME NEW r \in Touching(i) PROVE relation_version[r] # <<>>
      OBVIOUS
    <3>1. Len(relation_version[r]) > 0
      BY <1>1, EdgesHaveVersions
    <3> QED BY <3>1
  <2> PICK gone \in SUBSET RelationIds : gone = Touching(i)
    BY <1>1
  <2>2. RelationHistory!Erase(gone)
    BY <1>1, <1>2, <1>4, <2>1 DEF RelationHistory!Erase, ErasedEdges
  <2> QED BY <2>2 DEF RelationHistory!Next
<1> QED BY <1>3, <1>4

(* The tables of relations.js implement the append-only history too, only  *)
(* that the origin of an edge may rise.                                    *)
THEOREM EdgesImplementHistory == RelationSpec => RelationHistoryIsAppendOnly
<1>1. ObjectInit /\ RelationInit => RelationHistory!Init
  BY DEF RelationInit, RelationHistory!Init
<1>2. EdgesInv /\ [RelationNext]_memoryVars
        => [RelationHistory!Next]_<<relation_version, ErasedEdges>>
  <2> SUFFICES ASSUME EdgesInv, [RelationNext]_memoryVars
               PROVE  RelationHistory!Next \/ UNCHANGED <<relation_version, ErasedEdges>>
    OBVIOUS
  <2>1. CASE EdgesMove
    BY <2>1, EdgesMoveAs, RelateBegins, UpdateEdgeRecords
  <2>2. CASE ObjectsMove \/ UNCHANGED memoryVars
    BY <2>2 DEF ObjectsMove, relationVars, memoryVars, ErasedEdges, Edges
  <2>3. CASE \E i \in ObjectIds : PurgeWhole(i)
    BY <2>3, PurgeErasesEdges
  <2> QED BY <2>1, <2>2, <2>3 DEF RelationNext
<1> QED BY <1>1, <1>2, EdgesInvariant, PTL
        DEF RelationSpec, RelationHistoryIsAppendOnly, RelationHistory!Spec, ErasedEdges
=============================================================================
