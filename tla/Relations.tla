----------------------------- MODULE Relations -----------------------------
(***************************************************************************)
(* src/core/relations.js: the edges between Knowledge Objects, versioned   *)
(* like them, and the rule that an edge of higher authority is not         *)
(* overwritten by output of lower authority.                               *)
(*                                                                         *)
(* Extends KnowledgeObjects because the two share a database: an edge      *)
(* needs both its ends present, and purging an object takes its edges      *)
(* along.  `note' stands for confidence and note, what a reinforcement may *)
(* change.                                                                 *)
(***************************************************************************)
EXTENDS KnowledgeObjects

CONSTANTS RelationIds,  \* the identifiers newRelationId may hand out
          Types,        \* the vocabulary of edges
          Notes,        \* what an edge carries besides its ends and type
          MaxEdgeVersions  \* bound: version rows of one edge

VARIABLES relation,          \* table relation: id -> head row
          relation_version,  \* table relation_version: id -> its rows by version
          relation_event     \* the types logged per relation

relationVars == <<relation, relation_version, relation_event>>
memoryVars == <<object, object_version, event, clock,
                relation, relation_version, relation_event>>

RelationStates == {"active", "retracted"}
ActorKinds == {"user", "capability"}

RelationRow == [src_id : ObjectIds, type : Types, dst_id : ObjectIds, origin : Origins,
                note : Notes, review : Reviews, state : RelationStates,
                valid_until : Nat, head_version : Nat \ {0}]

RelationVersionRow == [origin : Origins, note : Notes, review : Reviews,
                       state : RelationStates, valid_until : Nat,
                       actor_kind : ActorKinds, recorded_at : Nat]

(* How much authority each origin carries. *)
Authority(origin) == CASE origin = "user"   -> 3
                       [] origin = "source" -> 2
                       [] OTHER             -> 1

Edges == DOMAIN relation

ActiveEdges(src, type, dst) ==
    {r \in Edges : /\ relation[r].src_id = src
                   /\ relation[r].type = type
                   /\ relation[r].dst_id = dst
                   /\ relation[r].state = "active"}

(* Mutant: purge() looks for the edges at one end only. *)
Leaving(i) == {r \in Edges : relation[r].src_id = i}

Touching(i) == {r \in Edges : i \in {relation[r].src_id, relation[r].dst_id}}

UnusedRelation(r) == relation_event[r] = <<>>
-----------------------------------------------------------------------------
(* Mutant: the origin lands in the column of the actor. *)
RelationSnapshotSwapped(row, by) ==
    [origin |-> row.origin, note |-> row.note, review |-> row.review,
     state |-> row.state, valid_until |-> row.valid_until,
     actor_kind |-> row.origin, recorded_at |-> clock]

RelationSnapshot(row, by) ==
    [origin |-> row.origin, note |-> row.note, review |-> row.review,
     state |-> row.state, valid_until |-> row.valid_until,
     actor_kind |-> by, recorded_at |-> clock]

WriteRelationVersion(r, row, by) ==
    relation_version' =
        [relation_version EXCEPT ![r] = Append(@, RelationSnapshot(row, by))]

LogRelation(r, type) == relation_event' = [relation_event EXCEPT ![r] = Append(@, type)]

RelationDiffers(a, b) == \/ a.origin # b.origin
                         \/ a.note # b.note
                         \/ a.review # b.review
                         \/ a.state # b.state
                         \/ a.valid_until # b.valid_until

(* update() of relations.js, with no check of who asks. *)
UpdateRelation(r, next, by) ==
    /\ r \in Edges
    /\ Len(relation_version[r]) < MaxEdgeVersions
    /\ \/ /\ RelationDiffers(relation[r], next)
          /\ relation' = [relation EXCEPT ![r] = [next EXCEPT !.head_version = @ + 1]]
          /\ WriteRelationVersion(r, next, by)
          /\ LogRelation(r, IF next.state = "retracted" THEN "RelationRetracted"
                                                         ELSE "RelationUpdated")
       \/ ~RelationDiffers(relation[r], next) /\ UNCHANGED relationVars

InsertRelation(r, src, type, dst, origin, note, by) ==
    LET row == [src_id |-> src, type |-> type, dst_id |-> dst, origin |-> origin,
                note |-> note, review |-> "unreviewed", state |-> "active",
                valid_until |-> 0, head_version |-> 1]
    IN /\ UnusedRelation(r)
       /\ relation' = [s \in Edges \cup {r} |-> IF s = r THEN row ELSE relation[s]]
       /\ WriteRelationVersion(r, row, by)
       /\ LogRelation(r, "RelationCreated")

(* Mutant: whoever asks last wins. *)
NeverBlocked(src, type, dst, origin) == FALSE

(* An edge whose origin outranks the one that asks stays untouched. *)
Blocked(src, type, dst, origin) ==
    \E r \in ActiveEdges(src, type, dst) :
        Authority(origin) < Authority(relation[r].origin)

CanRelate(src, dst) == src # dst /\ {src, dst} \subseteq Present

(* create() where an active edge stands already and does not outrank. *)
Reinforce(r, src, type, dst, origin, note, by) ==
    /\ CanRelate(src, dst)
    /\ r \in ActiveEdges(src, type, dst)
    /\ ~Blocked(src, type, dst, origin)
    /\ UpdateRelation(r, [relation[r] EXCEPT !.origin = origin, !.note = note], by)

(* create() where none does. *)
Relate(r, src, type, dst, origin, note, by) ==
    /\ CanRelate(src, dst)
    /\ ActiveEdges(src, type, dst) = {}
    /\ InsertRelation(r, src, type, dst, origin, note, by)

(* Retracting once more, later, moves valid_until and so is a version too. *)
Retract(r, by) == /\ r \in Edges
                  /\ UpdateRelation(r, [relation[r] EXCEPT !.state = "retracted",
                                                           !.valid_until = clock], by)

ConfirmRelation(r, by) ==
    /\ r \in Edges
    /\ UpdateRelation(r, [relation[r] EXCEPT !.review = "confirmed"], by)

(* The part of purge() that empties the tables of relations.js. *)
PurgeEdges(i) ==
    /\ relation' = [r \in Edges \ Touching(i) |-> relation[r]]
    /\ relation_version' = [r \in RelationIds |-> IF r \in Touching(i) THEN <<>>
                                                 ELSE relation_version[r]]
    /\ UNCHANGED relation_event

RelationInit == /\ relation = [r \in {} |-> NoObject]
                /\ relation_version = [r \in RelationIds |-> <<>>]
                /\ relation_event = [r \in RelationIds |-> <<>>]

(* The edges together with the objects they join. *)
ObjectsMove == /\ \/ \E i \in ObjectIds, c \in Contents, o \in Origins : Create(i, c, o)
                  \/ Tick
               /\ UNCHANGED relationVars

EdgesMove == /\ \E r \in RelationIds, by \in ActorKinds :
                   \/ \E src, dst \in ObjectIds, t \in Types, o \in Origins, n \in Notes :
                         \/ Relate(r, src, t, dst, o, n, by)
                         \/ Reinforce(r, src, t, dst, o, n, by)
                   \/ Retract(r, by)
                   \/ ConfirmRelation(r, by)
             /\ UNCHANGED objectVars

PurgeWhole(i) == Purge(i) /\ PurgeEdges(i)

RelationNext == ObjectsMove \/ EdgesMove \/ \E i \in ObjectIds : PurgeWhole(i)

RelationSpec == /\ ObjectInit /\ RelationInit
                /\ [][RelationNext]_memoryVars
-----------------------------------------------------------------------------
RelationTypeOK ==
    /\ Edges \subseteq RelationIds
    /\ relation = [r \in Edges |-> relation[r]]
    /\ \A r \in Edges : relation[r] \in RelationRow
    /\ relation_version \in [RelationIds -> Seq(RelationVersionRow)]

LatestOf(r) == relation_version[r][Len(relation_version[r])]

(* Both ends of every edge can be read, no two active edges say the same   *)
(* thing (the unique index of schema.sql), and an edge has exactly         *)
(* head_version versions, the last of which it repeats; an erased edge has *)
(* none.                                                                   *)
EdgesAreWhole ==
    \A r \in RelationIds :
        IF r \in Edges
        THEN LET row == relation[r]
             IN /\ {row.src_id, row.dst_id} \subseteq Present
                /\ row.state = "active" => ActiveEdges(row.src_id, row.type, row.dst_id) = {r}
                /\ Len(relation_version[r]) = row.head_version
                /\ LatestOf(r).origin = row.origin
                /\ LatestOf(r).note = row.note
                /\ LatestOf(r).review = row.review
                /\ LatestOf(r).state = row.state
                /\ LatestOf(r).valid_until = row.valid_until
        ELSE relation_version[r] = <<>>

(* Along the history of an edge authority never falls: neither a weaker    *)
(* claim about the same pair nor a retraction takes it down, whoever asks. *)
AuthorityNeverFalls ==
    \A r \in Edges : \A n \in 2..Len(relation_version[r]) :
        Authority(relation_version[r][n].origin)
            >= Authority(relation_version[r][n-1].origin)

(* Whatever was claimed, reinforced, retracted or erased, an edge is whole *)
(* and as authoritative as it ever was.                                    *)
EdgesStand == EdgesAreWhole /\ AuthorityNeverFalls

(* Edges keep an append-only history too, but their origin may rise. *)
RelationHistory == INSTANCE AppendOnlyHistory WITH
                      Ids <- RelationIds, KeepsOrigin <- FALSE,
                      history <- relation_version,
                      erased <- {r \in RelationIds : /\ r \notin Edges
                                                     /\ relation_event[r] # <<>>}

RelationHistoryIsAppendOnly == RelationHistory!Spec
=============================================================================
