------------------------- MODULE KnowledgeObjects -------------------------
(***************************************************************************)
(* src/core/objects.js: Knowledge Objects, their version rows and the      *)
(* events objects.js emits about them.                                     *)
(*                                                                         *)
(* Every mutation is one SQLite transaction (core/db.js, BEGIN IMMEDIATE), *)
(* so each operation is one action, whichever process runs it.  A call     *)
(* that throws is rolled back, so it is simply not enabled.                *)
(*                                                                         *)
(* Kind, title, body and attrs are one abstract `content': together they   *)
(* are what contentHash covers.  Epistemic status, confidence, valid_from  *)
(* and occurred_at travel with a version as content does and no operation  *)
(* branches on them.  Times are ticks of a wall clock that is assumed not  *)
(* to run backwards; 0 stands for a NULL valid_until.                      *)
(***************************************************************************)
EXTENDS Naturals, Sequences, FiniteSets

CONSTANTS ObjectIds,    \* the identifiers newObjectId may hand out
          Contents,     \* what kind, title, body and attrs say
          NoObject,     \* NULL in superseded_by
          Origins,      \* who may have asserted an object: of user, source,
                        \* algorithm and ai, none of which objects.js branches on
          MaxEvents,    \* bound: once this many events are logged, no update
          MaxClock      \* bound: ticks of the clock

ASSUME NoObjectAssumption == NoObject \notin ObjectIds
ASSUME BoundsAssumption == MaxEvents \in Nat /\ MaxClock \in Nat \ {0}

VARIABLES object,          \* table object: id -> head row, for the ids present
          object_version,  \* table object_version: id -> its rows by version
          event,           \* the event log, as the types logged per subject
          clock            \* the instant now() returns

objectVars == <<object, object_version, event, clock>>

Reviews == {"unreviewed", "confirmed", "rejected"}
States  == {"active", "archived", "superseded", "deleted"}
ChangeKinds == {"create", "edit", "supersede", "confirm", "reject",
                "archive", "restore", "delete"}
EventTypes == {"KnowledgeCaptured", "KnowledgeUpdated", "KnowledgeArchived",
               "KnowledgeDeleted", "KnowledgeRestored", "KnowledgeSuperseded",
               "KnowledgeConfirmed", "KnowledgeRejected", "Purged"}

Row == [content : Contents, origin : Origins, review : Reviews, state : States,
        superseded_by : ObjectIds \cup {NoObject}, valid_until : Nat,
        head_version : Nat \ {0}]

VersionRow == [content : Contents, origin : Origins, review : Reviews,
               state : States, valid_until : Nat, change_kind : ChangeKinds,
               recorded_at : Nat]

Present == DOMAIN object

LogSize == Cardinality(UNION {{i} \X DOMAIN event[i] : i \in ObjectIds})

(* Mutant: an identifier is free again once its object is erased. *)
UnusedWhenAbsent(i) == i \notin Present

(* newObjectId is a ULID: an id that was logged about is never issued again. *)
Unused(i) == event[i] = <<>>
-----------------------------------------------------------------------------
(* The row object_version keeps of a head row: everything but the forward  *)
(* link superseded_by.                                                     *)
Snapshot(row, kind) ==
    [content |-> row.content, origin |-> row.origin, review |-> row.review,
     state |-> row.state, valid_until |-> row.valid_until,
     change_kind |-> kind, recorded_at |-> clock]

(* The event type of a change, KnowledgeUpdated when the kind names none. *)
EventForChange(kind) ==
    CASE kind = "archive"   -> "KnowledgeArchived"
      [] kind = "delete"    -> "KnowledgeDeleted"
      [] kind = "restore"   -> "KnowledgeRestored"
      [] kind = "supersede" -> "KnowledgeSuperseded"
      [] kind = "confirm"   -> "KnowledgeConfirmed"
      [] kind = "reject"    -> "KnowledgeRejected"
      [] OTHER              -> "KnowledgeUpdated"

(* The fields whose change is worth a version. *)
Differs(a, b) == \/ a.content # b.content
                 \/ a.review # b.review
                 \/ a.state # b.state
                 \/ a.superseded_by # b.superseded_by
                 \/ a.valid_until # b.valid_until

(* Mutant: the newest version row is written over. *)
WriteVersionInPlace(i, row, kind) ==
    object_version' = [object_version EXCEPT ![i] =
                          IF @ = <<>> THEN <<Snapshot(row, kind)>>
                          ELSE [@ EXCEPT ![Len(@)] = Snapshot(row, kind)]]

WriteVersion(i, row, kind) ==
    object_version' = [object_version EXCEPT ![i] = Append(@, Snapshot(row, kind))]

Log(i, types) == event' = [event EXCEPT ![i] = @ \o types]

(* Mutant: versions counted from zero. *)
NewRowAtZero(content, origin) ==
    [content |-> content, origin |-> origin, review |-> "unreviewed",
     state |-> "active", superseded_by |-> NoObject, valid_until |-> 0,
     head_version |-> 0]

NewRow(content, origin) ==
    [content |-> content, origin |-> origin, review |-> "unreviewed",
     state |-> "active", superseded_by |-> NoObject, valid_until |-> 0,
     head_version |-> 1]

Create(i, content, origin) ==
    /\ Unused(i)
    /\ LogSize < MaxEvents
    /\ object' = [j \in Present \cup {i} |->
                    IF j = i THEN NewRow(content, origin) ELSE object[j]]
    /\ WriteVersion(i, NewRow(content, origin), "create")
    /\ Log(i, <<"KnowledgeCaptured">>)
    /\ UNCHANGED clock

(* A deleted object takes no change but its restoration. *)
Editable(i, kind) == /\ i \in Present
                     /\ object[i].state = "deleted" => kind = "restore"

(* Mutant: a change that does not advance head_version. *)
NotBumped(row) == row

Bumped(row) == [row EXCEPT !.head_version = @ + 1]

(* update(): `next' is the current row with the patch merged into it and   *)
(* `also' what the caller logs after update's own event.  A patch that     *)
(* changes nothing leaves no version and no event of its own.              *)
Update(i, next, kind, also) ==
    /\ Editable(i, kind)
    /\ LogSize < MaxEvents
    /\ \/ /\ Differs(object[i], next)
          /\ object' = [object EXCEPT ![i] = Bumped(next)]
          /\ WriteVersion(i, next, kind)
          /\ Log(i, <<EventForChange(kind)>> \o also)
       \/ /\ ~Differs(object[i], next)
          /\ Log(i, also)
          /\ UNCHANGED <<object, object_version>>
    /\ UNCHANGED clock

(* PATCH hands any field to update(): one field at a time is enough to     *)
(* tell the patches apart.  The foreign key keeps superseded_by present.   *)
Patched(i) ==
    LET row == object[i] IN
         {[row EXCEPT !.content = c] : c \in Contents}
    \cup {[row EXCEPT !.review = r] : r \in Reviews}
    \cup {[row EXCEPT !.state = s] : s \in States}
    \cup {[row EXCEPT !.superseded_by = j] : j \in Present \cup {NoObject}}
    \cup {[row EXCEPT !.valid_until = t] : t \in {0, clock}}

Edit(i) == /\ i \in Present
           /\ \E next \in Patched(i) : Update(i, next, "edit", <<>>)

Confirm(i) == /\ i \in Present
              /\ Update(i, [object[i] EXCEPT !.review = "confirmed"], "confirm", <<>>)

Reject(i) == /\ i \in Present
             /\ Update(i, [object[i] EXCEPT !.review = "rejected", !.state = "archived"],
                       "reject", <<>>)

Archive(i) == /\ i \in Present
              /\ Update(i, [object[i] EXCEPT !.state = "archived"], "archive", <<>>)

(* Restoring brings the state back; superseded_by and valid_until stay. *)
Restore(i) == /\ i \in Present
              /\ Update(i, [object[i] EXCEPT !.state = "active"], "restore", <<>>)

Remove(i) == /\ i \in Present
             /\ Update(i, [object[i] EXCEPT !.state = "deleted"], "delete", <<>>)

(* supersede() logs once through update() and once more itself. *)
Supersede(old, new) ==
    /\ {old, new} \subseteq Present
    /\ old # new
    /\ Update(old, [object[old] EXCEPT !.state = "superseded", !.superseded_by = new,
                                       !.valid_until = clock],
              "supersede", <<"KnowledgeSuperseded">>)

(* Mutant: the link to the erased object is left standing. *)
WithLinkTo(i) == [j \in Present \ {i} |-> object[j]]

(* The other rows with their link to the erased object cleared. *)
WithoutLinkTo(i) ==
    [j \in Present \ {i} |->
        IF object[j].superseded_by = i THEN [object[j] EXCEPT !.superseded_by = NoObject]
                                       ELSE object[j]]

(* purge(): the only operation that destroys history.  Its tombstone, a    *)
(* KnowledgeDeleted event with purged: true, is "Purged" here.  The other  *)
(* tables it empties are those of Relations and of Index.                  *)
Purge(i) == /\ i \in Present
            /\ object' = WithoutLinkTo(i)
            /\ object_version' = [object_version EXCEPT ![i] = <<>>]
            /\ Log(i, <<"Purged">>)
            /\ UNCHANGED clock

Tick == /\ clock < MaxClock
        /\ clock' = clock + 1
        /\ UNCHANGED <<object, object_version, event>>
-----------------------------------------------------------------------------
ObjectInit == /\ object = [i \in {} |-> NoObject]
              /\ object_version = [i \in ObjectIds |-> <<>>]
              /\ event = [i \in ObjectIds |-> <<>>]
              /\ clock = 1

ObjectNext == \/ \E i \in ObjectIds, c \in Contents, o \in Origins : Create(i, c, o)
              \/ \E i \in ObjectIds :
                    \/ Edit(i) \/ Confirm(i) \/ Reject(i) \/ Archive(i)
                    \/ Restore(i) \/ Remove(i) \/ Purge(i)
              \/ \E old, new \in ObjectIds : Supersede(old, new)
              \/ Tick

ObjectSpec == ObjectInit /\ [][ObjectNext]_objectVars
-----------------------------------------------------------------------------
(* Every row has the columns and the value ranges of schema.sql. *)
ObjectTypeOK ==
    /\ Present \subseteq ObjectIds
    /\ object = [i \in Present |-> object[i]]
    /\ \A i \in Present : object[i] \in Row
    /\ object_version \in [ObjectIds -> Seq(VersionRow)]
    /\ event \in [ObjectIds -> Seq(EventTypes)]
    /\ clock \in Nat \ {0}

Latest(i) == object_version[i][Len(object_version[i])]

(* What a version row and a head row both say. *)
Agrees(v, row) == /\ v.content = row.content
                  /\ v.origin = row.origin
                  /\ v.review = row.review
                  /\ v.state = row.state
                  /\ v.valid_until = row.valid_until

(* Head and history are one: an object present has exactly head_version    *)
(* version rows, the last of them says what the head row says, all of them *)
(* carry its origin and their instants never run backwards; an object that *)
(* is gone has none.  (update() writes head and version separately, and    *)
(* purge() writes head rows without a version.)                            *)
HistoryMatchesHead ==
    \A i \in ObjectIds :
        IF i \in Present
        THEN /\ Len(object_version[i]) = object[i].head_version
             /\ Agrees(Latest(i), object[i])
             /\ Latest(i).recorded_at <= clock
             /\ \A n \in DOMAIN object_version[i] :
                   /\ object_version[i][n].origin = object[i].origin
                   /\ n > 1 => object_version[i][n-1].recorded_at
                                  <= object_version[i][n].recorded_at
        ELSE object_version[i] = <<>>

(* A forward link leads to an object that can be read: erasing the newer   *)
(* object leaves no older one pointing at nothing.                         *)
SupersededByIsPresent ==
    \A i \in Present : object[i].superseded_by \in Present \cup {NoObject}

Logged(i, type) == Cardinality({n \in DOMAIN event[i] : event[i][n] = type})
Versions(i, type) ==
    Cardinality({n \in DOMAIN object_version[i] \ {1} :
                    EventForChange(object_version[i][n].change_kind) = type})

(* The log accounts for the history: as many events of each type as        *)
(* versions it stands for (a supersession is logged once more by           *)
(* supersede() itself), one capture per object ever used, and of an object *)
(* that was erased the log still says so, last of all.                     *)
LogAccountsForHistory ==
    \A i \in ObjectIds :
        /\ i \in Present =>
              /\ \A type \in EventTypes \ {"KnowledgeCaptured", "KnowledgeSuperseded"} :
                    Logged(i, type) = Versions(i, type)
              /\ Logged(i, "KnowledgeSuperseded") >= 2 * Versions(i, "KnowledgeSuperseded")
        /\ event[i] # <<>> =>
              /\ Logged(i, "KnowledgeCaptured") = 1
              /\ event[i][1] = "KnowledgeCaptured"
              /\ i \notin Present <=> event[i][Len(event[i])] = "Purged"

(* asOf(): the newest version recorded at or before an instant. *)
VersionsUpTo(i, instant) ==
    {n \in DOMAIN object_version[i] : object_version[i][n].recorded_at <= instant}

AsOf(i, instant) ==
    IF VersionsUpTo(i, instant) = {} THEN NoObject
    ELSE object_version[i][CHOOSE n \in VersionsUpTo(i, instant) :
                              \A m \in VersionsUpTo(i, instant) : m <= n]

(* What an object looked like at an instant that has passed is settled: no *)
(* step but its erasure gives another answer, whatever is changed later.   *)
Settled == \A i \in ObjectIds, instant \in 1..MaxClock :
              instant < clock /\ ~(i \in Present /\ i \notin Present')
                => AsOf(i, instant)' = AsOf(i, instant)

PastIsSettled == [][Settled]_objectVars

(* The version rows are an append-only history: no operation rewrites,     *)
(* reorders or drops a row, the origin an object was created with stays,   *)
(* and an erased identifier never returns.                                 *)
ObjectHistory == INSTANCE AppendOnlyHistory WITH
                    Ids <- ObjectIds, KeepsOrigin <- TRUE,
                    history <- object_version,
                    erased <- {i \in ObjectIds : i \notin Present /\ event[i] # <<>>}

HistoryIsAppendOnly == ObjectHistory!Spec
=============================================================================
