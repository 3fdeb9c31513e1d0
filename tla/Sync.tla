-------------------------------- MODULE Sync --------------------------------
(***************************************************************************)
(* src/core/sync.js and syncOverHttp of src/chitraq.js: two installations  *)
(* of one workspace tell each other what changed since they last spoke.    *)
(*                                                                         *)
(* `here' starts every exchange and `there' answers.  One exchange is a    *)
(* push (build a payload, send it, the peer applies it) and a pull (the    *)
(* peer builds one, it is applied here), over HTTP, so people go on        *)
(* writing on both sides while it runs and it may break at any point.      *)
(* Each side remembers one mark, last_pushed: the newest stamp it has      *)
(* offered the other.                                                      *)
(*                                                                         *)
(* Objects carry their version rows along.  `text' is what content_hash    *)
(* covers and `state' everything else a version keeps.  `Facts' are the    *)
(* rows that never change: sources, and the evidence and derivations about *)
(* an object.  Edges are not modelled here, nor that evidence also waits   *)
(* for its source, which is stamped before it once and for all.  Stamps    *)
(* are ticks of one clock and no two writes share one.                     *)
(***************************************************************************)
EXTENDS Naturals, FiniteSets, FiniteSetsExt

CONSTANTS ObjectIds, Texts, States, Facts,
          NoObject,   \* NULL: superseded by nothing, about nothing in particular
          About,      \* what the facts may be about
          Writes,     \* what people do: subset of {"edit", "state", "supersede"}
          Directions, \* how they sync: subset of {"both", "push", "pull"}
          Faults,     \* subset of {"loss", "busy", "dry_run"}: exchanges that
                      \* break, writes during one, rehearsals
          Limit,      \* rows of each kind in one payload
          MaxClock    \* bound: writes

ASSUME NoObjectAssumption == NoObject \notin ObjectIds
ASSUME LimitAssumption == Limit \in Nat \ {0}

VARIABLES head,      \* side -> id -> head row, for the objects it has
          past,      \* side -> id -> version number -> version row
          facts,     \* side -> fact -> [stamp, about], for those it has
          raised,    \* side -> objects a sync-divergence was ever raised about
          mark,      \* side -> its last_pushed for the other
          talk,      \* the exchange going on
          clock

store == <<head, past, facts, raised>>
vars == <<head, past, facts, raised, mark, talk, clock>>

Sides == {"here", "there"}
Other(s) == IF s = "here" THEN "there" ELSE "here"

Head == [text : Texts, state : States, link : ObjectIds \cup {NoObject},
         version : Nat \ {0}, stamp : Nat]

Present(s) == DOMAIN head[s]
Known == Present("here") \cup Present("there")

(* The version row of a head row. *)
Said(row) == [text |-> row.text, state |-> row.state, stamp |-> row.stamp]

With(f, k, v) == [x \in DOMAIN f \cup {k} |-> IF x = k THEN v ELSE f[x]]
-----------------------------------------------------------------------------
(* People writing. *)

MayWrite == /\ clock < MaxClock
            /\ talk.phase = "idle" \/ "busy" \in Faults
            /\ clock' = clock + 1
            /\ UNCHANGED <<raised, mark, talk>>

(* The primary key of object_version: the version row must be a new one. *)
Put(s, o, row) ==
    /\ row.version \notin DOMAIN past[s][o]
    /\ head' = [head EXCEPT ![s] = With(@, o, row)]
    /\ past' = [past EXCEPT ![s][o] = With(@, row.version, Said(row))]
    /\ UNCHANGED facts

Create(s, o) ==
    /\ MayWrite
    /\ o \notin Known
    /\ \E t \in Texts, st \in States :
          Put(s, o, [text |-> t, state |-> st, link |-> NoObject, version |-> 1,
                     stamp |-> clock + 1])

Edit(s, o) ==
    /\ MayWrite
    /\ o \in Present(s)
    /\ \E next \in [text : Texts, state : States, link : ObjectIds \cup {NoObject}] :
          /\ \/ /\ "edit" \in Writes /\ next.text # head[s][o].text
                /\ next.state = head[s][o].state /\ next.link = head[s][o].link
             \/ /\ "state" \in Writes /\ next.state # head[s][o].state
                /\ next.text = head[s][o].text /\ next.link = head[s][o].link
             \/ /\ "supersede" \in Writes /\ next.link \in Present(s) \ {o, head[s][o].link}
                /\ next.text = head[s][o].text /\ next.state = head[s][o].state
          /\ Put(s, o, [text |-> next.text, state |-> next.state, link |-> next.link,
                        version |-> head[s][o].version + 1, stamp |-> clock + 1])

Learn(s, f) ==
    /\ MayWrite
    /\ \A side \in Sides : f \notin DOMAIN facts[side]
    /\ \E a \in About \cap (Present(s) \cup {NoObject}) :
          facts' = [facts EXCEPT ![s] = With(@, f, [stamp |-> clock + 1, about |-> a])]
    /\ UNCHANGED <<head, past>>
-----------------------------------------------------------------------------
(* changesSince(): of each kind the first rows past the mark, oldest first. *)

Batch(rows, since) ==
    LET due == {k \in DOMAIN rows : rows[k].stamp > since}
    IN {k \in due : Cardinality({j \in due : rows[j].stamp < rows[k].stamp}) < Limit}

Stamps(rows, keys) == {rows[k].stamp : k \in keys}

(* Mutant: the mark one past what was sent. *)
HighWaterPast(stamps, since) == Max(stamps \cup {since}) + 1

HighWater(stamps, since) == Max(stamps \cup {since})

(* Mutant: the newest stamp of any kind, as the code once had it. *)
NewestCursor(streams, since) == HighWater(UNION streams, since)

(* safeCursor(): the furthest point every kind has been sent up to. *)
SafeCursor(streams, since) ==
    LET full == {stamps \in streams : Cardinality(stamps) >= Limit}
    IN IF full = {} THEN HighWater(UNION streams, since)
                    ELSE Min({HighWater(stamps, since) : stamps \in full})

ChangesSince(s, since) ==
    LET objs    == Batch(head[s], since)
        fs      == Batch(facts[s], since)
        streams == {Stamps(head[s], objs), Stamps(facts[s], fs)}
    IN [objects  |-> [o \in objs |-> head[s][o]],
        versions |-> [o \in objs |-> past[s][o]],
        facts    |-> [f \in fs |-> facts[s][f]],
        complete |-> Cardinality(objs) < Limit /\ Cardinality(fs) < Limit,
        cursor   |-> SafeCursor(streams, since)]

(* withoutEcho(): what the peer sends back of what it was just sent. *)
WithoutEcho(p, sent) ==
    [p EXCEPT !.objects =
        [o \in {x \in DOMAIN p.objects :
                   ~(/\ x \in DOMAIN sent.objects
                     /\ sent.objects[x].text = p.objects[x].text
                     /\ sent.objects[x].version = p.objects[x].version)}
            |-> p.objects[o]]]
-----------------------------------------------------------------------------
(* apply(): one transaction. *)

(* Mutant: nothing is ever taken over a row of ours. *)
NeverSharesHistory(s, o) == FALSE

(* The code compares the local row with the local history; it does not     *)
(* look at the history the peer sent.                                      *)
SharesHistory(s, o) ==
    LET v == head[s][o].version
    IN v \in DOMAIN past[s][o] /\ past[s][o][v].text = head[s][o].text

Arriving(s, p) == DOMAIN p.objects \ Present(s)

Contested(s, p) ==
    {o \in DOMAIN p.objects \cap Present(s) :
        ~(/\ p.objects[o].text = head[s][o].text
          /\ p.objects[o].version = head[s][o].version)}

(* Mutant: whatever arrives last is taken. *)
TakenBlindly(s, p) == {o \in Contested(s, p) : SharesHistory(s, o)}

(* The peer is ahead: its row is taken. *)
Taken(s, p) == {o \in Contested(s, p) : /\ p.objects[o].version > head[s][o].version
                                        /\ SharesHistory(s, o)}

(* Mutant: only a peer that is further along is worth raising. *)
DivergedAhead(s, p) == {o \in Contested(s, p) \ Taken(s, p) :
                           p.objects[o].version > head[s][o].version}

(* We are not ahead either: ours is kept and the difference raised. *)
Diverged(s, p) == {o \in Contested(s, p) \ Taken(s, p) :
                      p.objects[o].version >= head[s][o].version}

After(s, p) == Present(s) \cup Arriving(s, p)

Merged(s, p, o) ==
    LET row == CASE o \in Arriving(s, p) -> [p.objects[o] EXCEPT !.link = NoObject]
                 [] o \in Taken(s, p)    -> p.objects[o]
                 [] OTHER                -> head[s][o]
    IN IF /\ o \in DOMAIN p.objects
          /\ p.objects[o].link \in After(s, p)
          /\ row.link = NoObject
       THEN [row EXCEPT !.link = p.objects[o].link]
       ELSE row

(* Mutant: a database opened without its foreign keys. *)
NeverRefused(s, p) == FALSE

(* Rows are taken in the order of their stamps, and the foreign key on     *)
(* superseded_by wants the newer object to be there already.               *)
Refused(s, p) ==
    \E o \in Taken(s, p) :
        LET new == p.objects[o].link
        IN /\ new # NoObject
           /\ new \notin Present(s)
           /\ ~(new \in Arriving(s, p) /\ p.objects[new].stamp < p.objects[o].stamp)

(* recordDivergence(): one open row per object, which also tells the two   *)
(* sides apart.                                                            *)
Raised(s, p) == raised[s] \cup Diverged(s, p)

Apply(s, p) ==
    /\ ~Refused(s, p)
    /\ head' = [head EXCEPT ![s] = [o \in After(s, p) |-> Merged(s, p, o)]]
    /\ past' = [past EXCEPT ![s] =
                  [o \in ObjectIds |->
                     IF o \in DOMAIN p.versions \cap After(s, p)
                     THEN [n \in DOMAIN @[o] \cup DOMAIN p.versions[o] |->
                             IF n \in DOMAIN @[o] THEN @[o][n] ELSE p.versions[o][n]]
                     ELSE @[o]]]
    /\ facts' = [facts EXCEPT ![s] =
                  [f \in DOMAIN @ \cup {g \in DOMAIN p.facts :
                                          p.facts[g].about \in After(s, p) \cup {NoObject}}
                     |-> IF f \in DOMAIN @ THEN @[f] ELSE p.facts[f]]]
    /\ raised' = [raised EXCEPT ![s] = Raised(s, p)]
-----------------------------------------------------------------------------
(* syncOverHttp() *)

Quiet == [phase |-> "idle"]

StartPush(d) ==
    /\ talk = Quiet
    /\ d \in {"both", "push"}
    /\ LET sent == ChangesSince("here", mark["here"])
       IN /\ mark' = [mark EXCEPT !["here"] = sent.cursor]
          /\ talk' = [phase |-> "pushing", direction |-> d, sent |-> sent]
    /\ UNCHANGED <<store, clock>>

PeerApplies ==
    /\ talk.phase = "pushing"
    /\ Apply("there", talk.sent)
    /\ talk' = IF talk.direction = "push" THEN Quiet ELSE [talk EXCEPT !.phase = "pushed"]
    /\ UNCHANGED <<mark, clock>>

(* The peer builds its answer as it would a push of its own. *)
PeerAnswers ==
    /\ \/ talk.phase = "pushed"
       \/ talk = Quiet /\ "pull" \in Directions
    /\ LET raw == ChangesSince("there", mark["there"])
       IN /\ mark' = [mark EXCEPT !["there"] = raw.cursor]
          /\ talk' = IF talk = Quiet
                       THEN [phase |-> "answered", direction |-> "pull", raw |-> raw]
                       ELSE [phase |-> "answered", direction |-> "both", raw |-> raw,
                             sent |-> talk.sent]
    /\ UNCHANGED <<store, clock>>

(* Mutant: the mark jumps after a truncated payload as well. *)
JumpAlways(sent, raw) == Max({sent.cursor, raw.cursor})

(* After a two-way exchange of everything we had, our mark jumps past what *)
(* the peer just told us.                                                  *)
JumpTo(sent, raw) == IF sent.complete THEN Max({sent.cursor, raw.cursor}) ELSE mark["here"]

Incoming == IF talk.direction = "both" THEN WithoutEcho(talk.raw, talk.sent) ELSE talk.raw

FinishSync ==
    /\ talk.phase = "answered"
    /\ Apply("here", Incoming)
    /\ IF talk.direction = "both"
         THEN mark' = [mark EXCEPT !["here"] = JumpTo(talk.sent, talk.raw)]
         ELSE UNCHANGED mark
    /\ talk' = Quiet
    /\ UNCHANGED clock

(* httpPeer(): a call that reaches nobody, is refused, takes too long or   *)
(* is not answered in JSON throws, whatever the peer did about it.         *)
CallFails == "loss" \in Faults

(* The exchange ends where a call fails or apply() throws. *)
BreakSync ==
    /\ talk # Quiet
    /\ \/ CallFails
       \/ talk.phase = "pushing" /\ Refused("there", talk.sent)
       \/ talk.phase = "answered" /\ Refused("here", Incoming)
    /\ talk' = Quiet
    /\ UNCHANGED <<store, mark, clock>>

(* --dry-run: nothing is applied anywhere, but the pull is an ordinary one. *)
Rehearse ==
    /\ "dry_run" \in Faults
    /\ talk = Quiet
    /\ mark' = [mark EXCEPT !["there"] = ChangesSince("there", mark["there"]).cursor]
    /\ UNCHANGED <<store, talk, clock>>

Init == /\ head = [s \in Sides |-> [o \in {} |-> NoObject]]
        /\ past = [s \in Sides |-> [o \in ObjectIds |-> [n \in {} |-> NoObject]]]
        /\ facts = [s \in Sides |-> [f \in {} |-> NoObject]]
        /\ raised = [s \in Sides |-> {}]
        /\ mark = [s \in Sides |-> 0]
        /\ talk = Quiet
        /\ clock = 0

People == \E s \in Sides : \/ \E o \in ObjectIds : Create(s, o) \/ Edit(s, o)
                           \/ \E f \in Facts : Learn(s, f)

Exchange == \/ \E d \in Directions : StartPush(d)
            \/ PeerApplies \/ PeerAnswers \/ FinishSync \/ BreakSync

Next == People \/ Exchange \/ Rehearse

Spec == Init /\ [][Next]_vars

(* `chitraq sync --every' starts exchanges for ever, and each runs its     *)
(* course.                                                                 *)
FairSpec == Spec /\ WF_vars(Exchange)
-----------------------------------------------------------------------------
(* Rows have the shape of their tables on both sides. *)
SyncTypeOK ==
    \A s \in Sides :
        /\ Present(s) \subseteq ObjectIds
        /\ \A o \in Present(s) : head[s][o] \in Head
        /\ DOMAIN facts[s] \subseteq Facts
        /\ raised[s] \subseteq Present(s)
        /\ mark[s] \in 0..clock

(* Whatever an exchange brings in, head and history stay one on each side: *)
(* versions 1 to head_version, the last saying what the head row says.  A  *)
(* version row past the head would make the next edit fail for good on the *)
(* primary key.                                                            *)
HeadIsLatestVersion ==
    \A s \in Sides, o \in ObjectIds :
        IF o \in Present(s)
        THEN /\ DOMAIN past[s][o] = 1..head[s][o].version
             /\ past[s][o][head[s][o].version] = Said(head[s][o])
        ELSE DOMAIN past[s][o] = {}

(* A forward link leads to an object of the same side. *)
LinksStayLocal ==
    \A s \in Sides : \A o \in Present(s) :
        head[s][o].link \in Present(s) \cup {NoObject}

(* What a side holds explains itself, whatever the other side sent it.     *)
HistoriesStayLocal == HeadIsLatestVersion /\ LinksStayLocal

(* INVARIANT 37, and more: nothing a side holds is deleted or rewritten in *)
(* its history by any step, and no object goes back to an earlier version. *)
Adds == \A s \in Sides :
          /\ DOMAIN facts[s] \subseteq DOMAIN facts'[s]
          /\ \A o \in Present(s) :
                /\ o \in Present(s)'
                /\ head'[s][o].version >= head[s][o].version
                /\ \A n \in DOMAIN past[s][o] :
                      n \in DOMAIN past'[s][o] /\ past'[s][o][n] = past[s][o][n]

SyncOnlyAdds == [][Adds]_vars

(* INVARIANT 53 as it is worded: everything a side holds that is stamped   *)
(* at or before its mark has reached the other side, or is on its way.     *)
Reaches(s, o) == /\ o \in Present(Other(s))
                 /\ head[Other(s)][o].version >= head[s][o].version

OnItsWay(s, o, stamp) ==
    \/ s = "here" /\ talk.phase = "pushing" /\ o \in DOMAIN talk.sent.objects
                  /\ talk.sent.objects[o].stamp = stamp
    \/ s = "there" /\ talk.phase = "answered" /\ o \in DOMAIN talk.raw.objects
                   /\ talk.raw.objects[o].stamp = stamp

FactOnItsWay(s, f) ==
    \/ s = "here" /\ talk.phase = "pushing" /\ f \in DOMAIN talk.sent.facts
    \/ s = "there" /\ talk.phase = "answered" /\ f \in DOMAIN talk.raw.facts

ObjectsFollow(s) ==
    \A o \in Present(s) : head[s][o].stamp <= mark[s] =>
        Reaches(s, o) \/ OnItsWay(s, o, head[s][o].stamp)

MarkFollowsDelivery ==
    \A s \in Sides :
        /\ ObjectsFollow(s)
        /\ \A f \in DOMAIN facts[s] : facts[s][f].stamp <= mark[s] =>
              f \in DOMAIN facts[Other(s)] \/ FactOnItsWay(s, f)

(* What the code does of it: a fact whose object was written again after   *)
(* it is told before that object, and a side that does not have the object *)
(* drops the fact and is never told of it again.  The mark passes nothing  *)
(* else that did not arrive.                                               *)
Overtaken(s, f) ==
    /\ f \in DOMAIN facts[s] /\ facts[s][f].about # NoObject
    /\ \E n \in DOMAIN past[s][facts[s][f].about] :
          past[s][facts[s][f].about][n].stamp > facts[s][f].stamp

OnlyOvertakenFactsAreLost ==
    \A s \in Sides :
        /\ ObjectsFollow(s)
        /\ \A f \in DOMAIN facts[s] : facts[s][f].stamp <= mark[s] =>
              f \in DOMAIN facts[Other(s)] \/ FactOnItsWay(s, f) \/ Overtaken(s, f)

(* INVARIANT 36, as far as it goes: two sides that have nothing left to    *)
(* tell each other and give the same version of an object different texts  *)
(* have raised it on one of them.                                          *)
NothingLeft(s) == LET p == ChangesSince(s, mark[s]) IN p.objects = [o \in {} |-> NoObject]

DivergenceIsRaised ==
    talk = Quiet /\ NothingLeft("here") /\ NothingLeft("there") =>
        \A o \in Present("here") \cap Present("there") :
            \/ head["here"][o].text = head["there"][o].text
            \/ head["here"][o].version # head["there"][o].version
            \/ o \in raised["here"] \cup raised["there"]

(* INVARIANT 36 as it is worded: local state is kept unless the incoming   *)
(* row was built on it, that is, unless the peer's history says at our     *)
(* version what we say.                                                    *)
EditsAreNotLost ==
    [][talk' # talk =>
         \A s \in Sides : \A o \in Present(s) :
            head'[s][o].text # head[s][o].text =>
               past[Other(s)][o][head[s][o].version].text = head[s][o].text]_vars

(* What one side learns the other comes to hold, as long as exchanges run, *)
(* overtaken facts excepted.                                               *)
EverythingArrives ==
    /\ \A s \in Sides, o \in ObjectIds : o \in Present(s) ~> o \in Present(Other(s))
    /\ \A s \in Sides, f \in Facts :
          f \in DOMAIN facts[s] ~> f \in DOMAIN facts[Other(s)] \/ Overtaken(s, f)
=============================================================================
