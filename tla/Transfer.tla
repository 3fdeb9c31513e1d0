------------------------------ MODULE Transfer ------------------------------
(***************************************************************************)
(* src/core/transfer.js: a memory written to a file and read into another  *)
(* one, or back into itself.                                               *)
(*                                                                         *)
(* An export is one SELECT after another and no transaction: a second      *)
(* process may write between two of them, and the file mixes the moments.  *)
(* An import is one transaction.  Ids are made once and for all, so an     *)
(* object that was erased comes back only from a file.                     *)
(*                                                                         *)
(* Derivations, runs, proposals and events travel as evidence or sources   *)
(* do and are left out; a dry run changes nothing and is left out too.     *)
(***************************************************************************)
EXTENDS Naturals, Sequences

CONSTANTS Stores,      \* memories that exchange files
          Things,      \* knowledge objects
          Links,       \* relations, all between the same kind of ends
          Quotes,      \* evidence, each with a source of its own
          MaxWritings  \* bound: what people write

ASSUME WritingsAssumption == MaxWritings \in Nat

VARIABLES kept,      \* store -> its tables
          writings,  \* how much was written so far
          made,      \* ids given out
          export,    \* the export under way or finished
          met,       \* ghost: store -> things a file spoke of while they were there
          torn       \* ghost: store -> things that came in from the middle of a change

transferVars == <<kept, writings, made, export, met, torn>>

NoHeir == "none"
Empty == [x \in {} |-> x]
Tables == <<"objects", "versions", "relations", "sources", "evidence", "conflicts">>
Whole == Len(Tables)

EmptyStore == [objects |-> Empty, versions |-> {}, relations |-> Empty, sources |-> {},
               evidence |-> Empty, conflicts |-> {}]
NoExport == [at |-> 0, from |-> NoHeir, file |-> EmptyStore, changed |-> {}, met |-> {}]

StoreOK(s) ==
    /\ DOMAIN s.objects \subseteq Things
    /\ \A o \in DOMAIN s.objects :
          s.objects[o] \in [head : 1..MaxWritings, writing : 1..MaxWritings, heir : Things \cup {NoHeir}]
    /\ s.versions \subseteq [object : Things, version : 1..MaxWritings, writing : 1..MaxWritings]
    /\ DOMAIN s.relations \subseteq Links
    /\ \A r \in DOMAIN s.relations : s.relations[r] \in [src : Things, dst : Things]
    /\ DOMAIN s.evidence \subseteq Quotes /\ s.sources \subseteq Quotes
    /\ \A q \in DOMAIN s.evidence : s.evidence[q] \in Things \cup Links
    /\ s.conflicts \subseteq Things \X Things

TransferTypeOK ==
    /\ \A s \in Stores : StoreOK(kept[s])
    /\ writings \in 0..MaxWritings
    /\ made \subseteq Things \cup Links \cup Quotes
    /\ export.at \in 0..Whole /\ StoreOK(export.file) /\ export.changed \cup export.met \subseteq Things
    /\ met \in [Stores -> SUBSET Things] /\ torn \in [Stores -> SUBSET Things]

TransferInit ==
    /\ kept = [s \in Stores |-> EmptyStore]
    /\ writings = 0 /\ made = {}
    /\ export = NoExport
    /\ met = [s \in Stores |-> {}] /\ torn = [s \in Stores |-> {}]
-----------------------------------------------------------------------------
Here(s, o) == o \in DOMAIN kept[s].objects
Only(f, S) == [x \in DOMAIN f \cap S |-> f[x]]
Joined(f, g) == [x \in DOMAIN f \cup DOMAIN g |-> IF x \in DOMAIN f THEN f[x] ELSE g[x]]

(* What people do: another table state of s, and no ids but fresh ones.    *)
Written(s, tables, ids) ==
    /\ writings < MaxWritings
    /\ writings' = writings + 1
    /\ ids \cap made = {}
    /\ made' = made \cup ids
    /\ kept' = [kept EXCEPT ![s] = tables]

Make(s, o) ==
    /\ Written(s, [kept[s] EXCEPT
           !.objects = Joined(@, [x \in {o} |-> [head |-> 1, writing |-> writings + 1, heir |-> NoHeir]]),
           !.versions = @ \cup {[object |-> o, version |-> 1, writing |-> writings + 1]}], {o})
    /\ UNCHANGED <<export, met, torn>>

(* The version row after the head must be free: its key is (id, version).  *)
CanEdit(s, o) == \A v \in kept[s].versions : v.object = o => v.version # kept[s].objects[o].head + 1

(* The rows of o change between the two tables that an export takes.       *)
Changes(s, o) == export' = IF export.at = 1 /\ export.from = s
                           THEN [export EXCEPT !.changed = @ \cup {o}] ELSE export

(* An edit, or with an heir the supersession by another object.            *)
Amend(s, o, heir) ==
    /\ Here(s, o) /\ CanEdit(s, o)
    /\ heir = NoHeir \/ (Here(s, heir) /\ heir # o)
    /\ LET head == kept[s].objects[o].head + 1 IN
       Written(s, [kept[s] EXCEPT
           !.objects[o] = [head |-> head, writing |-> writings + 1,
                           heir |-> IF heir = NoHeir THEN @.heir ELSE heir],
           !.versions = @ \cup {[object |-> o, version |-> head, writing |-> writings + 1]}], {})
    /\ Changes(s, o)
    /\ UNCHANGED <<met, torn>>

Same(r, q) == r.src = q.src /\ r.dst = q.dst
HasEdge(s, edge) == \E r \in DOMAIN kept[s].relations : Same(kept[s].relations[r], edge)

Connect(s, r, src, dst) ==
    /\ Here(s, src) /\ Here(s, dst) /\ src # dst
    /\ ~HasEdge(s, [src |-> src, dst |-> dst])
    /\ Written(s, [kept[s] EXCEPT !.relations = Joined(@, [x \in {r} |-> [src |-> src, dst |-> dst]])], {r})
    /\ UNCHANGED <<export, met, torn>>

Cite(s, q, target) ==
    /\ Here(s, target) \/ target \in DOMAIN kept[s].relations
    /\ Written(s, [kept[s] EXCEPT !.sources = @ \cup {q},
                                  !.evidence = Joined(@, [x \in {q} |-> target])], {q})
    /\ UNCHANGED <<export, met, torn>>

Disagree(s, a, b) ==
    /\ Here(s, a) /\ Here(s, b) /\ a # b /\ <<a, b>> \notin kept[s].conflicts
    /\ Written(s, [kept[s] EXCEPT !.conflicts = @ \cup {<<a, b>>}], {})
    /\ UNCHANGED <<export, met, torn>>

(* purge(); evidence about a relation that goes with its end stays.        *)
Purged(tables, o) ==
    [objects |-> [x \in DOMAIN tables.objects \ {o} |->
                    [tables.objects[x] EXCEPT !.heir = IF @ = o THEN NoHeir ELSE @]],
     versions |-> {v \in tables.versions : v.object # o},
     relations |-> Only(tables.relations, {r \in DOMAIN tables.relations :
                        o \notin {tables.relations[r].src, tables.relations[r].dst}}),
     sources |-> tables.sources,
     evidence |-> Only(tables.evidence, {q \in DOMAIN tables.evidence : tables.evidence[q] # o}),
     conflicts |-> {c \in tables.conflicts : o \notin {c[1], c[2]}}]

EraseThing(s, o) ==
    /\ Here(s, o)
    /\ Written(s, Purged(kept[s], o), {})
    /\ met' = [met EXCEPT ![s] = @ \ {o}]
    /\ torn' = [torn EXCEPT ![s] = @ \ {o}]
    /\ Changes(s, o)
-----------------------------------------------------------------------------
BeginExport(s) ==
    /\ export.at \in {0, Whole} /\ kept[s].objects # Empty
    /\ export' = [NoExport EXCEPT !.at = 1, !.from = s, !.file.objects = kept[s].objects,
                                  !.changed = torn[s], !.met = met[s]]
    /\ UNCHANGED <<kept, writings, made, met, torn>>

ExportNext ==
    /\ export.at \in 1..Whole - 1
    /\ export' = [export EXCEPT !.at = @ + 1,
                                !.file[Tables[export.at + 1]] = kept[export.from][Tables[export.at + 1]]]
    /\ UNCHANGED <<kept, writings, made, met, torn>>

(* The command dies, or its file is thrown away.                           *)
DropExport ==
    /\ export.at # 0
    /\ export' = NoExport
    /\ UNCHANGED <<kept, writings, made, met, torn>>
-----------------------------------------------------------------------------
(* What an import of the file makes of the tables t.  All the objects of   *)
(* the file are here after the first pass.                                 *)
Known(file) == DOMAIN file.objects

(* Rows that are here are kept, except that a replacement named in the     *)
(* file is set on all of them.                                             *)
ImportedObjects(t, file) ==
    LET all == Joined(t.objects, [o \in Known(file) |-> [file.objects[o] EXCEPT !.heir = NoHeir]])
        Named(o) == o \in Known(file) /\ file.objects[o].heir \in Known(file)
    IN [o \in DOMAIN all |-> IF Named(o) THEN [all[o] EXCEPT !.heir = file.objects[o].heir] ELSE all[o]]

ImportedVersions(t, file) ==
    t.versions \cup {v \in file.versions : v.object \in Known(file) /\
                       \A w \in t.versions : w.object # v.object \/ w.version # v.version}

(* A relation whose ends are known, that is not here already and that does *)
(* not double an edge.                                                     *)
Fits(t, file, r) ==
    /\ {file.relations[r].src, file.relations[r].dst} \subseteq Known(file)
    /\ r \in DOMAIN t.relations \/ \A q \in DOMAIN t.relations : ~Same(t.relations[q], file.relations[r])
KnownRelations(t, file) == {r \in DOMAIN file.relations : Fits(t, file, r)}

(* Mutant: evidence comes in with its source, whatever it is about. *)
AnyEvidence(t, file) == {q \in DOMAIN file.evidence : q \in file.sources}

KnownEvidence(t, file) ==
    {q \in DOMAIN file.evidence : /\ q \in file.sources
                                  /\ file.evidence[q] \in Known(file) \cup KnownRelations(t, file)}

Imported(t, file) ==
    [objects |-> ImportedObjects(t, file),
     versions |-> ImportedVersions(t, file),
     relations |-> Joined(t.relations, Only(file.relations, KnownRelations(t, file))),
     sources |-> t.sources \cup file.sources,
     evidence |-> Joined(t.evidence, Only(file.evidence, KnownEvidence(t, file))),
     conflicts |-> t.conflicts \cup {c \in file.conflicts : {c[1], c[2]} \subseteq Known(file)}]

Import(s) ==
    /\ export.at = Whole
    /\ kept' = [kept EXCEPT ![s] = Imported(@, export.file)]
    /\ met' = [met EXCEPT ![s] = @ \cup {o \in Known(export.file) : Here(s, o)} \cup export.met]
    /\ torn' = [torn EXCEPT ![s] = @ \cup {o \in export.changed : ~Here(s, o)}]
    /\ UNCHANGED <<writings, made, export>>

TransferNext ==
    \/ \E s \in Stores, o \in Things :
          \/ Make(s, o) \/ EraseThing(s, o)
          \/ \E heir \in Things \cup {NoHeir} : Amend(s, o, heir)
          \/ \E b \in Things : Disagree(s, o, b)
          \/ \E dst \in Things, r \in Links : Connect(s, r, o, dst)
    \/ \E s \in Stores, q \in Quotes, target \in Things \cup Links : Cite(s, q, target)
    \/ \E s \in Stores : BeginExport(s) \/ Import(s)
    \/ ExportNext \/ DropExport

TransferSpec == TransferInit /\ [][TransferNext]_transferVars
-----------------------------------------------------------------------------
(* "It must not be a way around the invariants": whatever was written or   *)
(* erased between two tables of an export, and whatever was here before,   *)
(* no evidence or conflict is about an object that is not here, and the    *)
(* version an object has as its head is there and was written with it.     *)
(* Nor is there a version beyond the head, which would make the next edit  *)
(* fail, unless the object was here already when a file spoke of it.       *)
(* Excepted is what changed between the objects and the versions of an     *)
(* export, and what an export took from there.                             *)
ImportedMemoryIsWhole ==
    \A s \in Stores :
       LET t == kept[s] IN
       /\ \A q \in DOMAIN t.evidence : t.evidence[q] \in DOMAIN t.objects \cup Links
       /\ \A c \in t.conflicts : {c[1], c[2]} \subseteq DOMAIN t.objects
       /\ \A o \in DOMAIN t.objects \ torn[s] :
             /\ [object |-> o, version |-> t.objects[o].head, writing |-> t.objects[o].writing] \in t.versions
             /\ o \notin met[s] => CanEdit(s, o)
=============================================================================
