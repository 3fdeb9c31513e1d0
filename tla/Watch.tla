-------------------------------- MODULE Watch --------------------------------
(***************************************************************************)
(* src/capture/watch.js with watch(), ingestFolder() and ingest() of       *)
(* src/chitraq.js, as "chitraq watch" runs them: catch up with the folder, *)
(* then capture what changes in it, until told to stop.                    *)
(*                                                                         *)
(* People save and delete files at any moment.  Timers, stat and the read  *)
(* of a file are separate moments with a save possible between any two.    *)
(* Every save gives a file new bytes and a new time, so that a version is  *)
(* a number; of its size only empty or not matters.                        *)
(***************************************************************************)
EXTENDS Naturals

CONSTANTS Paths,    \* files of the folder that the plan admits
          MaxSaves  \* bound: how often files are saved

ASSUME MaxSavesAssumption == MaxSaves \in Nat

VARIABLES file,       \* path -> its version (0 when missing) and size
          saves,      \* versions made so far
          captured,   \* table source: versions captured from a file
          read,       \* those whose claims were extracted and proposed
          known,      \* what #capturedFiles says of a path: version when looked at, or 0
          phase,      \* "off", "catching up", "watching" or "stopped"
          events,     \* paths the system has still to tell of
          pending,    \* path -> entry with its timer, or NoEntry
          loose,      \* timers that run but are not in pending any more
          admitting,  \* callbacks past their timer
          handed,     \* lastCaptured: path -> version, or 0
          queue,
          batch,      \* the capture that runs, or NoBatch
          done,       \* the promise has resolved
          late,       \* ghost: a loose timer fired after stop()
          excused     \* ghost: paths whose last save the code knowingly lets go

diskVars == <<file, saves>>
storeVars == <<captured, read, known>>
watcherVars == <<events, pending, loose, admitting, handed, queue, batch, done, late>>
watchVars == <<diskVars, storeVars, phase, watcherVars, excused>>

Versions == 1..MaxSaves
Sizes == {"empty", "full"}
Missing == [version |-> 0, size |-> "none"]
NoEntry == [size |-> "none", timer |-> FALSE]
NoBatch == [stage |-> "none"]
Nothing == <<>>

WatchTypeOK ==
    /\ \A p \in Paths : file[p] = Missing \/ file[p] \in [version : Versions, size : Sizes]
    /\ saves \in 0..MaxSaves
    /\ captured \subseteq Versions /\ read \subseteq captured
    /\ known \in [Paths -> 0..MaxSaves] /\ handed \in [Paths -> 0..MaxSaves]
    /\ phase \in {"off", "catching up", "watching", "stopped"}
    /\ events \subseteq Paths /\ queue \subseteq Paths /\ excused \subseteq Paths
    /\ \A p \in Paths : pending[p] = NoEntry \/ pending[p] \in [size : Sizes \cup {"unknown"}, timer : BOOLEAN]
    /\ loose \subseteq [path : Paths, size : Sizes \cup {"unknown"}]
    /\ admitting \subseteq [path : Paths, size : Sizes \cup {"unknown"}, print : 0..MaxSaves]
    /\ \/ batch = NoBatch
       \/ batch.stage = "look" /\ batch.paths \subseteq Paths
       \/ batch.stage = "go" /\ DOMAIN batch.todo \subseteq Paths
    /\ done \in BOOLEAN /\ late \in BOOLEAN

FreshWatcher ==
    /\ events' = {} /\ pending' = [p \in Paths |-> NoEntry] /\ loose' = {} /\ admitting' = {}
    /\ handed' = [p \in Paths |-> 0] /\ queue' = {} /\ done' = FALSE /\ late' = FALSE

WatchInit ==
    /\ file = [p \in Paths |-> Missing] /\ saves = 0
    /\ captured = {} /\ read = {} /\ known = [p \in Paths |-> 0]
    /\ phase = "off"
    /\ events = {} /\ pending = [p \in Paths |-> NoEntry] /\ loose = {} /\ admitting = {}
    /\ handed = [p \in Paths |-> 0] /\ queue = {} /\ batch = NoBatch
    /\ done = FALSE /\ late = FALSE /\ excused = {}
-----------------------------------------------------------------------------
There(p) == file[p] # Missing
Tell(p) == events' = IF phase = "watching" THEN events \cup {p} ELSE events
StillWatcher == UNCHANGED <<pending, loose, admitting, handed, queue, batch, done, late>>

(* What is saved while the folder is caught up with is not waited for: the *)
(* watcher starts after it.                                                *)
Save(p, size) ==
    /\ saves < MaxSaves
    /\ saves' = saves + 1
    /\ file' = [file EXCEPT ![p] = [version |-> saves', size |-> size]]
    /\ Tell(p)
    /\ excused' = IF phase = "catching up" THEN excused \cup {p} ELSE excused \ {p}
    /\ UNCHANGED <<storeVars, phase>> /\ StillWatcher

Delete(p) ==
    /\ There(p)
    /\ file' = [file EXCEPT ![p] = Missing]
    /\ Tell(p)
    /\ UNCHANGED <<saves, storeVars, phase, excused>> /\ StillWatcher
-----------------------------------------------------------------------------
(* note(): the timer restarts, and the size is looked at when unknown.     *)
Noted(p) == [size |-> IF pending[p] = NoEntry THEN "unknown" ELSE pending[p].size, timer |-> TRUE]

Deliver(p) ==
    /\ phase = "watching" /\ p \in events
    /\ events' = events \ {p}
    /\ pending' = [pending EXCEPT ![p] = Noted(p)]
    /\ UNCHANGED <<diskVars, storeVars, phase, loose, admitting, handed, queue, batch, done, late, excused>>

SizeKnown(p) ==
    /\ pending[p].size = "unknown" /\ There(p)
    /\ pending' = [pending EXCEPT ![p].size = file[p].size]
    /\ UNCHANGED <<diskVars, storeVars, phase, events, loose, admitting, handed, queue, batch, done, late, excused>>

(* The callback of a timer; print is set once the file was found settled.  *)
Callback(p, size) == [path |-> p, size |-> size, print |-> 0]

TimerFires(p) ==
    /\ pending[p].timer
    /\ pending' = [pending EXCEPT ![p].timer = FALSE]
    /\ admitting' = admitting \cup {Callback(p, pending[p].size)}
    /\ UNCHANGED <<diskVars, storeVars, phase, events, loose, handed, queue, batch, done, late, excused>>

LooseTimerFires(t) ==
    /\ t \in loose
    /\ loose' = loose \ {t}
    /\ admitting' = admitting \cup {Callback(t.path, t.size)}
    /\ late' = (late \/ phase = "stopped")
    /\ UNCHANGED <<diskVars, storeVars, phase, events, pending, handed, queue, batch, done, excused>>

(* maybeFinish, where work ends or the watch is stopped.                   *)
MaybeFinish == done' = (done \/ (phase' = "stopped" /\ batch' = NoBatch /\ queue' = {} /\ admitting' = {}))

(* The entry of p is deleted or replaced by whoever finds the file; a      *)
(* timer that a newer event has started meanwhile runs on unseen.          *)
LetLoose(p) == loose' = IF pending[p].timer THEN loose \cup {[path |-> p, size |-> pending[p].size]} ELSE loose

(* Mutant: a file that has kept its size counts as unchanged. *)
FingerprintBySize(p) == IF handed[p] # 0 THEN handed[p] ELSE file[p].version

(* size:mtimeMs *)
Fingerprint(p) == file[p].version

Settle(a) ==
    LET p == a.path IN
    /\ a \in admitting /\ a.print = 0
    /\ LetLoose(p)
    /\ IF There(p) /\ file[p].size # a.size
       THEN /\ pending' = [pending EXCEPT ![p] = [size |-> file[p].size, timer |-> phase = "watching"]]
            /\ admitting' = admitting \ {a}
       ELSE /\ pending' = [pending EXCEPT ![p] = NoEntry]
            /\ admitting' = IF ~There(p) \/ handed[p] = Fingerprint(p)
                            THEN admitting \ {a}
                            ELSE (admitting \ {a}) \cup {[a EXCEPT !.print = Fingerprint(p)]}
    /\ UNCHANGED <<diskVars, storeVars, phase, events, handed, queue, batch, late, excused>>
    /\ MaybeFinish

(* queue.add and drain(): one batch at a time.                             *)
Drain(waiting) ==
    IF batch = NoBatch THEN queue' = {} /\ batch' = [stage |-> "look", paths |-> waiting]
                       ELSE queue' = waiting /\ UNCHANGED batch

(* The plan has the file, unless it is empty or gone by now.               *)
Admit(a) ==
    LET p == a.path IN
    /\ a \in admitting /\ a.print # 0
    /\ admitting' = admitting \ {a}
    /\ IF file[p].size = "full"
       THEN handed' = [handed EXCEPT ![p] = a.print] /\ Drain(queue \cup {p})
       ELSE UNCHANGED <<handed, queue, batch>>
    /\ UNCHANGED <<diskVars, storeVars, phase, events, pending, loose, late, excused>>
    /\ MaybeFinish

(* A folder that cannot be walked admits nothing, and nobody asks again.   *)
PlanFails(a) ==
    /\ a \in admitting /\ a.print # 0
    /\ admitting' = admitting \ {a}
    /\ excused' = IF a.print = file[a.path].version THEN excused \cup {a.path} ELSE excused
    /\ UNCHANGED <<diskVars, storeVars, phase, events, pending, loose, handed, queue, batch, late>>
    /\ MaybeFinish
-----------------------------------------------------------------------------
Snapshot(S) == [p \in S |-> file[p].version]
Going(todo, at) == [stage |-> "go", todo |-> todo, at |-> at]

(* capture() looks at every path of the batch before it reads the first.   *)
Look ==
    /\ batch.stage = "look"
    /\ batch' = Going(Snapshot({p \in batch.paths : There(p)}), Nothing)
    /\ UNCHANGED <<diskVars, storeVars, phase, events, pending, loose, admitting, handed, queue, done, late, excused>>

Rest(p) == [q \in DOMAIN batch.todo \ {p} |-> batch.todo[q]]
OnTo(p) == batch.stage = "go" /\ batch.at = Nothing /\ p \in DOMAIN batch.todo

(* What is given up is let go for good, unless it was saved again and that *)
(* save is still on its way.                                               *)
ComesAgain(p) ==
    /\ phase # "catching up" /\ handed[p] # file[p].version
    /\ \/ p \in events \cup queue \/ pending[p].timer
       \/ \E t \in loose : t.path = p
       \/ \E a \in admitting : a.path = p /\ a.print \in {0, file[p].version}
GiveUp(S) == excused' = excused \cup {p \in S : ~ComesAgain(p)}
StillWaiting == UNCHANGED <<diskVars, phase, events, pending, loose, admitting, handed, queue, done, late>>

(* Not touched since it was captured, or the same text under the same name.*)
Skip(p) ==
    /\ OnTo(p)
    /\ known[p] = batch.todo[p] \/ (There(p) /\ file[p].version \in captured)
    /\ batch' = Going(Rest(p), Nothing)
    /\ UNCHANGED <<storeVars, excused>> /\ StillWaiting

(* The file is read as it is now; the record of it keeps the time it was   *)
(* looked at.  Extraction is a capability call and is awaited.             *)
Capture(p) ==
    /\ OnTo(p) /\ known[p] # batch.todo[p]
    /\ There(p) /\ file[p].version \notin captured
    /\ captured' = captured \cup {file[p].version}
    /\ known' = [known EXCEPT ![p] = batch.todo[p]]
    /\ batch' = Going(Rest(p), IF file[p].size = "full" THEN <<p, file[p].version>> ELSE Nothing)
    /\ UNCHANGED <<read, excused>> /\ StillWaiting

Extract ==
    /\ batch.stage = "go" /\ batch.at # Nothing
    /\ read' = read \cup {batch.at[2]}
    /\ batch' = Going(batch.todo, Nothing)
    /\ UNCHANGED <<captured, known, excused>> /\ StillWaiting

(* One file fails: it is gone, it cannot be parsed, or what is proposed    *)
(* from it cannot be written.                                              *)
FileFails ==
    /\ batch.stage = "go"
    /\ \/ \E p \in DOMAIN batch.todo :
             OnTo(p) /\ known[p] # batch.todo[p] /\ batch' = Going(Rest(p), Nothing) /\ GiveUp({p})
       \/ /\ batch.at # Nothing
          /\ batch' = Going(batch.todo, Nothing)
          /\ excused' = IF batch.at[2] = file[batch.at[1]].version THEN excused \cup {batch.at[1]} ELSE excused
    /\ UNCHANGED storeVars /\ StillWaiting

(* A batch has ended, the next one begins.                                 *)
AfterBatch ==
    /\ batch' = IF queue = {} THEN NoBatch ELSE [stage |-> "look", paths |-> queue]
    /\ queue' = {}

BatchEnds ==
    /\ batch.stage = "go" /\ batch.at = Nothing /\ DOMAIN batch.todo = {}
    /\ phase # "catching up"
    /\ AfterBatch
    /\ UNCHANGED <<diskVars, storeVars, phase, events, pending, loose, admitting, handed, late, excused>>
    /\ MaybeFinish

(* The store is locked when the batch asks what it knows.                  *)
BatchFails ==
    /\ batch.stage = "look"
    /\ AfterBatch
    /\ GiveUp(batch.paths)
    /\ UNCHANGED <<diskVars, storeVars, phase, events, pending, loose, admitting, handed, late>>
    /\ MaybeFinish
-----------------------------------------------------------------------------
(* "chitraq watch" starts by capturing the folder as it is, ...            *)
Start ==
    /\ phase = "off"
    /\ phase' = "catching up"
    /\ batch' = Going(Snapshot({p \in Paths : file[p].size = "full"}), Nothing)
    /\ FreshWatcher
    /\ UNCHANGED <<diskVars, storeVars, excused>>

(* ... and only then asks the system for events.                           *)
StartWatching ==
    /\ phase = "catching up" /\ batch.at = Nothing /\ DOMAIN batch.todo = {}
    /\ phase' = "watching" /\ batch' = NoBatch
    /\ FreshWatcher
    /\ UNCHANGED <<diskVars, storeVars, excused>>

Stop ==
    /\ phase = "watching"
    /\ phase' = "stopped"
    /\ events' = {} /\ pending' = [p \in Paths |-> NoEntry]
    /\ UNCHANGED <<diskVars, storeVars, loose, admitting, handed, queue, batch, late, excused>>
    /\ MaybeFinish

(* The command ends when done resolves, or the process dies.  A text that  *)
(* was captured and not read for claims stays so: it counts as captured.   *)
End ==
    /\ phase # "off"
    /\ phase' = "off" /\ batch' = NoBatch
    /\ FreshWatcher
    /\ excused' = IF batch.stage = "go" /\ batch.at # Nothing
                  THEN excused \cup {p \in Paths : batch.at = <<p, file[p].version>>} ELSE excused
    /\ UNCHANGED <<diskVars, storeVars>>

WatchNext ==
    \/ \E p \in Paths, size \in Sizes : Save(p, size)
    \/ \E p \in Paths : Delete(p) \/ Deliver(p) \/ SizeKnown(p) \/ TimerFires(p) \/ Skip(p) \/ Capture(p)
    \/ \E t \in loose : LooseTimerFires(t)
    \/ \E a \in admitting : Settle(a) \/ Admit(a) \/ PlanFails(a)
    \/ Look \/ Extract \/ FileFails \/ BatchEnds \/ BatchFails
    \/ Start \/ StartWatching \/ Stop \/ End

WatchSpec == WatchInit /\ [][WatchNext]_watchVars
-----------------------------------------------------------------------------
Working == batch # NoBatch \/ queue # {} \/ admitting # {}
Waiting == events # {} \/ loose # {} \/ \E p \in Paths : pending[p].timer

(* Once a watch has come to rest, what a file says has been captured and   *)
(* read for claims, whatever order saves, timers and captures came in:     *)
(* unless the last save fell into the catching up, or the code gave the    *)
(* file up (it could not be read, the store was locked, or an earlier run  *)
(* died between capturing its text and reading it).  And after done the    *)
(* watch starts nothing, but for a timer that stop() could not see.        *)
SettledSavesAreCaptured ==
    /\ phase = "watching" /\ ~Working /\ ~Waiting =>
          \A p \in Paths : file[p].size = "full" /\ p \notin excused => file[p].version \in read
    /\ done /\ ~late => ~Working
=============================================================================
