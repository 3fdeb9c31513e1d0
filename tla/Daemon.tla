------------------------------- MODULE Daemon -------------------------------
(***************************************************************************)
(* src/core/daemon.js and the watch command of src/cli/chitraq.js: one     *)
(* watcher of a folder at a time, by a record file that names a process.   *)
(*                                                                         *)
(* The record is read and written without a lock by commands that start,   *)
(* stop and watch; the steps of two of them may fall in between.  Process  *)
(* ids are reused: a stranger is a process that has nothing to do with     *)
(* Chitraq and got the id of one that ended.                               *)
(***************************************************************************)
EXTENDS Naturals, FiniteSets

CONSTANTS Pids,         \* process ids
          MaxStarts,    \* bound: watch commands ever started
          MaxSilences,  \* bound: how often a record goes without news for 90 seconds
          MaxStops,     \* bound: --stop commands
          MaxSlowBeats  \* bound: heartbeats that others step into, between read and write

ASSUME StartsAssumption == MaxStarts \in Nat /\ MaxSilences \in Nat
ASSUME StopsAssumption == MaxStops \in Nat /\ MaxSlowBeats \in Nat

VARIABLES record,     \* the record file: [pid, fresh], or NoRecord
          process,    \* pid -> what runs under it
          beating,    \* watchers that have read their record and will write it
          stopping,   \* a --stop has signalled and will clear the record
          used        \* how much of each bound is used up

daemonVars == <<record, process, beating, stopping, used>>

NoRecord == [pid |-> 0, fresh |-> FALSE]
Own(p) == [pid |-> p, fresh |-> TRUE]

(* A launcher is the command run with --background.                        *)
Stages == {"absent", "stranger", "starting", "claiming", "catching up", "watching", "leaving",
           "clearing", "launcher starting", "launcher claiming", "launcher claimed"}
Bounds == [starts : 0..MaxStarts, silences : 0..MaxSilences, stops : 0..MaxStops,
           slowBeats : 0..MaxSlowBeats]

DaemonTypeOK ==
    /\ record \in [pid : Pids, fresh : BOOLEAN] \cup {NoRecord}
    /\ process \in [Pids -> Stages]
    /\ beating \subseteq Pids
    /\ stopping \in BOOLEAN
    /\ used \in Bounds

DaemonInit ==
    /\ record = NoRecord
    /\ process = [p \in Pids |-> "absent"]
    /\ beating = {}
    /\ stopping = FALSE
    /\ used = [starts |-> 0, silences |-> 0, stops |-> 0, slowBeats |-> 0]
-----------------------------------------------------------------------------
Becomes(p, stage) == process' = [process EXCEPT ![p] = stage]

(* What runs under a claim: from then on there is a heartbeat.             *)
Beats(p) == process[p] \in {"catching up", "watching", "leaving"}

(* state()                                                                 *)
Alive == process[record.pid] # "absent"
Status == IF record = NoRecord THEN "none"
          ELSE IF ~Alive THEN "stale"
          ELSE IF record.fresh THEN "running" ELSE "foreign"

(* Mutant: a watcher only asks whether there is a record. *)
AnyRecordIsOurs(p) == record # NoRecord

(* stillOurs()                                                             *)
StillOurs(p) == record.pid = p

Launch(p, stage) ==
    /\ process[p] = "absent" /\ used.starts < MaxStarts
    /\ Becomes(p, stage)
    /\ used' = [used EXCEPT !.starts = @ + 1]
    /\ UNCHANGED <<record, beating, stopping>>

(* claim(): read the record, remove a meaningless one, ...                 *)
Claim(p, before, next) ==
    /\ process[p] = before
    /\ Becomes(p, IF Status = "running" THEN "absent" ELSE next)
    /\ record' = IF Status = "foreign" THEN NoRecord ELSE record
    /\ UNCHANGED <<beating, stopping, used>>

(* ... and write one's own.                                                *)
WriteClaim(p, before, next) ==
    /\ process[p] = before
    /\ record' = Own(p)
    /\ Becomes(p, next)
    /\ UNCHANGED <<beating, stopping, used>>

(* --background claims for a child that is not there yet, takes the claim  *)
(* back, and starts the child, which claims for itself.                    *)
Release(p, child) ==
    /\ process[p] = "launcher claimed" /\ process[child] = "absent"
    /\ record' = NoRecord
    /\ process' = [process EXCEPT ![p] = "absent", ![child] = "starting"]
    /\ UNCHANGED <<beating, stopping, used>>

CaughtUp(p) ==
    /\ process[p] = "catching up" /\ p \notin beating
    /\ Becomes(p, "watching")
    /\ UNCHANGED <<record, beating, stopping, used>>

(* heartbeat(): whoever reads another's record writes nothing.  In one go, *)
(* as far as others can see, ...                                           *)
Beat(p) ==
    /\ Beats(p) /\ record = [pid |-> p, fresh |-> FALSE]
    /\ record' = Own(p)
    /\ UNCHANGED <<process, beating, stopping, used>>

(* ... or with others stepping in after the read.                          *)
BeatReads(p) ==
    /\ Beats(p) /\ p \notin beating /\ record.pid = p
    /\ used.slowBeats < MaxSlowBeats
    /\ used' = [used EXCEPT !.slowBeats = @ + 1]
    /\ beating' = beating \cup {p}
    /\ UNCHANGED <<record, process, stopping>>

BeatWrites(p) ==
    /\ p \in beating
    /\ record' = Own(p)
    /\ beating' = beating \ {p}
    /\ UNCHANGED <<process, stopping, used>>

Poll(p) ==
    /\ process[p] = "watching" /\ p \notin beating /\ ~StillOurs(p)
    /\ Becomes(p, "leaving")
    /\ UNCHANGED <<record, beating, stopping, used>>

(* The watch is over: the heartbeat stops and the record goes, if it is    *)
(* one's own when looked at.                                               *)
Leave(p) ==
    /\ process[p] = "leaving" /\ p \notin beating
    /\ Becomes(p, IF StillOurs(p) THEN "clearing" ELSE "absent")
    /\ UNCHANGED <<record, beating, stopping, used>>

Clear(p) ==
    /\ process[p] = "clearing"
    /\ record' = NoRecord
    /\ Becomes(p, "absent")
    /\ UNCHANGED <<beating, stopping, used>>
-----------------------------------------------------------------------------
(* stop(): SIGTERM to the process of a fresh record.  A watcher leaves, a  *)
(* signal may be missed, and without a handler the process ends.           *)
Signalled(p) == IF process[p] \in {"watching", "leaving"} THEN {"leaving", process[p]}
                ELSE IF process[p] = "clearing" THEN {"clearing"} ELSE {"absent"}

StopSignals(stage) ==
    /\ ~stopping /\ used.stops < MaxStops /\ Status = "running"
    /\ stage \in Signalled(record.pid)
    /\ Becomes(record.pid, stage)
    /\ beating' = IF stage = "absent" THEN beating \ {record.pid} ELSE beating
    /\ stopping' = TRUE
    /\ used' = [used EXCEPT !.stops = @ + 1]
    /\ UNCHANGED record

StopFindsLeftover ==
    /\ ~stopping /\ used.stops < MaxStops /\ Status = "stale"
    /\ stopping' = TRUE
    /\ used' = [used EXCEPT !.stops = @ + 1]
    /\ UNCHANGED <<record, process, beating>>

StopClears ==
    /\ stopping
    /\ stopping' = FALSE
    /\ record' = NoRecord
    /\ UNCHANGED <<process, beating, used>>
-----------------------------------------------------------------------------
(* A process is killed, or a stranger ends.                                *)
Ends(p) ==
    /\ process[p] # "absent"
    /\ Becomes(p, "absent")
    /\ beating' = beating \ {p}
    /\ UNCHANGED <<record, stopping, used>>

(* An id is used again.                                                    *)
Recycled(p) ==
    /\ process[p] = "absent" /\ record.pid = p
    /\ Becomes(p, "stranger")
    /\ UNCHANGED <<record, beating, stopping, used>>

(* Ninety seconds without news: the process is gone, or it is stuck.       *)
GoesSilent ==
    /\ record.fresh /\ used.silences < MaxSilences
    /\ record' = [record EXCEPT !.fresh = FALSE]
    /\ used' = [used EXCEPT !.silences = @ + 1]
    /\ UNCHANGED <<process, beating, stopping>>

Progress(p) ==
    \/ CaughtUp(p) \/ Poll(p) \/ Leave(p) \/ Clear(p)
    \/ WriteClaim(p, "claiming", "catching up")

DaemonNext ==
    \/ \E p \in Pids :
          \/ Launch(p, "starting") \/ Launch(p, "launcher starting")
          \/ Claim(p, "starting", "claiming") \/ Claim(p, "launcher starting", "launcher claiming")
          \/ WriteClaim(p, "launcher claiming", "launcher claimed")
          \/ Progress(p) \/ Beat(p) \/ BeatReads(p) \/ BeatWrites(p)
          \/ Ends(p) \/ Recycled(p)
    \/ \E p, child \in Pids : Release(p, child)
    \/ \E stage \in Stages : StopSignals(stage)
    \/ StopFindsLeftover \/ StopClears \/ GoesSilent

(* Whoever runs goes on running: a watcher polls every two seconds, a      *)
(* heartbeat that has read writes, and a stopped watcher finishes.         *)
DaemonFairness == \A p \in Pids : WF_daemonVars(Progress(p)) /\ WF_daemonVars(BeatWrites(p))
DaemonSpec == DaemonInit /\ [][DaemonNext]_daemonVars /\ DaemonFairness
-----------------------------------------------------------------------------
(* "There is already one" cannot be promised by a record without a lock,   *)
(* but this can: when no more commands are started, at most one process    *)
(* goes on watching, however their claims, heartbeats, stops and deaths    *)
(* crossed.                                                                *)
OneWatcherInTheEnd == <>[](Cardinality({p \in Pids : process[p] = "watching"}) <= 1)
=============================================================================
