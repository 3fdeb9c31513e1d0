------------------------------ MODULE Routing ------------------------------
(***************************************************************************)
(* src/intelligence/router.js, registry.js and budget.js: finding a        *)
(* provider for a capability and running it.                               *)
(*                                                                         *)
(* Several calls are under way in one process.  A call asks of each        *)
(* provider in turn whether policy, budget and health let it serve, and    *)
(* lets others go on whenever it awaits that answer; it runs the best of   *)
(* those left and falls through to the next when one fails.  The bill is   *)
(* written when a run has answered, under the day it was started on.       *)
(***************************************************************************)
EXTENDS Naturals, FiniteSets, Sequences, SequencesExt, FiniteSetsExt

CONSTANTS Calls,       \* calls of run() that may be under way at once
          Ranking,     \* the providers, best first under the policy
          Probed,      \* those with an available() check
          Cost,        \* provider -> costMicros of one call
          Refused,     \* those policy rejects: denied, remote, paid or too dear
          DailyLimit,  \* policy.budget.dailyMicros
          LastDay,     \* bound: days that pass
          Nobody       \* no provider

Providers == ToSet(Ranking)

ASSUME ProvidersAssumption ==
    /\ Ranking \in Seq(Providers)
    /\ Probed \subseteq Providers /\ Refused \subseteq Providers
    /\ Cost \in [Providers -> Nat] /\ Nobody \notin Providers
ASSUME CallsAssumption == IsFiniteSet(Calls) /\ Calls # {}
ASSUME LimitAssumption == DailyLimit \in Nat /\ LastDay \in Nat

VARIABLES registered,  \* providers in the registry
          health,      \* healthCache: what is known and still fresh
          lastKnown,   \* lastKnownHealth
          reported,    \* ghost: what the last event said of a provider since it registered
          repeated,    \* ghost: an event said what the one before it had said
          spent,       \* micros of the runs started on each day
          day,
          call         \* call -> what it is doing

routingVars == <<registered, health, lastKnown, reported, repeated, spent, day, call>>
healthVars == <<health, lastKnown, reported, repeated>>

Verdicts == {"up", "down", "unknown"}
Unknown == [p \in Providers |-> "unknown"]
NoCall == [stage |-> "idle", todo |-> {}, eligible |-> {}, with |-> Nobody, since |-> 0]

RoutingTypeOK ==
    /\ registered \subseteq Providers
    /\ health \in [Providers -> Verdicts]
    /\ lastKnown \in [Providers -> Verdicts]
    /\ reported \in [Providers -> Verdicts]
    /\ repeated \in BOOLEAN
    /\ spent \in [0..LastDay -> Nat]
    /\ day \in 0..LastDay
    /\ DOMAIN call = Calls
    /\ \A c \in Calls :
          /\ call[c].stage \in {"idle", "selecting", "probing", "running"}
          /\ call[c].todo \subseteq Providers
          /\ call[c].eligible \subseteq Providers
          /\ call[c].with \in Providers \cup {Nobody}
          /\ call[c].since \in 0..LastDay

RoutingInit ==
    /\ registered = Providers
    /\ health = Unknown /\ lastKnown = Unknown /\ reported = Unknown
    /\ repeated = FALSE
    /\ spent = [d \in 0..LastDay |-> 0]
    /\ day = 0
    /\ call = [c \in Calls |-> NoCall]
-----------------------------------------------------------------------------
(* Mutant: whatever has some of the budget left may be called. *)
AffordableWhileAnyIsLeft(p) == Cost[p] = 0 \/ spent[day] < DailyLimit

(* budget.check, for the daily ceiling.  A free call is never blocked.     *)
Affordable(p) == Cost[p] = 0 \/ spent[day] + Cost[p] <= DailyLimit

Begin(c) ==
    /\ call[c].stage = "idle"
    /\ call' = [call EXCEPT ![c] = [NoCall EXCEPT !.stage = "selecting", !.todo = registered]]
    /\ UNCHANGED <<registered, healthVars, spent, day>>

Rejects(p) == p \in Refused \/ ~Affordable(p) \/ (p \in Probed /\ health[p] = "down")

(* The providers are decided one by one in the order they were registered  *)
(* in, which may be any: each without asking it, ...                       *)
Consider(c, p) ==
    /\ call[c].stage = "selecting" /\ p \in call[c].todo
    /\ Rejects(p) \/ p \notin Probed \/ health[p] = "up"
    /\ call' = [call EXCEPT ![c].todo = @ \ {p},
                            ![c].eligible = IF Rejects(p) THEN @ ELSE @ \cup {p}]
    /\ UNCHANGED <<registered, healthVars, spent, day>>

(* ... or with a probe first.                                              *)
Probe(c, p) ==
    /\ call[c].stage = "selecting" /\ p \in call[c].todo
    /\ ~Rejects(p) /\ p \in Probed /\ health[p] = "unknown"
    /\ call' = [call EXCEPT ![c].stage = "probing", ![c].todo = @ \ {p}, ![c].with = p]
    /\ UNCHANGED <<registered, healthVars, spent, day>>

ProbeAnswers(c, verdict) ==
    /\ call[c].stage = "probing"
    /\ LET p == call[c].with
           changed == lastKnown[p] \notin {"unknown", verdict}
       IN
       /\ health' = [health EXCEPT ![p] = verdict]
       /\ lastKnown' = [lastKnown EXCEPT ![p] = verdict]
       /\ reported' = IF changed THEN [reported EXCEPT ![p] = verdict] ELSE reported
       /\ repeated' = (repeated \/ (changed /\ reported[p] = verdict))
       /\ call' = [call EXCEPT ![c].stage = "selecting", ![c].with = Nobody,
                               ![c].eligible = IF verdict = "up" THEN @ \cup {p} ELSE @]
    /\ UNCHANGED <<registered, spent, day>>

(* The first of a set in the order of preference.                          *)
Best(S) == Ranking[Min({i \in DOMAIN Ranking : Ranking[i] \in S})]

(* What is tried next: the best that is left, or nobody.                   *)
Try(c, S) == IF S = {} THEN NoCall
             ELSE [call[c] EXCEPT !.stage = "running", !.with = Best(S),
                                  !.eligible = S \ {Best(S)}, !.since = day]

Run(c) ==
    /\ call[c].stage = "selecting" /\ call[c].todo = {}
    /\ call' = [call EXCEPT ![c] = Try(c, call[c].eligible)]
    /\ UNCHANGED <<registered, healthVars, spent, day>>

(* #record: the row of a run, dated to its start, is what the budget adds  *)
(* up.                                                                     *)
Record(c, cost) == spent' = [spent EXCEPT ![call[c].since] = @ + cost]

RunAnswers(c) ==
    /\ call[c].stage = "running"
    /\ Record(c, Cost[call[c].with])
    /\ call' = [call EXCEPT ![c] = NoCall]
    /\ UNCHANGED <<registered, healthVars, day>>

(* An error or a timeout: the provider counts as down, the run is recorded *)
(* at no cost, and the next provider is tried.                             *)
RunFails(c) ==
    /\ call[c].stage = "running"
    /\ health' = [health EXCEPT ![call[c].with] = "down"]
    /\ Record(c, 0)
    /\ call' = [call EXCEPT ![c] = Try(c, call[c].eligible)]
    /\ UNCHANGED <<registered, lastKnown, reported, repeated, day>>
-----------------------------------------------------------------------------
(* Mutant: forgetting the fresh verdicts forgets what was last known. *)
KnownAfterResetForgets == Unknown

(* resetHealth keeps the last known state, so that a change is noticed.    *)
KnownAfterReset == lastKnown

ResetHealth ==
    /\ health' = Unknown
    /\ lastKnown' = KnownAfterReset
    /\ UNCHANGED <<registered, reported, repeated, spent, day, call>>

(* Thirty seconds after it was noted a verdict is asked for again.         *)
HealthExpires(p) ==
    /\ health[p] # "unknown"
    /\ health' = [health EXCEPT ![p] = "unknown"]
    /\ UNCHANGED <<registered, lastKnown, reported, repeated, spent, day, call>>

Unregister(p) ==
    /\ p \in registered
    /\ registered' = registered \ {p}
    /\ health' = [health EXCEPT ![p] = "unknown"]
    /\ lastKnown' = [lastKnown EXCEPT ![p] = "unknown"]
    /\ reported' = [reported EXCEPT ![p] = "unknown"]
    /\ UNCHANGED <<repeated, spent, day, call>>

Register(p) ==
    /\ p \notin registered
    /\ registered' = registered \cup {p}
    /\ UNCHANGED <<healthVars, spent, day, call>>

Midnight ==
    /\ day < LastDay
    /\ day' = day + 1
    /\ UNCHANGED <<registered, healthVars, spent, call>>

RoutingNext ==
    \/ \E c \in Calls : Begin(c) \/ Run(c) \/ RunAnswers(c) \/ RunFails(c)
    \/ \E c \in Calls, p \in Providers : Consider(c, p) \/ Probe(c, p)
    \/ \E c \in Calls, verdict \in {"up", "down"} : ProbeAnswers(c, verdict)
    \/ \E p \in Probed : HealthExpires(p) \/ Unregister(p) \/ Register(p)
    \/ ResetHealth \/ Midnight

RoutingSpec == RoutingInit /\ [][RoutingNext]_routingVars
-----------------------------------------------------------------------------
(* The ceiling of budget.js, as far as the code keeps it: the check is     *)
(* made when a provider is selected and the bill is written when it has    *)
(* answered, so the other calls under way may each bring one more bill.    *)
(* One call at a time never passes the ceiling.                            *)
CeilingHoldsUpToConcurrency ==
    \A d \in 0..LastDay :
       spent[d] <= DailyLimit + (Cardinality(Calls) - 1) * Max({Cost[p] : p \in Providers \ Refused} \cup {0})

(* "This is how it gets recorded": the events about a provider alternate   *)
(* between unavailable and restored, however many calls probe it at once,  *)
(* fail with it or have its health forgotten.                              *)
HealthEventsAlternate == ~repeated
=============================================================================
