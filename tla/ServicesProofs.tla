--------------------------- MODULE ServicesProofs ---------------------------
(***************************************************************************)
(* What the rest is served by: ServedAnswersAreCurrent for any notes,      *)
(* wordings, askers and bounds, CeilingHoldsUpToConcurrency and            *)
(* HealthEventsAlternate for any providers, calls, costs and limits,       *)
(* QueuedIsKeptUntilAnswered for any items and callers,                    *)
(* MergedEntitiesAreReplaced for any notes, names, types and bounds, and   *)
(* ClaimsAreProposedOnce for any folders, documents, pieces and budgets.   *)
(***************************************************************************)
EXTENDS Answers, Routing, Client, Entities, Ingest, FiniteSetTheorems, FunctionTheorems, TLAPS

(***************************************************************************)
(* Answers: what is served is what the memory says.                        *)
(***************************************************************************)
(* Every answer is kept under the material and the rung it was made from.  *)
KeptUnderItsGround == \A k \in DOMAIN cache : k = KeyOf(cache[k].from, cache[k].rung)

(* A call that keeps its answer keeps it under what it was asked from,     *)
(* whatever the memory says by then.                                       *)
LEMMA KeepingKeepsGround ==
    ASSUME KeptUnderItsGround, NEW a \in Askers, NEW by, Keep(a, by)
    PROVE  KeptUnderItsGround'
<1> DEFINE k == KeyOf(asking[a].from, RungOf(asking[a].mode))
           answer == [from |-> asking[a].from, rung |-> RungOf(asking[a].mode), by |-> by,
                      made |-> askDay]
<1>1. cache' = With(cache, k, answer)
  BY DEF Keep
<1>2. k = KeyOf(answer.from, answer.rung)
  OBVIOUS
<1> HIDE DEF k, answer
<1> QED BY <1>1, <1>2 DEF KeptUnderItsGround, With

(* A question puts nothing into the cache.                                 *)
LEMMA AskingKeepsGround ==
    ASSUME KeptUnderItsGround, NEW a \in Askers, NEW mode \in Modes, Ask(a, mode)
    PROVE  KeptUnderItsGround'
<1>1. PICK k : cache' = Without(cache, k)
  BY DEF Ask
<1> QED BY <1>1 DEF KeptUnderItsGround, Without

(* What the cache holds is kept under the ground it was given on, always.  *)
LEMMA GroundIsKept == AnswersSpec => []KeptUnderItsGround
<1>1. AnswersInit => KeptUnderItsGround
  BY DEF AnswersInit, KeptUnderItsGround
<1>2. KeptUnderItsGround /\ [AnswersNext]_answerVars => KeptUnderItsGround'
  <2> SUFFICES ASSUME KeptUnderItsGround, [AnswersNext]_answerVars PROVE KeptUnderItsGround'
    OBVIOUS
  <2>1. CASE UNCHANGED cache
    BY <2>1 DEF KeptUnderItsGround
  <2>2. CASE \E a \in Askers, mode \in Modes : Ask(a, mode)
    BY <2>2, AskingKeepsGround
  <2>3. CASE \E a \in Askers : FloorSuffices(a) \/ ModelAnswers(a) \/ ModelFails(a)
    BY <2>3, KeepingKeepsGround DEF FloorSuffices, ModelAnswers, ModelFails
  <2>4. CASE \E days \in {-1, 0} : ClearOlderThan(days)
    BY <2>4 DEF ClearOlderThan, KeptUnderItsGround
  <2> QED BY <2>1, <2>2, <2>3, <2>4
          DEF AnswersNext, answerVars, Escalate, NothingAnswers, AskerDies, Write, Erase, AskTomorrow
<1> QED BY <1>1, <1>2, PTL DEF AnswersSpec

(* What the cache serves was made from what the memory says now, on the    *)
(* rung that is asked for, however long the answer took and whatever was   *)
(* written, erased or cleared meanwhile.                                   *)
THEOREM ServedFromTheSameGround == AnswersSpec => []ServedAnswersAreCurrent
<1>1. KeptUnderItsGround => ServedAnswersAreCurrent
  BY DEF KeptUnderItsGround, ServedAnswersAreCurrent, Serves, Served, KeyOf
<1> QED BY <1>1, GroundIsKept, PTL

(***************************************************************************)
(* Routing: the ceiling, and what is told of outages.                      *)
(***************************************************************************)
Stages == {"idle", "selecting", "probing", "running"}
CallStates == [stage : Stages, todo : SUBSET Providers, eligible : SUBSET (Providers \ Refused),
               with : Providers \cup {Nobody}, since : 0..LastDay]

(* A call that runs a provider chose it among the eligible, a call that    *)
(* waits for a probe waits for a provider that has one.                    *)
CallsAreSound ==
    /\ day \in 0..LastDay /\ registered \subseteq Providers
    /\ spent \in [0..LastDay -> Nat]
    /\ call \in [Calls -> CallStates]
    /\ \A c \in Calls :
          /\ call[c].since <= day
          /\ call[c].stage \in {"probing", "running"} => call[c].with \in Providers \ Refused
          /\ call[c].stage = "probing" => call[c].with \in Probed

(* What was told last is what was last known, if anything was told.        *)
ToldIsKnown == /\ lastKnown \in [Providers -> Verdicts]
               /\ reported \in [Providers -> Verdicts]
               /\ \A p \in Providers : reported[p] \in {"unknown", lastKnown[p]}
               /\ ~repeated

Payable == {p \in Providers \ Refused : Cost[p] # 0}
Dearest == Max({Cost[p] : p \in Providers \ Refused} \cup {0})
Times(n) == n * Dearest
Ceiling == DailyLimit + Times(Cardinality(Calls))

(* The bills a call may still bring for a day, one of them at the most: of *)
(* what it runs, for the day the run began, and from this day on of what   *)
(* it found eligible or is about to.                                       *)
MayBill(c, d) ==
    {p \in Payable : \/ call[c].stage = "running" /\ p = call[c].with /\ d = call[c].since
                     \/ d >= day /\ p \in call[c].eligible
                     \/ d >= day /\ call[c].stage = "probing" /\ p = call[c].with}

(* Room for the bills b when s is spent: the call that checked last fits   *)
(* under the limit with whatever it may bring, and each of the others adds *)
(* no more than the dearest.  Both sides have one dearest too many, so     *)
(* that nothing is subtracted.                                             *)
Owing(b) == {c \in Calls : b[c] # {}}
Fits(b, s) ==
    /\ Owing(b) = {} => s + Dearest <= Ceiling
    /\ Owing(b) # {} => \E c \in Owing(b) : \A p \in b[c] :
                            s + Cost[p] + Times(Cardinality(Owing(b))) <= Ceiling
BillsFor(d) == [c \in Calls |-> MayBill(c, d)]

SpendingFits == \A d \in 0..LastDay : Fits(BillsFor(d), spent[d]) /\ (d > day => spent[d] = 0)

SpendingInv == CallsAreSound /\ SpendingFits

(* A set of numbers that is not empty has a least one.                     *)
LEMMA LeastExists ==
  ASSUME NEW S \in SUBSET Nat, S # {}
  PROVE  \E n \in S : \A m \in S : n <= m
<1>1. \E n \in S : \A m \in S : ~(<<m, n>> \in OpToRel(<, Nat))
  BY NatLessThanWellFounded, WFMin
<1>2. PICK n \in S : \A m \in S : ~(m < n)
  BY <1>1 DEF OpToRel
<1> QED BY <1>2

(* The providers are finitely many, so no cost passes the dearest.         *)
LEMMA CostsAreBounded == \E b \in Nat : \A p \in Providers : Cost[p] <= b
<1> DEFINE Bounded(n) == \E b \in Nat : \A i \in 1..n : Cost[Ranking[i]] <= b
           Bad == {n \in 0..Len(Ranking) : ~Bounded(n)}
<1>1. Ranking \in Seq(Providers) /\ Len(Ranking) \in Nat /\ DOMAIN Ranking = 1..Len(Ranking)
  BY ProvidersAssumption
<1>2. \A i \in 1..Len(Ranking) : Ranking[i] \in Providers /\ Cost[Ranking[i]] \in Nat
  BY <1>1, ProvidersAssumption
<1>3. Bad = {}
  <2> SUFFICES ASSUME Bad # {} PROVE FALSE
    OBVIOUS
  <2>1. Bad \in SUBSET Nat
    BY <1>1
  <2>2. PICK n \in Bad : \A m \in Bad : n <= m
    <3> HIDE DEF Bad
    <3> QED BY <2>1, LeastExists
  <2>3. n \in 0..Len(Ranking) /\ n \in Nat /\ ~Bounded(n)
    BY <2>1, <2>2
  <2>4. Bounded(0)
    <3>1. 0 \in Nat /\ \A i \in 1..0 : Cost[Ranking[i]] <= 0
      OBVIOUS
    <3> QED BY <3>1
  <2>5. n # 0
    BY <2>3, <2>4
  <2>6. n - 1 \in Nat /\ n - 1 \in 0..Len(Ranking) /\ n - 1 < n
    BY <1>1, <2>3, <2>5
  <2>7. n - 1 \notin Bad
    <3> HIDE DEF Bad
    <3> QED BY <2>2, <2>3, <2>6
  <2>8. Bounded(n - 1)
    <3> HIDE DEF Bounded
    <3> QED BY <2>6, <2>7
  <2>9. PICK b \in Nat : \A i \in 1..(n - 1) : Cost[Ranking[i]] <= b
    BY <2>8
  <2>10. Cost[Ranking[n]] \in Nat
    BY <1>2, <2>3, <2>5
  <2>11. n \in Nat /\ n <= Len(Ranking) /\ \A i \in 1..n : Cost[Ranking[i]] <= b + Cost[Ranking[n]]
    <3> HIDE DEF Bad, Bounded
    <3>0. n \in Nat /\ n <= Len(Ranking)
      BY <1>1, <2>3
    <3> SUFFICES ASSUME NEW i \in 1..n PROVE Cost[Ranking[i]] <= b + Cost[Ranking[n]]
      BY <3>0
    <3>1. CASE i = n
      BY <2>10, <3>1
    <3>2. CASE i # n
      <4>1. i \in 1..(n - 1) /\ i \in 1..Len(Ranking)
        BY <1>1, <3>0, <3>2
      <4>2. Cost[Ranking[i]] <= b /\ Cost[Ranking[i]] \in Nat
        BY <1>2, <2>9, <4>1
      <4> QED BY <2>10, <4>2
    <3> QED BY <3>1, <3>2
  <2>12. b + Cost[Ranking[n]] \in Nat
    <3> HIDE DEF Bad, Bounded
    <3> QED BY <2>10
  <2>13. Bounded(n)
    <3>1. PICK b2 \in Nat : b2 = b + Cost[Ranking[n]]
      BY <2>12
    <3>2. \A i \in 1..n : Cost[Ranking[i]] <= b2
      BY <2>11, <3>1
    <3> QED BY <3>2
  <2> HIDE DEF Bounded
  <2> QED BY <2>3, <2>13
<1>4. Len(Ranking) \in 0..Len(Ranking)
  BY <1>1
<1>5. Bounded(Len(Ranking))
  BY <1>3, <1>4
<1>6. \A p \in Providers : \E i \in 1..Len(Ranking) : p = Ranking[i]
  BY <1>1 DEF Providers, ToSet
<1> QED BY <1>5, <1>6

(* The dearest provider that may bill is no dearer than itself.            *)
LEMMA DearestIsDearest ==
  Dearest \in Nat /\ \A p \in Providers \ Refused : Cost[p] \in Nat /\ Cost[p] <= Dearest
<1> DEFINE S == {Cost[p] : p \in Providers \ Refused} \cup {0}
           Above == {n \in Nat : \A x \in S : x <= n}
<1>1. S \in SUBSET Nat /\ 0 \in S
  BY ProvidersAssumption
<1>2. PICK b \in Nat : \A p \in Providers : Cost[p] <= b
  BY CostsAreBounded
<1>3. b \in Above
  BY <1>2
<1> HIDE DEF S
<1>4. Above \in SUBSET Nat
  OBVIOUS
<1>5. PICK n \in Above : \A m \in Above : n <= m
  <2> HIDE DEF Above
  <2> QED BY <1>3, <1>4, LeastExists
<1>6. n \in S
  <2> SUFFICES ASSUME n \notin S PROVE FALSE
    OBVIOUS
  <2>1. n \in Nat /\ \A x \in S : x \in Nat /\ x <= n /\ x # n
    BY <1>1, <1>5
  <2>2. n # 0 /\ n - 1 \in Nat /\ \A x \in S : x <= n - 1
    BY <1>1, <2>1
  <2>3. n - 1 \in Above
    BY <2>2
  <2> QED BY <1>5, <2>1, <2>2, <2>3
<1>7. \E x \in S : \A y \in S : x >= y
  BY <1>1, <1>5, <1>6
<1>8. Max(S) \in S /\ \A y \in S : Max(S) >= y
  BY <1>7 DEF Max
<1>9. Dearest = Max(S)
  BY DEF Dearest, S
<1>10. \A p \in Providers \ Refused : Cost[p] \in S
  BY DEF S
<1> QED BY <1>1, <1>8, <1>9, <1>10

(* What so many calls may cost at most.                                    *)
LEMMA TimesIsMonotone ==
  /\ \A n \in Nat : Times(n) \in Nat
  /\ \A n \in Nat : Times(n + 1) = Times(n) + Dearest
  /\ \A m, n \in Nat : m <= n => Times(m) <= Times(n)
<1>1. Dearest \in Nat
  BY DearestIsDearest
<1>2. \A d \in Nat :
         /\ \A n \in Nat : n * d \in Nat
         /\ \A n \in Nat : (n + 1) * d = n * d + d
         /\ \A m, n \in Nat : m <= n => m * d <= n * d
  <2> SUFFICES ASSUME NEW d \in Nat, NEW m \in Nat, NEW n \in Nat
               PROVE  /\ n * d \in Nat
                      /\ (n + 1) * d = n * d + d
                      /\ m <= n => m * d <= n * d
    OBVIOUS
  <2>1. n * d \in Nat
    OBVIOUS
  <2>2. (n + 1) * d = n * d + d
    OBVIOUS
  <2>3. m <= n => m * d <= n * d
    OBVIOUS
  <2> QED BY <2>1, <2>2, <2>3
<1> QED BY <1>1, <1>2 DEF Times

(* The ceiling is a number.                                                *)
LEMMA CeilingIsANumber == Ceiling \in Nat
<1>1. Cardinality(Calls) \in Nat
  BY CallsAssumption, FS_CardinalityType
<1>2. Times(Cardinality(Calls)) \in Nat
  BY <1>1, TimesIsMonotone
<1> QED BY <1>2, LimitAssumption DEF Ceiling

(* The calls that may still bill a day are at most the calls there are.    *)
LEMMA OwingAreCounted ==
  ASSUME NEW b
  PROVE  /\ IsFiniteSet(Owing(b)) /\ Cardinality(Owing(b)) \in Nat
         /\ Cardinality(Owing(b)) <= Cardinality(Calls) /\ Cardinality(Calls) \in Nat
         /\ Owing(b) # {} => Cardinality(Owing(b)) >= 1
<1>1. Owing(b) \in SUBSET Calls /\ Owing(b) \subseteq Calls
  BY DEF Owing
<1>2. IsFiniteSet(Owing(b)) /\ Cardinality(Owing(b)) <= Cardinality(Calls)
  BY <1>1, CallsAssumption, FS_Subset
<1>3. Cardinality(Owing(b)) \in Nat /\ Cardinality(Calls) \in Nat
  BY <1>2, CallsAssumption, FS_CardinalityType
<1>4. Owing(b) # {} => Cardinality(Owing(b)) # 0
  BY <1>2, FS_EmptySet
<1> QED BY <1>2, <1>3, <1>4

(* Bills that will not be brought leave the room there was.                *)
LEMMA FewerBillsFit ==
  ASSUME NEW b \in [Calls -> SUBSET Payable], NEW b2 \in [Calls -> SUBSET Payable], NEW s \in Nat,
         Fits(b, s), \A c \in Calls : b2[c] \subseteq b[c]
  PROVE  Fits(b2, s)
<1> DEFINE H == Owing(b)
           H2 == Owing(b2)
<1>1. H2 \in SUBSET H /\ H2 \subseteq H /\ H \subseteq Calls
  BY DEF Owing
<1>2. PICK n, n2 : n = Cardinality(H) /\ n2 = Cardinality(H2)
  OBVIOUS
<1>3. n \in Nat /\ n2 \in Nat /\ n2 <= n /\ IsFiniteSet(H)
  BY <1>1, <1>2, OwingAreCounted, FS_Subset
<1>4. PICK m, t, t2, top : m = Dearest /\ t = Times(n) /\ t2 = Times(n2) /\ top = Ceiling
  OBVIOUS
<1>5. m \in Nat /\ t \in Nat /\ t2 \in Nat /\ t2 <= t /\ top \in Nat
  BY <1>3, <1>4, TimesIsMonotone, DearestIsDearest, CeilingIsANumber
<1>6. \A p \in Payable : Cost[p] \in Nat /\ Cost[p] <= m
  BY <1>4, DearestIsDearest DEF Payable
<1>7. CASE H = {}
  BY <1>1, <1>7 DEF Fits
<1>8. CASE H # {}
  <2>1. PICK x \in H : \A p \in b[x] : s + Cost[p] + t <= top
    BY <1>2, <1>4, <1>8 DEF Fits
  <2>2. x \in Calls /\ b[x] # {} /\ b[x] \subseteq Payable
    BY <1>1 DEF Owing
  <2>3. s + t <= top
    <3>1. PICK p \in b[x] : TRUE
      BY <2>2
    <3> QED BY <1>5, <1>6, <2>1, <2>2, <3>1
  <2>4. n >= 1 /\ m <= t
    <3>1. n >= 1 /\ Times(0 + 1) = Times(0) + Dearest /\ Times(0) \in Nat /\ Times(1) <= Times(n)
      BY <1>2, <1>3, <1>8, OwingAreCounted, TimesIsMonotone
    <3> QED BY <1>4, <1>5, <3>1
  <2>5. CASE H2 = {}
    BY <1>4, <1>5, <2>3, <2>4, <2>5 DEF Fits
  <2>6. CASE x \in H2
    <3>1. \A p \in b2[x] : s + Cost[p] + t2 <= top
      BY <1>5, <1>6, <2>1, <2>2
    <3> QED BY <1>2, <1>4, <2>6, <3>1 DEF Fits
  <2>7. CASE H2 # {} /\ x \notin H2
    <3>1. t2 + m <= t
      <4>1. H2 \in SUBSET (H \ {x}) /\ IsFiniteSet(H \ {x}) /\ Cardinality(H \ {x}) = n - 1
        BY <1>1, <1>2, <1>3, <2>7, FS_RemoveElement
      <4>2. n2 <= n - 1
        BY <1>2, <4>1, FS_Subset
      <4>3. n2 + 1 \in Nat /\ n2 + 1 <= n
        BY <1>3, <4>2
      <4>4. Times(n2 + 1) <= Times(n) /\ Times(n2 + 1) = Times(n2) + Dearest
        BY <1>3, <4>3, TimesIsMonotone
      <4> QED BY <1>4, <4>4
    <3>2. PICK y \in H2 : TRUE
      BY <2>7
    <3>3. y \in Calls /\ b2[y] \subseteq Payable
      BY <1>1, <3>2
    <3>4. \A p \in b2[y] : s + Cost[p] + t2 <= top
      BY <1>5, <1>6, <2>3, <3>1, <3>3
    <3> QED BY <1>2, <1>4, <2>7, <3>2, <3>4 DEF Fits
  <2> QED BY <2>5, <2>6, <2>7
<1> QED BY <1>7, <1>8

(* The bill a call brings was among those there is room for.               *)
LEMMA ABillFits ==
  ASSUME NEW b \in [Calls -> SUBSET Payable], NEW b2 \in [Calls -> SUBSET Payable], NEW s \in Nat,
         NEW c \in Calls, NEW q \in b[c], Fits(b, s), b2[c] = {},
         \A d \in Calls : d # c => b2[d] = b[d]
  PROVE  Fits(b2, s + Cost[q])
<1> DEFINE H == Owing(b)
           H2 == Owing(b2)
<1>1. H2 = H \ {c} /\ H \subseteq Calls /\ c \in H
  BY DEF Owing
<1>2. PICK n : n = Cardinality(H)
  OBVIOUS
<1>3. n \in Nat /\ n >= 1 /\ n - 1 \in Nat /\ Cardinality(H2) = n - 1
  <2>1. IsFiniteSet(H) /\ n \in Nat /\ n >= 1
    BY <1>1, <1>2, OwingAreCounted
  <2>2. Cardinality(H \ {c}) = n - 1
    BY <1>1, <1>2, <2>1, FS_RemoveElement
  <2> QED BY <1>1, <2>1, <2>2
<1>4. PICK m, t, t2, top : m = Dearest /\ t = Times(n) /\ t2 = Times(n - 1) /\ top = Ceiling
  OBVIOUS
<1>5. m \in Nat /\ t \in Nat /\ t2 \in Nat /\ t = t2 + m /\ top \in Nat
  <2>1. Times(n - 1 + 1) = Times(n - 1) + Dearest /\ n - 1 + 1 = n
    BY <1>3, TimesIsMonotone
  <2> QED BY <1>3, <1>4, <2>1, TimesIsMonotone, DearestIsDearest, CeilingIsANumber
<1>6. \A p \in Payable : Cost[p] \in Nat /\ Cost[p] <= m
  BY <1>4, DearestIsDearest DEF Payable
<1>7. PICK x \in H : \A p \in b[x] : s + Cost[p] + t <= top
  BY <1>1, <1>2, <1>4 DEF Fits
<1>8. b[c] \subseteq Payable /\ Cost[q] \in Nat /\ Cost[q] <= m /\ x \in Calls
      /\ b[x] \subseteq Payable /\ b[x] # {}
  BY <1>1, <1>6, <1>7 DEF Owing
<1>9. PICK s2 : s2 = s + Cost[q]
  OBVIOUS
<1>10. CASE x = c
  <2>1. s2 + t <= top
    BY <1>7, <1>8, <1>9, <1>10
  <2>2. CASE H2 = {}
    BY <1>4, <1>5, <1>8, <1>9, <2>1, <2>2 DEF Fits
  <2>3. CASE H2 # {}
    <3>1. PICK y \in H2 : TRUE
      BY <2>3
    <3>2. b2[y] \subseteq Payable
      BY <1>1, <3>1
    <3>3. \A p \in b2[y] : s2 + Cost[p] + t2 <= top
      BY <1>5, <1>6, <1>8, <1>9, <2>1, <3>2
    <3> QED BY <1>3, <1>4, <1>9, <3>1, <3>3 DEF Fits
  <2> QED BY <2>2, <2>3
<1>11. CASE x # c
  <2>1. x \in H2 /\ b2[x] = b[x]
    BY <1>1, <1>8, <1>11
  <2>2. \A p \in b2[x] : s2 + Cost[p] + t2 <= top
    BY <1>5, <1>6, <1>7, <1>8, <1>9, <2>1
  <2> QED BY <1>3, <1>4, <1>9, <2>1, <2>2 DEF Fits
<1> QED BY <1>10, <1>11

(* A call that found room under the limit for one more provider leaves     *)
(* room for whatever the others may still bring.                           *)
LEMMA OneMoreFits ==
  ASSUME NEW b \in [Calls -> SUBSET Payable], NEW b2 \in [Calls -> SUBSET Payable], NEW s \in Nat,
         NEW c \in Calls, NEW q \in Payable, Fits(b, s), b2[c] = b[c] \cup {q},
         \A d \in Calls : d # c => b2[d] = b[d], s + Cost[q] <= DailyLimit
  PROVE  Fits(b2, s)
<1> DEFINE H == Owing(b)
           H2 == Owing(b2)
<1>1. H2 = H \cup {c} /\ H \subseteq Calls
  BY DEF Owing
<1>2. PICK n2, t2, top : n2 = Cardinality(H2) /\ t2 = Times(n2) /\ top = Ceiling
  OBVIOUS
<1>3. n2 \in Nat /\ t2 \in Nat /\ top \in Nat /\ DailyLimit + t2 <= top
  <2>1. PICK n : n = Cardinality(Calls)
    OBVIOUS
  <2>2. n2 \in Nat /\ n \in Nat /\ n2 <= n
    BY <1>2, <2>1, OwingAreCounted
  <2>3. t2 \in Nat /\ t2 <= Times(n) /\ Times(n) \in Nat
    BY <1>2, <2>2, TimesIsMonotone
  <2>4. top = DailyLimit + Times(n)
    BY <1>2, <2>1 DEF Ceiling
  <2> QED BY <2>2, <2>3, <2>4, LimitAssumption
<1>4. Cost[q] \in Nat /\ s + Cost[q] + t2 <= top
  BY <1>3, DearestIsDearest, LimitAssumption DEF Payable
<1>5. CASE c \in H
  <2>1. H2 = H
    BY <1>1, <1>5
  <2>2. PICK x \in H : \A p \in b[x] : s + Cost[p] + t2 <= top
    BY <1>2, <1>5, <2>1 DEF Fits
  <2>3. \A p \in b2[x] : s + Cost[p] + t2 <= top
    BY <1>1, <1>4, <2>2
  <2> QED BY <1>2, <2>1, <2>3 DEF Fits
<1>6. CASE c \notin H
  <2>1. b2[c] = {q} /\ c \in H2
    BY <1>1, <1>6 DEF Owing
  <2> QED BY <1>2, <1>4, <2>1 DEF Fits
<1> QED BY <1>5, <1>6

-----------------------------------------------------------------------------
(* The steps.                                                              *)
LEMMA BillsAreBills ==
  ASSUME NEW d
  PROVE  /\ BillsFor(d) \in [Calls -> SUBSET Payable]
         /\ \A c \in Calls : BillsFor(d)[c] = MayBill(c, d)
BY DEF BillsFor, MayBill

(* The first of a set of providers is one of them.                         *)
LEMMA BestIsAmong == ASSUME NEW S \in SUBSET Providers, S # {} PROVE Best(S) \in S
<1> DEFINE I == {i \in DOMAIN Ranking : Ranking[i] \in S}
<1>1. I \in SUBSET Nat /\ I # {}
  BY ProvidersAssumption DEF Providers, ToSet
<1>2. \E n \in I : \A m \in I : n <= m
  BY <1>1, LeastExists
<1>3. Min(I) \in I
  BY <1>2 DEF Min
<1> QED BY <1>3 DEF Best

(* A call that tries what is left has nothing new to bring.                *)
LEMMA TryingIsSound ==
  ASSUME CallsAreSound, NEW c \in Calls
  PROVE  LET new == Try(c, call[c].eligible) IN
         /\ new \in CallStates /\ new.since <= day
         /\ new.stage \in {"idle", "running"}
         /\ new.eligible \subseteq call[c].eligible
         /\ new.stage = "running" => new.with \in call[c].eligible /\ new.since = day
<1> DEFINE S == call[c].eligible
<1>1. call[c] \in CallStates /\ S \in SUBSET (Providers \ Refused) /\ day \in 0..LastDay /\ LastDay \in Nat
  BY LimitAssumption DEF CallsAreSound, CallStates
<1>2. CASE S = {}
  BY <1>1, <1>2 DEF Try, NoCall, CallStates, Stages
<1>3. CASE S # {}
  <2>1. PICK p : p = Best(S) /\ p \in S
    BY <1>1, <1>3, BestIsAmong
  <2>2. Try(c, S) = [call[c] EXCEPT !.stage = "running", !.with = p, !.eligible = S \ {p}, !.since = day]
    BY <1>3, <2>1 DEF Try
  <2>3. PICK new : new = Try(c, S)
    OBVIOUS
  <2>4. /\ new.stage = "running" /\ new.with = p /\ new.eligible = S \ {p} /\ new.since = day
        /\ new \in CallStates
    <3>1. p \in Providers /\ S \ {p} \in SUBSET (Providers \ Refused)
      BY <1>1, <2>1
    <3>2. PICK old : old = call[c]
      OBVIOUS
    <3>3. new = [old EXCEPT !.stage = "running", !.with = p, !.eligible = S \ {p}, !.since = day]
      BY <2>2, <2>3, <3>2
    <3> HIDE DEF S
    <3> QED BY <1>1, <3>1, <3>2, <3>3 DEF CallStates, Stages
  <2>5. new.since <= day
    BY <1>1, <2>4
  <2>6. new.eligible \subseteq S
    BY <2>4
  <2> QED BY <2>1, <2>3, <2>4, <2>5, <2>6
<1> QED BY <1>2, <1>3

(* The other calls may bring what they might have brought before.          *)
LEMMA OthersBringTheSame ==
  ASSUME CallsAreSound, NEW c \in Calls, NEW new, call' = [call EXCEPT ![c] = new], day' = day,
         NEW e \in Calls, e # c, NEW d
  PROVE  MayBill(e, d)' = MayBill(e, d)
BY DEF CallsAreSound, MayBill

(* A call that goes on soundly leaves all of them sound.                   *)
LEMMA GoingOnIsSound ==
  ASSUME CallsAreSound, NEW c \in Calls, NEW new \in CallStates, call' = [call EXCEPT ![c] = new],
         day' = day, spent' \in [0..LastDay -> Nat], registered' = registered, new.since <= day,
         new.stage \in {"probing", "running"} => new.with \in Providers \ Refused,
         new.stage = "probing" => new.with \in Probed
  PROVE  CallsAreSound'
<1>1. call' \in [Calls -> CallStates]
  BY DEF CallsAreSound
<1>2. \A e \in Calls : call'[e] = IF e = c THEN new ELSE call[e]
  BY DEF CallsAreSound
<1> QED BY <1>1, <1>2 DEF CallsAreSound

(* Where nobody has anything new to bring and nothing is spent, there is   *)
(* room as there was.                                                      *)
LEMMA NothingNewFits ==
  ASSUME CallsAreSound, SpendingFits, day' \in 0..LastDay, day <= day', spent' = spent,
         \A c \in Calls, d \in 0..LastDay : MayBill(c, d)' \subseteq MayBill(c, d)
  PROVE  SpendingFits'
<1>1. ASSUME NEW d \in 0..LastDay PROVE Fits(BillsFor(d), spent[d])' /\ (d > day' => spent'[d] = 0)
  <2>1. PICK b, b2 : b = BillsFor(d) /\ b2 = BillsFor(d)'
    OBVIOUS
  <2>2. b \in [Calls -> SUBSET Payable] /\ b2 \in [Calls -> SUBSET Payable]
        /\ \A c \in Calls : b2[c] \subseteq b[c]
    BY <2>1 DEF BillsFor, MayBill
  <2>3. Fits(b, spent[d]) /\ spent[d] \in Nat /\ (d > day => spent[d] = 0)
    BY <2>1 DEF SpendingFits, CallsAreSound
  <2>4. Fits(b2, spent[d])
    BY <2>2, <2>3, FewerBillsFit
  <2>5. Fits(BillsFor(d), spent[d])'
    BY <2>1, <2>4 DEF Fits, Owing
  <2>6. d > day' => d > day
    BY LimitAssumption DEF CallsAreSound
  <2> QED BY <2>3, <2>5, <2>6
<1> QED BY <1>1 DEF SpendingFits

(* The steps of one call with which it brings no bill it might not have    *)
(* brought.                                                                *)
LEMMA BringsNothingNew ==
  ASSUME CallsAreSound, SpendingFits, NEW c \in Calls, NEW new, call' = [call EXCEPT ![c] = new],
         day' = day, spent' = spent, \A d \in 0..LastDay : MayBill(c, d)' \subseteq MayBill(c, d)
  PROVE  SpendingFits'
<1>1. \A e \in Calls, d \in 0..LastDay : MayBill(e, d)' \subseteq MayBill(e, d)
  <2> SUFFICES ASSUME NEW e \in Calls, NEW d \in 0..LastDay PROVE MayBill(e, d)' \subseteq MayBill(e, d)
    OBVIOUS
  <2>1. CASE e = c
    BY <2>1
  <2>2. CASE e # c
    BY <2>2, OthersBringTheSame
  <2> QED BY <2>1, <2>2
<1>2. day \in 0..LastDay /\ day' \in 0..LastDay /\ day <= day'
  BY LimitAssumption DEF CallsAreSound
<1> QED BY <1>1, <1>2, NothingNewFits

(* A call that found room for one provider more.                           *)
LEMMA BringsOneMore ==
  ASSUME CallsAreSound, SpendingFits, NEW c \in Calls, NEW new, call' = [call EXCEPT ![c] = new],
         day' = day, spent' = spent, NEW p \in Providers \ Refused, Affordable(p),
         \A d \in 0..LastDay : MayBill(c, d)' \subseteq MayBill(c, d) \cup {p},
         \A d \in 0..LastDay : d < day => MayBill(c, d)' \subseteq MayBill(c, d)
  PROVE  SpendingFits'
<1>1. ASSUME NEW d \in 0..LastDay PROVE Fits(BillsFor(d), spent[d])' /\ (d > day' => spent'[d] = 0)
  <2>1. PICK b, b2, bp : b = BillsFor(d) /\ b2 = BillsFor(d)' /\ bp = [b EXCEPT ![c] = @ \cup {p}]
    OBVIOUS
  <2>2. b \in [Calls -> SUBSET Payable] /\ b2 \in [Calls -> SUBSET Payable]
    BY <2>1 DEF BillsFor, MayBill
  <2>3. \A e \in Calls : b[e] = MayBill(e, d) /\ b2[e] = MayBill(e, d)'
    BY <2>1 DEF BillsFor
  <2>4. \A e \in Calls : e # c => b2[e] = b[e]
    BY <2>3, OthersBringTheSame
  <2>5. Fits(b, spent[d]) /\ spent[d] \in Nat /\ (d > day => spent[d] = 0)
    BY <2>1 DEF SpendingFits, CallsAreSound
  <2>6. Fits(b2, spent[d])
    <3>1. CASE b2[c] \subseteq b[c]
      BY <2>2, <2>4, <2>5, <3>1, FewerBillsFit
    <3>2. CASE ~(b2[c] \subseteq b[c])
      <4>1. p \in b2[c] /\ p \in Payable /\ ~(d < day)
        BY <2>2, <2>3, <3>2
      <4>2. spent[d] + Cost[p] <= DailyLimit
        <5>1. Cost[p] # 0 /\ Cost[p] \in Nat /\ spent[day] \in Nat /\ day \in Nat /\ d \in Nat
          BY <4>1, DearestIsDearest, LimitAssumption DEF Payable, CallsAreSound
        <5>2. spent[day] + Cost[p] <= DailyLimit
          BY <5>1 DEF Affordable
        <5>3. d = day \/ d > day
          BY <4>1, <5>1
        <5> QED BY <2>5, <5>1, <5>2, <5>3, LimitAssumption
      <4>3. bp \in [Calls -> SUBSET Payable] /\ bp[c] = b[c] \cup {p} /\ \A e \in Calls : e # c => bp[e] = b[e]
        BY <2>1, <2>2, <4>1
      <4>4. Fits(bp, spent[d])
        BY <2>2, <2>5, <4>1, <4>2, <4>3, OneMoreFits
      <4>5. \A e \in Calls : b2[e] \subseteq bp[e]
        BY <2>3, <2>4, <4>3
      <4> QED BY <2>2, <2>5, <4>3, <4>4, <4>5, FewerBillsFit
    <3> QED BY <3>1, <3>2
  <2>7. Fits(BillsFor(d), spent[d])'
    BY <2>1, <2>6 DEF Fits, Owing
  <2> QED BY <2>5, <2>7
<1> QED BY <1>1 DEF SpendingFits

(* What is known of a call.                                                *)
LEMMA StatesAreWhole ==
  ASSUME CallsAreSound, NEW c \in Calls
  PROVE  /\ call[c] \in CallStates /\ call[c].stage \in Stages
         /\ call[c].todo \in SUBSET Providers /\ call[c].eligible \in SUBSET (Providers \ Refused)
         /\ call[c].with \in Providers \cup {Nobody} /\ call[c].since \in 0..LastDay
         /\ call[c].since <= day
         /\ day \in 0..LastDay /\ LastDay \in Nat /\ day \in Nat
BY LimitAssumption DEF CallsAreSound, CallStates

(* A call begins and owes nothing yet.                                     *)
LEMMA BeginKeeps == ASSUME SpendingInv, NEW c \in Calls, Begin(c) PROVE SpendingInv'
<1>1. PICK new : new = [NoCall EXCEPT !.stage = "selecting", !.todo = registered]
  OBVIOUS
<1>2. call' = [call EXCEPT ![c] = new] /\ UNCHANGED <<registered, spent, day>>
  BY <1>1 DEF Begin
<1>3. new \in CallStates /\ new.stage = "selecting" /\ new.eligible = {} /\ new.since = 0 /\ new.since <= day
  <2>1. registered \in SUBSET Providers /\ 0 \in 0..LastDay /\ 0 <= day
    BY StatesAreWhole DEF SpendingInv, CallsAreSound
  <2>2. new = [stage |-> "selecting", todo |-> registered, eligible |-> {}, with |-> Nobody, since |-> 0]
    BY <1>1 DEF NoCall
  <2> QED BY <2>1, <2>2 DEF CallStates, Stages
<1>4. CallsAreSound'
  BY <1>2, <1>3, GoingOnIsSound DEF SpendingInv, CallsAreSound
<1>5. call'[c] = new
  BY <1>2 DEF SpendingInv, CallsAreSound
<1>6. \A d \in 0..LastDay : MayBill(c, d)' \subseteq MayBill(c, d)
  BY <1>3, <1>5 DEF MayBill
<1> QED BY <1>2, <1>4, <1>6, BringsNothingNew DEF SpendingInv

(* A provider is considered without being asked how it is.                 *)
LEMMA ConsiderKeeps ==
  ASSUME SpendingInv, NEW c \in Calls, NEW p \in Providers, Consider(c, p) PROVE SpendingInv'
<1>1. PICK old, new : old = call[c] /\ new = call'[c]
  OBVIOUS
<1>2. /\ call' = [call EXCEPT ![c].todo = @ \ {p},
                              ![c].eligible = IF Rejects(p) THEN @ ELSE @ \cup {p}]
      /\ UNCHANGED <<registered, spent, day>> /\ old.stage = "selecting"
  BY <1>1 DEF Consider
<1>3. old \in CallStates /\ old.eligible \in SUBSET (Providers \ Refused) /\ old.since <= day
      /\ old.todo \in SUBSET Providers
  BY <1>1, StatesAreWhole DEF SpendingInv
<1>4. new = [old EXCEPT !.todo = @ \ {p}, !.eligible = IF Rejects(p) THEN @ ELSE @ \cup {p}]
      /\ call' = [call EXCEPT ![c] = new]
  BY <1>1, <1>2 DEF SpendingInv, CallsAreSound
<1>5. PICK more : more = IF Rejects(p) THEN old.eligible ELSE old.eligible \cup {p}
  OBVIOUS
<1>6. more \in SUBSET (Providers \ Refused)
  BY <1>3, <1>5 DEF Rejects
<1>7. new = [old EXCEPT !.todo = old.todo \ {p}, !.eligible = more]
  BY <1>3, <1>4, <1>5 DEF CallStates
<1>8. new \in CallStates /\ new.stage = "selecting" /\ new.eligible = more /\ new.since <= day
  BY <1>2, <1>3, <1>6, <1>7 DEF CallStates
<1>9. CallsAreSound'
  BY <1>2, <1>4, <1>8, GoingOnIsSound DEF SpendingInv, CallsAreSound
<1>10. CASE Rejects(p)
  <2>1. \A d \in 0..LastDay : MayBill(c, d)' \subseteq MayBill(c, d)
    BY <1>1, <1>2, <1>5, <1>8, <1>10 DEF MayBill
  <2> QED BY <1>2, <1>4, <1>9, <2>1, BringsNothingNew DEF SpendingInv
<1>11. CASE ~Rejects(p)
  <2>1. p \in Providers \ Refused /\ Affordable(p)
    BY <1>11 DEF Rejects
  <2>2. \A d \in 0..LastDay : MayBill(c, d)' \subseteq MayBill(c, d) \cup {p}
    BY <1>1, <1>2, <1>5, <1>8, <1>11 DEF MayBill
  <2>3. \A d \in 0..LastDay : d < day => MayBill(c, d)' \subseteq MayBill(c, d)
    BY <1>1, <1>2, <1>8, StatesAreWhole DEF MayBill, SpendingInv
  <2> QED BY <1>2, <1>4, <1>9, <2>1, <2>2, <2>3, BringsOneMore DEF SpendingInv
<1> QED BY <1>10, <1>11

(* A provider is asked how it is.                                          *)
LEMMA ProbeKeeps ==
  ASSUME SpendingInv, NEW c \in Calls, NEW p \in Providers, Probe(c, p) PROVE SpendingInv'
<1>1. PICK old, new : old = call[c] /\ new = call'[c]
  OBVIOUS
<1>2. /\ call' = [call EXCEPT ![c].stage = "probing", ![c].todo = @ \ {p}, ![c].with = p]
      /\ UNCHANGED <<registered, spent, day>> /\ old.stage = "selecting"
      /\ p \in Probed /\ p \in Providers \ Refused /\ Affordable(p)
  BY <1>1 DEF Probe, Rejects
<1>3. old \in CallStates /\ old.todo \in SUBSET Providers /\ old.since <= day
  BY <1>1, StatesAreWhole DEF SpendingInv
<1>4. new = [old EXCEPT !.stage = "probing", !.todo = @ \ {p}, !.with = p]
      /\ call' = [call EXCEPT ![c] = new]
  BY <1>1, <1>2 DEF SpendingInv, CallsAreSound
<1>5. new = [old EXCEPT !.stage = "probing", !.todo = old.todo \ {p}, !.with = p]
  BY <1>3, <1>4 DEF CallStates
<1>6. /\ new \in CallStates /\ new.stage = "probing" /\ new.eligible = old.eligible
      /\ new.with = p /\ new.since <= day
  BY <1>2, <1>3, <1>5 DEF CallStates, Stages
<1>7. CallsAreSound'
  <2>1. new.with \in Providers \ Refused /\ new.with \in Probed
    BY <1>2, <1>6
  <2>2. spent' \in [0..LastDay -> Nat] /\ day' = day /\ registered' = registered
    BY <1>2 DEF SpendingInv, CallsAreSound
  <2> HIDE <1>5
  <2> QED BY <1>4, <1>6, <2>1, <2>2, GoingOnIsSound DEF SpendingInv
<1>8. \A d \in 0..LastDay : MayBill(c, d)' \subseteq MayBill(c, d) \cup {p}
  BY <1>1, <1>2, <1>6 DEF MayBill
<1>9. \A d \in 0..LastDay : d < day => MayBill(c, d)' \subseteq MayBill(c, d)
  BY <1>1, <1>2, <1>6, StatesAreWhole DEF MayBill, SpendingInv
<1> QED BY <1>2, <1>4, <1>7, <1>8, <1>9, BringsOneMore DEF SpendingInv

(* The provider that was asked answers.                                    *)
LEMMA ProbeAnswersKeeps ==
  ASSUME SpendingInv, NEW c \in Calls, NEW verdict \in {"up", "down"}, ProbeAnswers(c, verdict)
  PROVE  SpendingInv'
<1>1. PICK old, new, p : old = call[c] /\ new = call'[c] /\ p = old.with
  OBVIOUS
<1>2. /\ call' = [call EXCEPT ![c].stage = "selecting", ![c].with = Nobody,
                              ![c].eligible = IF verdict = "up" THEN @ \cup {p} ELSE @]
      /\ UNCHANGED <<registered, spent, day>> /\ old.stage = "probing"
  BY <1>1 DEF ProbeAnswers
<1>3. old \in CallStates /\ old.eligible \in SUBSET (Providers \ Refused) /\ old.since <= day
      /\ p \in Providers \ Refused
  BY <1>1, <1>2, StatesAreWhole DEF SpendingInv, CallsAreSound
<1>4. new = [old EXCEPT !.stage = "selecting", !.with = Nobody,
                        !.eligible = IF verdict = "up" THEN @ \cup {p} ELSE @]
      /\ call' = [call EXCEPT ![c] = new]
  BY <1>1, <1>2 DEF SpendingInv, CallsAreSound
<1>5. PICK more : more = IF verdict = "up" THEN old.eligible \cup {p} ELSE old.eligible
  OBVIOUS
<1>6. more \in SUBSET (Providers \ Refused)
  BY <1>3, <1>5
<1>7. new = [old EXCEPT !.stage = "selecting", !.with = Nobody, !.eligible = more]
  BY <1>3, <1>4, <1>5 DEF CallStates
<1>8. new \in CallStates /\ new.stage = "selecting" /\ new.eligible = more /\ new.since <= day
  BY <1>3, <1>6, <1>7 DEF CallStates, Stages
<1>9. CallsAreSound'
  BY <1>2, <1>4, <1>8, GoingOnIsSound DEF SpendingInv, CallsAreSound
<1>10. \A d \in 0..LastDay : MayBill(c, d)' \subseteq MayBill(c, d)
  BY <1>1, <1>2, <1>5, <1>8 DEF MayBill
<1> QED BY <1>2, <1>4, <1>9, <1>10, BringsNothingNew DEF SpendingInv

(* A call that tries the next provider, today.                             *)
LEMMA TryingKeeps ==
  ASSUME SpendingInv, NEW c \in Calls, call' = [call EXCEPT ![c] = Try(c, call[c].eligible)],
         UNCHANGED <<registered, spent, day>>
  PROVE  SpendingInv'
<1>1. PICK new : new = Try(c, call[c].eligible)
  OBVIOUS
<1>2. /\ new \in CallStates /\ new.since <= day /\ new.stage \in {"idle", "running"}
      /\ new.eligible \subseteq call[c].eligible
      /\ new.stage = "running" => new.with \in call[c].eligible /\ new.since = day
  BY <1>1, TryingIsSound DEF SpendingInv
<1>3. call'[c] = new /\ call' = [call EXCEPT ![c] = new]
  BY <1>1 DEF SpendingInv, CallsAreSound
<1>4. new.stage = "running" => new.with \in Providers \ Refused
  BY <1>2, StatesAreWhole DEF SpendingInv
<1>5. CallsAreSound'
  BY <1>2, <1>3, <1>4, GoingOnIsSound DEF SpendingInv, CallsAreSound
<1>6. \A d \in 0..LastDay : MayBill(c, d)' \subseteq MayBill(c, d)
  <2> SUFFICES ASSUME NEW d \in 0..LastDay, NEW p \in Payable, p \in MayBill(c, d)'
               PROVE  p \in MayBill(c, d)
    BY DEF MayBill
  <2>1. \/ new.stage = "running" /\ p = new.with /\ d = new.since
        \/ d >= day /\ p \in new.eligible
    BY <1>2, <1>3 DEF MayBill
  <2>2. d >= day /\ p \in call[c].eligible
    BY <1>2, <2>1, StatesAreWhole DEF SpendingInv
  <2> QED BY <2>2 DEF MayBill
<1> QED BY <1>3, <1>5, <1>6, BringsNothingNew DEF SpendingInv

(* A call runs the best of what it chose.                                  *)
LEMMA RunKeeps == ASSUME SpendingInv, NEW c \in Calls, Run(c) PROVE SpendingInv'
BY TryingKeeps DEF Run

(* A run that fails costs nothing, and the next provider is tried.         *)
LEMMA RunFailsKeeps == ASSUME SpendingInv, NEW c \in Calls, RunFails(c) PROVE SpendingInv'
<1>1. PICK d : d = call[c].since /\ d \in 0..LastDay
  BY StatesAreWhole DEF SpendingInv
<1>2. spent' = [spent EXCEPT ![d] = @ + 0] /\ spent \in [0..LastDay -> Nat]
  BY <1>1 DEF RunFails, Record, SpendingInv, CallsAreSound
<1>3. spent' = spent
  BY <1>1, <1>2
<1> QED BY <1>3, TryingKeeps DEF RunFails

(* A bill is brought for the day its run began.                            *)
LEMMA RunAnswersKeeps == ASSUME SpendingInv, NEW c \in Calls, RunAnswers(c) PROVE SpendingInv'
<1>1. PICK old, q, day0 : old = call[c] /\ q = old.with /\ day0 = old.since
  OBVIOUS
<1>2. /\ spent' = [spent EXCEPT ![day0] = @ + Cost[q]] /\ call' = [call EXCEPT ![c] = NoCall]
      /\ UNCHANGED <<registered, day>> /\ old.stage = "running"
  BY <1>1 DEF RunAnswers, Record
<1>3. q \in Providers \ Refused /\ Cost[q] \in Nat /\ day0 \in 0..LastDay /\ day0 <= day
  BY <1>1, <1>2, StatesAreWhole, DearestIsDearest DEF SpendingInv, CallsAreSound
<1>4. spent \in [0..LastDay -> Nat] /\ spent' \in [0..LastDay -> Nat]
  BY <1>2, <1>3 DEF SpendingInv, CallsAreSound
<1>5. /\ NoCall \in CallStates /\ NoCall.stage = "idle" /\ NoCall.eligible = {}
      /\ NoCall.since = 0 /\ NoCall.since <= day
  BY StatesAreWhole DEF SpendingInv, NoCall, CallStates, Stages
<1>6. CallsAreSound'
  BY <1>2, <1>4, <1>5, GoingOnIsSound DEF SpendingInv
<1>7. call'[c] = NoCall
  BY <1>2 DEF SpendingInv, CallsAreSound
<1>8. \A d : MayBill(c, d)' = {}
  BY <1>5, <1>7 DEF MayBill
<1>9. ASSUME NEW d \in 0..LastDay PROVE Fits(BillsFor(d), spent[d])' /\ (d > day' => spent'[d] = 0)
  <2>1. PICK b, b2 : b = BillsFor(d) /\ b2 = BillsFor(d)'
    OBVIOUS
  <2>2. b \in [Calls -> SUBSET Payable] /\ b2 \in [Calls -> SUBSET Payable]
    BY <2>1 DEF BillsFor, MayBill
  <2>3. \A e \in Calls : b[e] = MayBill(e, d) /\ b2[e] = MayBill(e, d)'
    BY <2>1 DEF BillsFor
  <2>4. b2[c] = {} /\ \A e \in Calls : e # c => b2[e] = b[e]
    BY <1>2, <1>8, <2>3, OthersBringTheSame DEF SpendingInv
  <2>5. Fits(b, spent[d]) /\ spent[d] \in Nat /\ (d > day => spent[d] = 0)
    BY <2>1 DEF SpendingInv, SpendingFits, CallsAreSound
  <2>6. CASE d = day0 /\ Cost[q] # 0
    <3>1. q \in b[c]
      BY <1>1, <1>2, <1>3, <2>3, <2>6 DEF MayBill, Payable
    <3>2. Fits(b2, spent[d] + Cost[q])
      BY <2>2, <2>4, <2>5, <3>1, ABillFits
    <3>3. spent'[d] = spent[d] + Cost[q]
      BY <1>2, <1>4, <2>6
    <3>4. Fits(BillsFor(d), spent[d])'
      BY <2>1, <3>2, <3>3 DEF Fits, Owing
    <3>5. ~(d > day')
      BY <1>2, <1>3, <2>6, StatesAreWhole DEF SpendingInv
    <3> QED BY <3>4, <3>5
  <2>7. CASE ~(d = day0 /\ Cost[q] # 0)
    <3>1. spent'[d] = spent[d]
      BY <1>2, <1>3, <1>4, <2>5, <2>7
    <3>2. \A e \in Calls : b2[e] \subseteq b[e]
      BY <2>4
    <3>3. Fits(b2, spent[d])
      BY <2>2, <2>5, <3>2, FewerBillsFit
    <3>4. Fits(BillsFor(d), spent[d])'
      BY <2>1, <3>1, <3>3 DEF Fits, Owing
    <3> QED BY <1>2, <2>5, <3>1, <3>4
  <2> QED BY <2>6, <2>7
<1>10. SpendingFits'
  BY <1>9 DEF SpendingFits
<1> QED BY <1>6, <1>10 DEF SpendingInv

(* The next day has no bills but those this day could leave it.            *)
LEMMA MidnightKeeps == ASSUME SpendingInv, Midnight PROVE SpendingInv'
<1>1. /\ day \in 0..LastDay /\ LastDay \in Nat /\ day < LastDay /\ day' = day + 1
      /\ UNCHANGED <<registered, spent, call>>
  BY LimitAssumption DEF Midnight, SpendingInv, CallsAreSound
<1>2. day' \in 0..LastDay /\ day <= day' /\ \A d \in 0..LastDay : d <= day => d <= day'
  BY <1>1
<1>3. \A d \in 0..LastDay : d >= day' => d >= day
  BY <1>1
<1>4. CallsAreSound'
  BY <1>1, <1>2, StatesAreWhole DEF SpendingInv, CallsAreSound
<1>5. \A c \in Calls, d \in 0..LastDay : MayBill(c, d)' \subseteq MayBill(c, d)
  BY <1>1, <1>3 DEF MayBill
<1> QED BY <1>1, <1>2, <1>4, <1>5, NothingNewFits DEF SpendingInv

(* Where no call moves, no day passes and nothing is billed.               *)
LEMMA OtherStepsKeep ==
  ASSUME SpendingInv, UNCHANGED <<spent, day, call>>, registered' \subseteq Providers
  PROVE  SpendingInv'
<1>1. CallsAreSound'
  BY DEF SpendingInv, CallsAreSound
<1>2. \A c \in Calls, d \in 0..LastDay : MayBill(c, d)' \subseteq MayBill(c, d)
  BY DEF MayBill
<1>3. day \in 0..LastDay /\ day' \in 0..LastDay /\ day <= day'
  BY LimitAssumption DEF SpendingInv, CallsAreSound
<1> QED BY <1>1, <1>2, <1>3, NothingNewFits DEF SpendingInv

(* Nothing is spent.                                                       *)
LEMMA SpendingInit == RoutingInit => SpendingInv
<1> SUFFICES ASSUME RoutingInit PROVE SpendingInv
  OBVIOUS
<1>1. NoCall \in CallStates /\ NoCall.stage = "idle" /\ NoCall.eligible = {} /\ NoCall.since = 0
  BY LimitAssumption DEF NoCall, CallStates, Stages
<1>2. CallsAreSound
  BY <1>1, LimitAssumption DEF RoutingInit, CallsAreSound
<1>3. \A c \in Calls, d \in 0..LastDay : MayBill(c, d) = {}
  BY <1>1 DEF RoutingInit, MayBill
<1>4. ASSUME NEW d \in 0..LastDay PROVE Fits(BillsFor(d), spent[d]) /\ (d > day => spent[d] = 0)
  <2>1. spent[d] = 0
    BY DEF RoutingInit
  <2>2. Owing(BillsFor(d)) = {}
    BY <1>3 DEF Owing, BillsFor
  <2>3. Cardinality(Calls) \in Nat /\ Cardinality(Calls) # 0
    BY CallsAssumption, FS_CardinalityType, FS_EmptySet
  <2>4. Times(0 + 1) = Times(0) + Dearest /\ Times(0) \in Nat /\ Times(1) <= Times(Cardinality(Calls))
        /\ Times(1) \in Nat /\ Times(Cardinality(Calls)) \in Nat
    BY <2>3, TimesIsMonotone
  <2>5. Dearest <= Ceiling
    BY <2>4, DearestIsDearest, LimitAssumption DEF Ceiling
  <2> QED BY <2>1, <2>2, <2>5, DearestIsDearest DEF Fits
<1> QED BY <1>2, <1>4 DEF SpendingInv, SpendingFits

(* Every step keeps room for the bills that may still come.                *)
LEMMA SpendingSteps == SpendingInv /\ [RoutingNext]_routingVars => SpendingInv'
<1> SUFFICES ASSUME SpendingInv, [RoutingNext]_routingVars PROVE SpendingInv'
  OBVIOUS
<1>1. registered \subseteq Providers
  BY DEF SpendingInv, CallsAreSound
<1>2. CASE \E p \in Probed : HealthExpires(p) \/ Unregister(p) \/ Register(p)
  <2>1. UNCHANGED <<spent, day, call>> /\ registered' \subseteq Providers
    BY <1>1, <1>2, ProvidersAssumption DEF HealthExpires, Unregister, Register
  <2> QED BY <2>1, OtherStepsKeep
<1>3. CASE ResetHealth \/ UNCHANGED routingVars
  <2>1. UNCHANGED <<spent, day, call>> /\ registered' \subseteq Providers
    BY <1>1, <1>3 DEF ResetHealth, routingVars
  <2> QED BY <2>1, OtherStepsKeep
<1> QED BY <1>2, <1>3, BeginKeeps, ConsiderKeeps, ProbeKeeps, ProbeAnswersKeeps, RunKeeps, RunAnswersKeeps,
           RunFailsKeeps, MidnightKeeps DEF RoutingNext

(* Spending that left room for every bill stays under the ceiling.         *)
LEMMA RoomIsTheCeiling == SpendingInv => CeilingHoldsUpToConcurrency
<1> SUFFICES ASSUME SpendingInv, NEW d \in 0..LastDay
             PROVE  spent[d] <= DailyLimit + (Cardinality(Calls) - 1) * Dearest
  BY DEF CeilingHoldsUpToConcurrency, Dearest
<1>1. PICK b, n, m, s : b = BillsFor(d) /\ n = Cardinality(Calls) /\ m = Dearest /\ s = spent[d]
  OBVIOUS
<1>2. Fits(b, s) /\ s \in Nat /\ m \in Nat /\ b \in [Calls -> SUBSET Payable]
  BY <1>1, DearestIsDearest, BillsAreBills DEF SpendingInv, SpendingFits, CallsAreSound
<1>3. n \in Nat /\ n # 0 /\ n - 1 \in Nat
  BY <1>1, CallsAssumption, FS_CardinalityType, FS_EmptySet
<1>4. /\ Times(n - 1 + 1) = Times(n - 1) + Dearest /\ n - 1 + 1 = n
      /\ Times(n - 1) \in Nat /\ Times(n) \in Nat
  BY <1>3, TimesIsMonotone
<1>5. Ceiling = DailyLimit + Times(n - 1) + m
  BY <1>1, <1>2, <1>4, LimitAssumption DEF Ceiling
<1>6. s + m <= Ceiling
  <2>1. CASE Owing(b) = {}
    BY <1>1, <1>2, <2>1 DEF Fits
  <2>2. CASE Owing(b) # {}
    <3>1. PICK k, t : k = Cardinality(Owing(b)) /\ t = Times(k)
      OBVIOUS
    <3>2. PICK x \in Owing(b) : \A p \in b[x] : s + Cost[p] + t <= Ceiling
      BY <1>2, <2>2, <3>1 DEF Fits
    <3>3. PICK p \in b[x] : p \in Payable
      BY <1>2, <3>2 DEF Owing
    <3>4. Cost[p] \in Nat
      BY <3>3, DearestIsDearest DEF Payable
    <3>5. k \in Nat /\ k >= 1
      BY <2>2, <3>1, OwingAreCounted
    <3>6. Times(0 + 1) = Times(0) + Dearest /\ Times(0) \in Nat /\ Times(1) <= t /\ t \in Nat
      BY <3>1, <3>5, TimesIsMonotone
    <3>7. m <= t
      BY <1>1, <1>2, <3>6
    <3> QED BY <1>2, <3>2, <3>3, <3>4, <3>6, <3>7, CeilingIsANumber
  <2> QED BY <2>1, <2>2
<1>7. s <= DailyLimit + Times(n - 1)
  BY <1>2, <1>4, <1>5, <1>6, LimitAssumption
<1> QED BY <1>1, <1>7 DEF Times

(* For any providers, prices, limits and calls: a day is never billed more *)
(* than its limit and one bill for each further call under way, however    *)
(* the checks, the runs, their failures and midnight interleave.           *)
THEOREM CeilingIsNearlyKept == RoutingSpec => []CeilingHoldsUpToConcurrency
BY SpendingInit, SpendingSteps, RoomIsTheCeiling, PTL DEF RoutingSpec

-----------------------------------------------------------------------------
(* What is told of a provider's health.                                    *)

(* A verdict is told of only when it differs from what was last known, and *)
(* then what was told last is what was last known.                         *)
LEMMA VerdictsAlternate ==
  ASSUME ToldIsKnown, CallsAreSound, NEW c \in Calls, NEW verdict \in {"up", "down"},
         ProbeAnswers(c, verdict)
  PROVE  ToldIsKnown'
<1>0. PICK p : p = call[c].with
  OBVIOUS
<1> DEFINE changed == lastKnown[p] \notin {"unknown", verdict}
<1>1. p \in Providers
  BY <1>0 DEF ProbeAnswers, CallsAreSound
<1>2. /\ lastKnown' = [lastKnown EXCEPT ![p] = verdict]
      /\ reported' = IF changed THEN [reported EXCEPT ![p] = verdict] ELSE reported
      /\ repeated' = (repeated \/ (changed /\ reported[p] = verdict))
  BY <1>0 DEF ProbeAnswers
<1>3. /\ lastKnown \in [Providers -> Verdicts] /\ reported \in [Providers -> Verdicts]
      /\ \A q \in Providers : reported[q] \in {"unknown", lastKnown[q]}
      /\ verdict \in Verdicts
  BY DEF ToldIsKnown, Verdicts
<1>4. ~(changed /\ reported[p] = verdict)
  BY <1>1, <1>3
<1>5. ~repeated'
  BY <1>2, <1>4 DEF ToldIsKnown
<1>6. lastKnown' \in [Providers -> Verdicts] /\ reported' \in [Providers -> Verdicts]
  BY <1>1, <1>2, <1>3
<1>7. \A q \in Providers : reported'[q] \in {"unknown", lastKnown'[q]}
  BY <1>1, <1>2, <1>3
<1> QED BY <1>5, <1>6, <1>7 DEF ToldIsKnown

(* Every step keeps what was told in step with what is known.              *)
LEMMA HealthSteps == CallsAreSound /\ ToldIsKnown /\ [RoutingNext]_routingVars => ToldIsKnown'
<1> SUFFICES ASSUME CallsAreSound, ToldIsKnown, [RoutingNext]_routingVars PROVE ToldIsKnown'
  OBVIOUS
<1>1. CASE \E c \in Calls : Begin(c) \/ Run(c) \/ RunAnswers(c) \/ RunFails(c)
  BY <1>1 DEF Begin, Run, RunAnswers, RunFails, healthVars, ToldIsKnown
<1>2. CASE \E c \in Calls, p \in Providers : Consider(c, p) \/ Probe(c, p)
  BY <1>2 DEF Consider, Probe, healthVars, ToldIsKnown
<1>3. CASE \E c \in Calls, verdict \in {"up", "down"} : ProbeAnswers(c, verdict)
  BY <1>3, VerdictsAlternate
<1>4. CASE \E p \in Probed : HealthExpires(p) \/ Register(p)
  BY <1>4 DEF HealthExpires, Register, healthVars, ToldIsKnown
<1>5. CASE \E p \in Probed : Unregister(p)
  <2>1. PICK p \in Probed : Unregister(p)
    BY <1>5
  <2>2. /\ lastKnown' = [lastKnown EXCEPT ![p] = "unknown"]
        /\ reported' = [reported EXCEPT ![p] = "unknown"] /\ repeated' = repeated
    BY <2>1 DEF Unregister
  <2> QED BY <2>2 DEF ToldIsKnown, Verdicts
<1>6. CASE ResetHealth
  BY <1>6 DEF ResetHealth, KnownAfterReset, ToldIsKnown
<1>7. CASE Midnight \/ UNCHANGED routingVars
  BY <1>7 DEF Midnight, routingVars, healthVars, ToldIsKnown
<1> QED BY <1>1, <1>2, <1>3, <1>4, <1>5, <1>6, <1>7 DEF RoutingNext

(* An outage is told once when it begins and once when it is over, however *)
(* many calls probe the provider at once and in whatever order they are    *)
(* answered, while health is reset, expires, or the provider is registered *)
(* anew.                                                                   *)
THEOREM OutagesAreToldOnce == RoutingSpec => []HealthEventsAlternate
<1>1. RoutingInit => ToldIsKnown
  BY DEF RoutingInit, ToldIsKnown, Unknown, Verdicts
<1>2. SpendingInv => CallsAreSound
  BY DEF SpendingInv
<1>3. ToldIsKnown => HealthEventsAlternate
  BY DEF ToldIsKnown, HealthEventsAlternate
<1> QED BY <1>1, <1>2, <1>3, SpendingInit, SpendingSteps, HealthSteps, PTL DEF RoutingSpec

(***************************************************************************)
(* Client: what waits to be sent.                                          *)
(***************************************************************************)
(* Where an item waits: in the queue, or in what a flush has still to send.*)
Lies(n, item) == n \in DOMAIN outbox /\ outbox[n] = item
Pending(item) == item \in queued \ (replied \cup overwritten)

Sending == [at : {"flush"}, waiting : Seq(Items), i : Nat \ {0}]

WellFormed ==
    /\ outbox \in Seq(Items)
    /\ caller \in [Callers -> {Quiet} \cup Calling \cup Sending]
    /\ replied \subseteq Items /\ queued \subseteq Items /\ overwritten \subseteq queued
    /\ stored \in [Items -> Nat] /\ silences \in [Items -> Nat]

(* Nothing waits that need not, nothing waits twice, and what has to wait  *)
(* waits somewhere.                                                        *)
OncePlaced ==
    /\ \A item \in Items, n \in Nat : Lies(n, item) => Pending(item)
    /\ \A item \in Items, c \in Callers, n \in Nat : Sits(c, n, item) => Pending(item)
    /\ \A item \in Items, m, n \in Nat : Lies(m, item) /\ Lies(n, item) => m = n
    /\ \A item \in Items, c, d \in Callers, m, n \in Nat :
          Sits(c, m, item) /\ Sits(d, n, item) => c = d /\ m = n
    /\ \A item \in Items, c \in Callers, m, n \in Nat : ~(Lies(m, item) /\ Sits(c, n, item))
Placed ==
    \A item \in Items : Pending(item) =>
        \/ \E n \in Nat : Lies(n, item)
        \/ \E c \in Callers : \E n \in Nat : Sits(c, n, item)

(* A copy of the queue names nothing twice, sent or not, and a flush is    *)
(* somewhere in it.                                                        *)
CopiesAreSets ==
    \A c \in Callers : caller[c].at = "flush" =>
        /\ caller[c].i <= Len(caller[c].waiting)
        /\ \A m, n \in DOMAIN caller[c].waiting :
               caller[c].waiting[m] = caller[c].waiting[n] => m = n

(* What is being remembered was heard of by nobody else.                   *)
CallsAreFresh ==
    /\ \A c \in Callers : caller[c].at = "remember" => caller[c].item \notin queued \cup replied
    /\ \A c, d \in Callers : caller[c].at = "remember" /\ caller[d].at = "remember"
                               /\ caller[c].item = caller[d].item => c = d

StoredOnce == \A item \in Items :
    stored[item] <= silences[item] + IF item \in replied THEN 1 ELSE 0

ClientInv == WellFormed /\ OncePlaced /\ Placed /\ CopiesAreSets /\ CallsAreFresh /\ StoredOnce

(* A sequence that names nothing twice is no longer than there are names.  *)
LEMMA NoLongerThanNames ==
  ASSUME NEW s \in Seq(Items), \A m, n \in DOMAIN s : s[m] = s[n] => m = n
  PROVE  Len(s) <= Cardinality(Items)
<1>1. s \in [1..Len(s) -> Items] /\ Len(s) \in Nat
  OBVIOUS
<1>2. s \in Injection(1..Len(s), Items)
  BY <1>1 DEF Injection, IsInjective
<1>3. Cardinality(1..Len(s)) <= Cardinality(Items)
  BY <1>2, ItemsAssumption, FS_Injection
<1>4. Cardinality(1..Len(s)) = Len(s)
  <2>1. Len(s) \in Int /\ 1 \in Int
    BY <1>1
  <2>2. Cardinality(1..Len(s)) = IF 1 > Len(s) THEN 0 ELSE Len(s) - 1 + 1
    BY <2>1, FS_Interval
  <2> QED BY <1>1, <2>2
<1> QED BY <1>3, <1>4

(* Where a call of the client can be.                                      *)
LEMMA StatesOfCalls ==
  ASSUME WellFormed, NEW c \in Callers
  PROVE  /\ caller[c].at \in {"rest", "remember", "flush"}
         /\ caller[c].at = "rest" <=> caller[c] = Quiet
         /\ caller[c].at = "remember" => caller[c].item \in Items
         /\ caller[c].at = "flush" => /\ caller[c] \in Sending
                                      /\ caller[c].waiting \in Seq(Items)
                                      /\ caller[c].i \in Nat \ {0}
                                      /\ Len(caller[c].waiting) \in Nat
                                      /\ DOMAIN caller[c].waiting = 1..Len(caller[c].waiting)
<1>1. caller[c] \in {Quiet} \cup Calling \cup Sending
  BY DEF WellFormed
<1>2. CASE caller[c] = Quiet
  BY <1>2 DEF Quiet
<1>3. CASE caller[c] \in Calling
  BY <1>3 DEF Quiet, Calling
<1>4. CASE caller[c] \in Sending
  BY <1>4 DEF Quiet, Sending
<1> QED BY <1>1, <1>2, <1>3, <1>4

(* One item is counted once.                                               *)
LEMMA OneIsOne == \A x : Cardinality({x}) = 1
BY FS_Singleton

(* In terms of numbers: exactly one place, or none.                        *)
LEMMA PlacesAreCounted ==
  ASSUME ClientInv
  PROVE  QueuedIsKeptUntilAnswered
<1>1. ASSUME NEW item \in Items
      PROVE  Waits(item) = IF item \in queued \ (replied \cup overwritten) THEN 1 ELSE 0
  <2> DEFINE A == {n \in DOMAIN outbox : outbox[n] = item}
             B == {w \in Callers \X (1..Cardinality(Items)) : Sits(w[1], w[2], item)}
  <2>1. \A n : n \in A <=> Lies(n, item)
    BY DEF Lies
  <2>2. \A n \in A : n \in Nat
    BY DEF ClientInv, WellFormed
  <2>3. \A c \in Callers, n \in Nat : Sits(c, n, item) => n \in 1..Cardinality(Items)
    <3> SUFFICES ASSUME NEW c \in Callers, NEW n \in Nat, Sits(c, n, item)
                 PROVE  n \in 1..Cardinality(Items)
      OBVIOUS
    <3>1. caller[c].at = "flush" /\ n \in caller[c].i..Len(caller[c].waiting)
      BY DEF Sits
    <3>2. caller[c].waiting \in Seq(Items) /\ caller[c].i \in Nat \ {0}
      BY <3>1, StatesOfCalls DEF ClientInv
    <3>3. Len(caller[c].waiting) <= Cardinality(Items)
      BY <3>1, <3>2, NoLongerThanNames DEF ClientInv, CopiesAreSets
    <3>4. Cardinality(Items) \in Nat /\ Len(caller[c].waiting) \in Nat
      BY <3>2, ItemsAssumption, FS_CardinalityType
    <3> QED BY <3>1, <3>2, <3>3, <3>4
  <2>4. \A c \in Callers, n \in Nat : <<c, n>> \in B <=> Sits(c, n, item)
    BY <2>3 DEF Sits
  <2>5. \A b \in B : \E c \in Callers, n \in Nat : b = <<c, n>>
    BY ItemsAssumption, FS_CardinalityType
  <2>6. Waits(item) = Cardinality(A) + Cardinality(B)
    BY DEF Waits
  <2> HIDE DEF A, B
  <2>7. CASE \E n \in Nat : Lies(n, item)
    <3>1. PICK n \in Nat : Lies(n, item)
      BY <2>7
    <3>2. A = {n}
      BY <2>1, <2>2, <3>1 DEF ClientInv, OncePlaced
    <3>3. B = {}
      <4>1. \A c \in Callers, m \in Nat : ~Sits(c, m, item)
        <5>1. \A d \in Callers, l, m \in Nat : ~(Lies(l, item) /\ Sits(d, m, item))
          BY DEF ClientInv, OncePlaced
        <5> QED BY <3>1, <5>1
      <4> QED BY <2>4, <2>5, <4>1
    <3>4. Pending(item)
      BY <3>1 DEF ClientInv, OncePlaced
    <3>5. Cardinality(A) = 1
      BY <3>2, OneIsOne
    <3>6. Cardinality(B) = 0
      BY <3>3, FS_EmptySet
    <3> QED BY <2>6, <3>4, <3>5, <3>6 DEF Pending
  <2>8. CASE \E c \in Callers : \E n \in Nat : Sits(c, n, item)
    <3>1. PICK c \in Callers, n \in Nat : Sits(c, n, item)
      BY <2>8
    <3>2. A = {}
      BY <2>1, <2>2, <3>1 DEF ClientInv, OncePlaced
    <3>3. B = {<<c, n>>}
      BY <2>4, <2>5, <3>1 DEF ClientInv, OncePlaced
    <3>4. Pending(item)
      BY <3>1 DEF ClientInv, OncePlaced
    <3>5. Cardinality(A) = 0 /\ Cardinality(B) = 1
      BY <3>2, <3>3, FS_Singleton, FS_EmptySet
    <3> QED BY <2>6, <3>4, <3>5 DEF Pending
  <2>9. CASE /\ ~\E n \in Nat : Lies(n, item)
             /\ ~\E c \in Callers : \E n \in Nat : Sits(c, n, item)
    <3>1. A = {} /\ B = {}
      BY <2>1, <2>2, <2>4, <2>5, <2>9
    <3>2. ~Pending(item)
      BY <2>9 DEF ClientInv, Placed
    <3>3. Cardinality(A) = 0 /\ Cardinality(B) = 0
      BY <3>1, FS_EmptySet
    <3> QED BY <2>6, <3>2, <3>3 DEF Pending
  <2> QED BY <2>7, <2>8, <2>9
<1>2. \A item \in Items : stored[item] <= silences[item] + 1
  BY DEF ClientInv, WellFormed, StoredOnce
<1> QED BY <1>1, <1>2 DEF QueuedIsKeptUntilAnswered

(* A call that is neither begun nor ended by the step sits where it sat.   *)
LEMMA OthersSit ==
  ASSUME WellFormed, NEW c \in Callers, NEW next, caller' = [caller EXCEPT ![c] = next]
  PROVE  /\ caller'[c] = next
         /\ \A d \in Callers \ {c} : caller'[d] = caller[d]
         /\ \A d \in Callers \ {c} : \A n, item : Sits(d, n, item)' <=> Sits(d, n, item)
BY DEF WellFormed, Sits

(* Nothing was remembered yet.                                             *)
LEMMA ClientBegins == ClientInit => ClientInv
<1> SUFFICES ASSUME ClientInit PROVE ClientInv
  OBVIOUS
<1>1. WellFormed
  BY DEF ClientInit, WellFormed
<1>2. \A c \in Callers : caller[c].at = "rest"
  BY DEF ClientInit, Quiet
<1>3. (\A n, item : ~Lies(n, item)) /\ \A c \in Callers : \A n, item : ~Sits(c, n, item)
  BY <1>2 DEF Lies, Sits, ClientInit
<1>4. \A item : ~Pending(item)
  BY DEF Pending, ClientInit
<1> QED BY <1>1, <1>2, <1>3, <1>4 DEF ClientInit, ClientInv, OncePlaced, Placed, CopiesAreSets,
                                      CallsAreFresh, StoredOnce

(* The program remembers an item that is new to the queue.                 *)
LEMMA Remembering ==
  ASSUME ClientInv, NEW c \in Callers, NEW item \in Items, RememberItem(c, item)
  PROVE  ClientInv'
<1> DEFINE next == [at |-> "remember", item |-> item]
<1>1. /\ caller[c] = Quiet /\ item \notin Begun /\ caller' = [caller EXCEPT ![c] = next]
      /\ UNCHANGED <<outbox, replied, stored, queued, overwritten, silences>>
  BY DEF RememberItem
<1>2. /\ caller'[c] = next
      /\ \A d \in Callers \ {c} : caller'[d] = caller[d]
      /\ \A d \in Callers \ {c} : \A n, i : Sits(d, n, i)' <=> Sits(d, n, i)
  BY <1>1, OthersSit DEF ClientInv
<1>3. \A n, i : ~Sits(c, n, i) /\ ~Sits(c, n, i)'
  BY <1>1, <1>2 DEF Sits, Quiet
<1>4. /\ \A d \in Callers : \A n, i : Sits(d, n, i)' <=> Sits(d, n, i)
      /\ \A n, i : (Lies(n, i)' <=> Lies(n, i)) /\ (Pending(i)' <=> Pending(i))
  BY <1>1, <1>2, <1>3 DEF Lies, Pending
<1>5. WellFormed'
  BY <1>1 DEF ClientInv, WellFormed, Calling
<1>6. OncePlaced' /\ Placed'
  BY <1>4 DEF ClientInv, OncePlaced, Placed
<1>7. CopiesAreSets'
  BY <1>2 DEF ClientInv, CopiesAreSets
<1>8. CallsAreFresh'
  <2>1. item \notin queued \cup replied
        /\ \A d \in Callers : caller[d].at = "remember" => caller[d].item # item
    BY <1>1 DEF Begun
  <2> QED BY <1>1, <1>2, <2>1 DEF ClientInv, CallsAreFresh
<1>9. StoredOnce'
  BY <1>1 DEF ClientInv, StoredOnce
<1> QED BY <1>5, <1>6, <1>7, <1>8, <1>9 DEF ClientInv

(* The queue moves into the copy as it is; nothing else moves.             *)
LEMMA TheQueueMoves ==
  ASSUME WellFormed, OncePlaced, Placed, CopiesAreSets,
         NEW c \in Callers, caller[c].at # "flush", BeginFlush(c)
  PROVE  /\ outbox' \in Seq(Items)
         /\ caller' \in [Callers -> {Quiet} \cup Calling \cup Sending]
         /\ caller'[c].at # "remember" /\ \A d \in Callers \ {c} : caller'[d] = caller[d]
         /\ \A n, item : ~Lies(n, item)'
         /\ \A n, item : Sits(c, n, item)' <=> Lies(n, item)
         /\ \A d \in Callers \ {c} : \A n, item : Sits(d, n, item)' <=> Sits(d, n, item)
         /\ CopiesAreSets'
<1> DEFINE next == IF outbox = <<>> THEN Quiet ELSE [at |-> "flush", waiting |-> outbox, i |-> 1]
<1>1. outbox' = <<>> /\ caller' = [caller EXCEPT ![c] = next]
  BY DEF BeginFlush
<1>2. outbox \in Seq(Items) /\ DOMAIN outbox = 1..Len(outbox)
  BY DEF WellFormed
<1>3. next \in {Quiet} \cup Sending
  BY <1>2 DEF Sending
<1>4. outbox' \in Seq(Items) /\ caller' \in [Callers -> {Quiet} \cup Calling \cup Sending]
  BY <1>1, <1>3 DEF WellFormed
<1>5. /\ caller'[c] = next
      /\ \A d \in Callers \ {c} : caller'[d] = caller[d]
      /\ \A d \in Callers \ {c} : \A n, item : Sits(d, n, item)' <=> Sits(d, n, item)
  <2>1. caller' = [caller EXCEPT ![c] = next]
    BY <1>1
  <2> HIDE DEF next
  <2> QED BY <2>1, OthersSit
<1>6. \A n, item : Sits(c, n, item)' <=> Lies(n, item)
  BY <1>2, <1>5 DEF Sits, Lies, Quiet
<1>7. \A n, item : ~Lies(n, item)'
  BY <1>1 DEF Lies
<1>8. CopiesAreSets'
  <2>1. \A m, n \in DOMAIN outbox : outbox[m] = outbox[n] => m = n
    <3>1. \A m \in DOMAIN outbox : m \in Nat /\ outbox[m] \in Items
      BY <1>2
    <3> QED BY <3>1 DEF OncePlaced, Lies
  <2>2. outbox # <<>> => 1 <= Len(outbox)
    BY <1>2
  <2> QED BY <1>5, <2>1, <2>2 DEF CopiesAreSets, Quiet
<1>9. caller'[c].at # "remember"
  BY <1>5 DEF Quiet
<1> QED BY <1>4, <1>5, <1>6, <1>7, <1>8, <1>9

(* Once the queue has moved everything is where it was, in other hands.    *)
LEMMA MovingKeepsPlaces ==
  ASSUME ClientInv, NEW c \in Callers, caller[c].at # "flush", BeginFlush(c),
         \A item \in Items : Pending(item)' <=> Pending(item)
  PROVE  OncePlaced' /\ Placed'
<1>1. /\ \A n, item : ~Lies(n, item)'
      /\ \A n, item : Sits(c, n, item)' <=> Lies(n, item)
      /\ \A d \in Callers \ {c} : \A n, item : Sits(d, n, item)' <=> Sits(d, n, item)
  BY TheQueueMoves DEF ClientInv
<1>2. \A n, item : ~Sits(c, n, item)
  BY DEF Sits
<1>3. OncePlaced'
  BY <1>1 DEF ClientInv, OncePlaced
<1>4. Placed'
  BY <1>1, <1>2 DEF ClientInv, Placed
<1> QED BY <1>3, <1>4

(* The server answers at once: the item never waits.                       *)
LEMMA Answering ==
  ASSUME ClientInv, NEW c \in Callers, NEW yes \in BOOLEAN, RememberAnswered(c, yes)
  PROVE  ClientInv'
<1>1. PICK item : item = caller[c].item
  OBVIOUS
<1>2. /\ caller[c].at = "remember" /\ Answered(item, yes)
      /\ IF yes THEN BeginFlush(c)
         ELSE caller' = [caller EXCEPT ![c] = Quiet] /\ UNCHANGED outbox
  BY <1>1 DEF RememberAnswered
<1>3. item \in Items /\ item \notin queued \cup replied
  BY <1>1, <1>2, StatesOfCalls DEF ClientInv, CallsAreFresh
<1>4. /\ replied' = replied \cup {item}
      /\ stored' = IF yes THEN [stored EXCEPT ![item] = @ + 1] ELSE stored
      /\ UNCHANGED <<queued, overwritten, silences>>
  BY <1>2 DEF Answered
<1>5. \A i : Pending(i)' <=> Pending(i)
  BY <1>3, <1>4 DEF Pending
<1>6. StoredOnce' /\ stored' \in [Items -> Nat]
  BY <1>3, <1>4 DEF ClientInv, WellFormed, StoredOnce
<1>7. /\ OncePlaced' /\ Placed' /\ CopiesAreSets'
      /\ outbox' \in Seq(Items) /\ caller' \in [Callers -> {Quiet} \cup Calling \cup Sending]
      /\ caller'[c].at # "remember" /\ \A d \in Callers \ {c} : caller'[d] = caller[d]
  <2>1. CASE yes
    <3>1. BeginFlush(c) /\ caller[c].at # "flush"
      BY <1>2, <2>1
    <3>2. OncePlaced' /\ Placed'
      BY <1>5, <3>1, MovingKeepsPlaces
    <3> QED BY <3>1, <3>2, TheQueueMoves DEF ClientInv
  <2>2. CASE ~yes
    <3>1. caller' = [caller EXCEPT ![c] = Quiet] /\ outbox' = outbox
      BY <1>2, <2>2
    <3>2. /\ caller'[c] = Quiet
          /\ \A d \in Callers \ {c} : caller'[d] = caller[d]
          /\ \A d \in Callers \ {c} : \A n, i : Sits(d, n, i)' <=> Sits(d, n, i)
      BY <3>1, OthersSit DEF ClientInv
    <3>3. \A n, i : ~Sits(c, n, i)' /\ ~Sits(c, n, i)
      BY <1>2, <3>2 DEF Sits, Quiet
    <3>4. /\ \A d \in Callers : \A n, i : Sits(d, n, i)' <=> Sits(d, n, i)
          /\ \A n, i : Lies(n, i)' <=> Lies(n, i)
      BY <3>1, <3>2, <3>3 DEF Lies
    <3>5. OncePlaced' /\ Placed'
      BY <1>5, <3>4 DEF ClientInv, OncePlaced, Placed
    <3>6. CopiesAreSets' /\ caller'[c].at # "remember"
      BY <3>2 DEF ClientInv, CopiesAreSets, Quiet
    <3> QED BY <3>1, <3>2, <3>5, <3>6 DEF ClientInv, WellFormed
  <2> QED BY <2>1, <2>2
<1>8. WellFormed'
  BY <1>3, <1>4, <1>6, <1>7 DEF ClientInv, WellFormed
<1>9. CallsAreFresh'
  BY <1>1, <1>2, <1>4, <1>7 DEF ClientInv, CallsAreFresh
<1> QED BY <1>6, <1>7, <1>8, <1>9 DEF ClientInv

(* The server does not answer: the item is queued.                         *)
LEMMA NotAnswering ==
  ASSUME ClientInv, NEW c \in Callers, NEW yes \in BOOLEAN, RememberUnanswered(c, yes)
  PROVE  ClientInv'
<1>1. PICK item : item = caller[c].item
  OBVIOUS
<1>2. /\ caller[c].at = "remember"
      /\ stored' = IF yes THEN [stored EXCEPT ![item] = @ + 1] ELSE stored
      /\ silences' = [silences EXCEPT ![item] = @ + 1]
      /\ outbox' = Append(outbox, item)
      /\ queued' = queued \cup {item}
      /\ caller' = [caller EXCEPT ![c] = Quiet]
      /\ UNCHANGED <<replied, overwritten>>
  BY <1>1 DEF RememberUnanswered, Silence
<1>3. item \in Items /\ item \notin queued /\ item \notin replied /\ item \notin overwritten
  BY <1>1, <1>2, StatesOfCalls DEF ClientInv, CallsAreFresh, WellFormed
<1>4. /\ caller'[c] = Quiet
      /\ \A d \in Callers \ {c} : caller'[d] = caller[d]
      /\ \A d \in Callers \ {c} : \A n, i : Sits(d, n, i)' <=> Sits(d, n, i)
  BY <1>2, OthersSit DEF ClientInv
<1>5. \A n, i : ~Sits(c, n, i)' /\ ~Sits(c, n, i)
  BY <1>2, <1>4 DEF Sits, Quiet
<1>6. \A d \in Callers : \A n, i : Sits(d, n, i)' <=> Sits(d, n, i)
  BY <1>4, <1>5
<1>7. /\ outbox \in Seq(Items) /\ Len(outbox) \in Nat
      /\ outbox' \in Seq(Items) /\ DOMAIN outbox' = 1..(Len(outbox) + 1)
      /\ \A n \in 1..Len(outbox) : outbox'[n] = outbox[n]
      /\ outbox'[Len(outbox) + 1] = item
  BY <1>2, <1>3 DEF ClientInv, WellFormed
<1>8. \A n \in Nat : \A i : Lies(n, i)' <=> Lies(n, i) \/ (n = Len(outbox) + 1 /\ i = item)
  BY <1>7 DEF Lies
<1>9. \A i : Pending(i)' <=> Pending(i) \/ i = item
  BY <1>2, <1>3 DEF Pending
<1>10. ~Pending(item)
  BY <1>3 DEF Pending
<1>11. \A n \in Nat : \A i : Lies(n, i) => n # Len(outbox) + 1
  BY <1>7 DEF Lies
<1>12. OncePlaced'
  BY <1>3, <1>6, <1>8, <1>9, <1>10 DEF ClientInv, OncePlaced
<1>13. Placed'
  <2> SUFFICES ASSUME NEW i \in Items, Pending(i)'
               PROVE  \/ \E n \in Nat : Lies(n, i)'
                      \/ \E d \in Callers : \E n \in Nat : Sits(d, n, i)'
    BY DEF Placed
  <2>1. CASE i = item
    <3>1. PICK n \in Nat : n = Len(outbox) + 1
      BY <1>7
    <3>2. Lies(n, i)'
      BY <1>8, <2>1, <3>1
    <3> QED BY <3>2
  <2>2. CASE i # item
    <3>1. \/ \E n \in Nat : Lies(n, i)
          \/ \E d \in Callers : \E n \in Nat : Sits(d, n, i)
      BY <1>9, <2>2 DEF ClientInv, Placed
    <3> QED BY <1>6, <1>8, <3>1
  <2> QED BY <2>1, <2>2
<1>14. CopiesAreSets'
  BY <1>4 DEF ClientInv, CopiesAreSets, Quiet
<1>15. CallsAreFresh'
  BY <1>1, <1>2, <1>4 DEF ClientInv, CallsAreFresh, Quiet
<1>16. StoredOnce' /\ stored' \in [Items -> Nat] /\ silences' \in [Items -> Nat]
  BY <1>2, <1>3 DEF ClientInv, WellFormed, StoredOnce
<1>17. WellFormed'
  BY <1>2, <1>3, <1>7, <1>16 DEF ClientInv, WellFormed
<1> QED BY <1>12, <1>13, <1>14, <1>15, <1>16, <1>17 DEF ClientInv

(* A flush takes a copy of the queue to send.                              *)
LEMMA FlushBegins ==
  ASSUME ClientInv, NEW c \in Callers, Flush(c)
  PROVE  ClientInv'
<1>1. /\ caller[c] = Quiet /\ BeginFlush(c)
      /\ UNCHANGED <<replied, stored, queued, overwritten, silences>>
  BY DEF Flush
<1>2. caller[c].at # "flush" /\ \A i : Pending(i)' <=> Pending(i)
  BY <1>1 DEF Quiet, Pending
<1>3. OncePlaced' /\ Placed'
  BY <1>1, <1>2, MovingKeepsPlaces
<1>4. /\ CopiesAreSets'
      /\ outbox' \in Seq(Items) /\ caller' \in [Callers -> {Quiet} \cup Calling \cup Sending]
      /\ caller'[c].at # "remember" /\ \A d \in Callers \ {c} : caller'[d] = caller[d]
  BY <1>1, <1>2, TheQueueMoves DEF ClientInv
<1>5. WellFormed'
  BY <1>1, <1>4 DEF ClientInv, WellFormed
<1>6. CallsAreFresh'
  BY <1>1, <1>4 DEF ClientInv, CallsAreFresh
<1>7. StoredOnce'
  BY <1>1 DEF ClientInv, StoredOnce
<1> QED BY <1>3, <1>4, <1>5, <1>6, <1>7 DEF ClientInv

(* Where a flush is: at an item that waits there and nowhere else.         *)
LEMMA AtAnItem ==
  ASSUME ClientInv, NEW c \in Callers, caller[c].at = "flush"
  PROVE  LET item == caller[c].waiting[caller[c].i]
         IN /\ item \in Items /\ Sits(c, caller[c].i, item) /\ Pending(item)
<1>1. /\ caller[c].waiting \in Seq(Items) /\ caller[c].i \in Nat \ {0}
      /\ caller[c].i <= Len(caller[c].waiting)
  BY StatesOfCalls DEF ClientInv, CopiesAreSets
<1>2. /\ caller[c].i \in 1..Len(caller[c].waiting)
      /\ caller[c].i \in caller[c].i..Len(caller[c].waiting)
  BY <1>1
<1>3. caller[c].waiting[caller[c].i] \in Items
  BY <1>1, <1>2
<1>4. Sits(c, caller[c].i, caller[c].waiting[caller[c].i])
  BY <1>2 DEF Sits
<1> QED BY <1>1, <1>3, <1>4 DEF ClientInv, OncePlaced

(* An item of the flush is answered, and the flush goes on.                *)
LEMMA FlushGoesOn ==
  ASSUME ClientInv, NEW c \in Callers, NEW yes \in BOOLEAN, FlushAnswered(c, yes)
  PROVE  ClientInv'
<1>1. PICK w, i, item : w = caller[c].waiting /\ i = caller[c].i /\ item = w[i]
  OBVIOUS
<1>2. /\ caller[c].at = "flush" /\ Answered(item, yes) /\ outbox' = outbox
      /\ caller' = [caller EXCEPT ![c] = IF i = Len(w) THEN Quiet ELSE [caller[c] EXCEPT !.i = @ + 1]]
  BY <1>1 DEF FlushAnswered
<1>3. /\ caller[c] \in Sending /\ w \in Seq(Items) /\ i \in Nat \ {0} /\ Len(w) \in Nat
      /\ i <= Len(w)
  BY <1>1, <1>2, StatesOfCalls DEF ClientInv, CopiesAreSets
<1>4. item \in Items /\ Sits(c, i, item) /\ Pending(item)
  BY <1>1, <1>2, AtAnItem
<1>5. /\ replied' = replied \cup {item}
      /\ stored' = IF yes THEN [stored EXCEPT ![item] = @ + 1] ELSE stored
      /\ UNCHANGED <<queued, overwritten, silences>>
  BY <1>2 DEF Answered
<1>6. PICK next : next = IF i = Len(w) THEN Quiet ELSE [caller[c] EXCEPT !.i = @ + 1]
  OBVIOUS
<1>7. /\ next \in {Quiet} \cup Sending
      /\ i = Len(w) => next = Quiet
      /\ i # Len(w) => next \in Sending /\ next.at = "flush" /\ next.waiting = w /\ next.i = i + 1
  BY <1>1, <1>2, <1>3, <1>6 DEF Sending
<1>8. /\ caller'[c] = next
      /\ \A d \in Callers \ {c} : caller'[d] = caller[d]
      /\ \A d \in Callers \ {c} : \A n, x : Sits(d, n, x)' <=> Sits(d, n, x)
  BY <1>2, <1>6, OthersSit DEF ClientInv
<1>9. \A n \in Nat : \A x : Sits(c, n, x)' <=> Sits(c, n, x) /\ n # i
  <2>1. \A n \in Nat : \A x : Sits(c, n, x) <=> n \in i..Len(w) /\ w[n] = x
    BY <1>1, <1>2 DEF Sits
  <2>2. CASE i = Len(w)
    <3>1. \A n, x : ~Sits(c, n, x)'
      BY <1>7, <1>8, <2>2 DEF Sits, Quiet
    <3>2. \A n \in i..Len(w) : n = i
      BY <1>3, <2>2
    <3> QED BY <2>1, <3>1, <3>2
  <2>3. CASE i # Len(w)
    <3>1. \A n \in Nat : \A x : Sits(c, n, x)' <=> n \in (i + 1)..Len(w) /\ w[n] = x
      BY <1>7, <1>8, <2>3 DEF Sits
    <3>2. \A n \in Nat : n \in (i + 1)..Len(w) <=> n \in i..Len(w) /\ n # i
      BY <1>3
    <3> QED BY <2>1, <3>1, <3>2
  <2> QED BY <2>2, <2>3
<1>10. \A x : Pending(x)' <=> Pending(x) /\ x # item
  BY <1>5 DEF Pending
<1>11. \A n, x : Lies(n, x)' <=> Lies(n, x)
  BY <1>2 DEF Lies
<1>12. OncePlaced'
  <2>1. \A n \in Nat : ~Lies(n, item)
    BY <1>3, <1>4 DEF ClientInv, OncePlaced
  <2>2. \A d \in Callers, n \in Nat : Sits(d, n, item) => d = c /\ n = i
    BY <1>3, <1>4 DEF ClientInv, OncePlaced
  <2>3. \A x \in Items, n \in Nat : Lies(n, x)' => Pending(x)'
    BY <1>10, <1>11, <2>1 DEF ClientInv, OncePlaced
  <2>4. \A x \in Items, d \in Callers, n \in Nat : Sits(d, n, x)' => Pending(x)'
    BY <1>8, <1>9, <1>10, <2>2 DEF ClientInv, OncePlaced
  <2>5. \A d \in Callers, n \in Nat : \A x : Sits(d, n, x)' => Sits(d, n, x)
    BY <1>8, <1>9
  <2> QED BY <1>11, <2>3, <2>4, <2>5 DEF ClientInv, OncePlaced
<1>13. Placed'
  <2>1. \A d \in Callers, n \in Nat : \A x \in Items : x # item /\ Sits(d, n, x) => Sits(d, n, x)'
    <3>1. \A x : Sits(c, i, x) => x = item
      BY <1>1 DEF Sits
    <3> QED BY <1>8, <1>9, <3>1
  <2> QED BY <1>10, <1>11, <2>1 DEF ClientInv, Placed
<1>14. CopiesAreSets'
  BY <1>1, <1>2, <1>3, <1>7, <1>8 DEF ClientInv, CopiesAreSets, Quiet
<1>15. caller'[c].at # "remember"
  BY <1>7, <1>8 DEF Quiet
<1>16. CallsAreFresh'
  <2>1. \A d \in Callers : caller[d].at = "remember" => caller[d].item # item
    BY <1>4 DEF ClientInv, CallsAreFresh, Pending
  <2> QED BY <1>5, <1>8, <1>15, <2>1 DEF ClientInv, CallsAreFresh
<1>17. StoredOnce' /\ stored' \in [Items -> Nat]
  <2>1. item \notin replied
    BY <1>4 DEF Pending
  <2> QED BY <1>4, <1>5, <2>1 DEF ClientInv, WellFormed, StoredOnce
<1>18. WellFormed'
  BY <1>2, <1>4, <1>5, <1>6, <1>7, <1>17 DEF ClientInv, WellFormed
<1> QED BY <1>12, <1>13, <1>14, <1>16, <1>17, <1>18 DEF ClientInv

(* What was left of a copy is in the order it had.                         *)
LEMMA WhatIsLeft ==
  ASSUME NEW s \in Seq(Items), NEW i \in 1..Len(s)
  PROVE  /\ Left(s, i) \in Seq(Items) /\ DOMAIN Left(s, i) = 1..(Len(s) - i + 1)
         /\ \A n \in 1..(Len(s) - i + 1) : Left(s, i)[n] = s[i + n - 1]
<1>1. Len(s) \in Nat /\ i \in Int /\ \A n \in i..Len(s) : n \in 1..Len(s)
  OBVIOUS
<1>2. SubSeq(s, i, Len(s)) \in Seq(Items) /\ Len(SubSeq(s, i, Len(s))) = Len(s) - i + 1
  BY <1>1
<1>3. \A n \in 1..(Len(s) - i + 1) : SubSeq(s, i, Len(s))[n] = s[i + n - 1]
  BY <1>1
<1> QED BY <1>2, <1>3 DEF Left

(* The server falls silent: what was not sent is queued again.             *)
LEMMA FlushComesBack ==
  ASSUME ClientInv, NEW c \in Callers, NEW yes \in BOOLEAN, FlushUnanswered(c, yes)
  PROVE  ClientInv'
<1>1. PICK w, i, item : w = caller[c].waiting /\ i = caller[c].i /\ item = w[i]
  OBVIOUS
<1>2. /\ caller[c].at = "flush"
      /\ stored' = IF yes THEN [stored EXCEPT ![item] = @ + 1] ELSE stored
      /\ silences' = [silences EXCEPT ![item] = @ + 1]
      /\ outbox' = Left(w, i)
      /\ overwritten' = overwritten \cup ToSet(outbox)
      /\ caller' = [caller EXCEPT ![c] = Quiet]
      /\ UNCHANGED <<replied, queued>>
  BY <1>1 DEF FlushUnanswered, Silence
<1>3. w \in Seq(Items) /\ i \in Nat \ {0} /\ Len(w) \in Nat /\ i \in 1..Len(w)
  BY <1>1, <1>2, StatesOfCalls DEF ClientInv, CopiesAreSets
<1>4. item \in Items /\ Pending(item)
  BY <1>1, <1>2, AtAnItem
<1>5. /\ caller'[c] = Quiet
      /\ \A d \in Callers \ {c} : caller'[d] = caller[d]
      /\ \A d \in Callers \ {c} : \A n, x : Sits(d, n, x)' <=> Sits(d, n, x)
  BY <1>2, OthersSit DEF ClientInv
<1>6. \A n, x : ~Sits(c, n, x)'
  BY <1>5 DEF Sits, Quiet
<1>7. /\ outbox' \in Seq(Items) /\ DOMAIN outbox' = 1..(Len(w) - i + 1)
      /\ \A n \in 1..(Len(w) - i + 1) : outbox'[n] = w[i + n - 1]
  BY <1>2, <1>3, WhatIsLeft
<1>8. \A n \in Nat : \A x : Lies(n, x)' <=> n # 0 /\ Sits(c, i + n - 1, x)
  <2> SUFFICES ASSUME NEW n \in Nat, NEW x PROVE Lies(n, x)' <=> n # 0 /\ Sits(c, i + n - 1, x)
    OBVIOUS
  <2>1. n \in 1..(Len(w) - i + 1) <=> n # 0 /\ i + n - 1 \in i..Len(w)
    BY <1>3
  <2>2. Lies(n, x)' <=> n \in 1..(Len(w) - i + 1) /\ w[i + n - 1] = x
    BY <1>7 DEF Lies
  <2>3. Sits(c, i + n - 1, x) <=> i + n - 1 \in i..Len(w) /\ w[i + n - 1] = x
    BY <1>1, <1>2 DEF Sits
  <2> QED BY <2>1, <2>2, <2>3, Zenon
<1>9. \A n \in Nat : \A x : Sits(c, n, x) => n - i + 1 \in Nat /\ n - i + 1 # 0 /\ i + (n - i + 1) - 1 = n
  BY <1>1, <1>3 DEF Sits
<1>10. \A x \in Items : Pending(x)' <=> Pending(x) /\ ~\E n \in Nat : Lies(n, x)
  <2>1. \A x : x \in ToSet(outbox) <=> \E n \in Nat : Lies(n, x)
    BY DEF ToSet, Lies, ClientInv, WellFormed
  <2> QED BY <1>2, <2>1 DEF Pending
<1>11. \A n \in Nat : n # 0 => i + n - 1 \in Nat
  BY <1>3
<1>12. OncePlaced'
  <2>1. \A x \in Items, n \in Nat : Lies(n, x)' => Pending(x)'
    BY <1>8, <1>10, <1>11 DEF ClientInv, OncePlaced
  <2>2. \A x \in Items, d \in Callers, n \in Nat : Sits(d, n, x)' => d # c /\ Sits(d, n, x)
    BY <1>5, <1>6
  <2>3. \A x \in Items, d \in Callers, n \in Nat : Sits(d, n, x)' => Pending(x)'
    BY <1>10, <2>2 DEF ClientInv, OncePlaced
  <2>4. \A x \in Items, m, n \in Nat : Lies(m, x)' /\ Lies(n, x)' => m = n
    <3> SUFFICES ASSUME NEW x \in Items, NEW m \in Nat, NEW n \in Nat, Lies(m, x)', Lies(n, x)'
                 PROVE  m = n
      OBVIOUS
    <3>1. Sits(c, i + m - 1, x) /\ Sits(c, i + n - 1, x) /\ i + m - 1 \in Nat /\ i + n - 1 \in Nat
      BY <1>8, <1>11
    <3>2. i + m - 1 = i + n - 1
      BY <3>1 DEF ClientInv, OncePlaced
    <3> QED BY <1>3, <3>2
  <2>5. \A x \in Items, d, e \in Callers, m, n \in Nat :
            Sits(d, m, x)' /\ Sits(e, n, x)' => d = e /\ m = n
    BY <2>2 DEF ClientInv, OncePlaced
  <2>6. \A x \in Items, d \in Callers, m, n \in Nat : ~(Lies(m, x)' /\ Sits(d, n, x)')
    BY <1>8, <1>11, <2>2 DEF ClientInv, OncePlaced
  <2> QED BY <2>1, <2>3, <2>4, <2>5, <2>6 DEF OncePlaced
<1>13. Placed'
  <2> SUFFICES ASSUME NEW x \in Items, Pending(x)'
               PROVE  \/ \E n \in Nat : Lies(n, x)'
                      \/ \E d \in Callers : \E n \in Nat : Sits(d, n, x)'
    BY DEF Placed
  <2>1. PICK d \in Callers : \E n \in Nat : Sits(d, n, x)
    BY <1>10 DEF ClientInv, Placed
  <2>2. PICK n \in Nat : Sits(d, n, x)
    BY <2>1
  <2>3. CASE d = c
    <3>1. n - i + 1 \in Nat /\ Lies(n - i + 1, x)'
      BY <1>8, <1>9, <2>2, <2>3
    <3> QED BY <3>1
  <2>4. CASE d # c
    BY <1>5, <2>2, <2>4
  <2> QED BY <2>3, <2>4
<1>14. CopiesAreSets'
  BY <1>5 DEF ClientInv, CopiesAreSets, Quiet
<1>15. CallsAreFresh'
  BY <1>2, <1>5 DEF ClientInv, CallsAreFresh, Quiet
<1>16. StoredOnce' /\ stored' \in [Items -> Nat] /\ silences' \in [Items -> Nat]
  BY <1>2, <1>4 DEF ClientInv, WellFormed, StoredOnce
<1>17. overwritten' \subseteq queued'
  <2>1. \A n \in DOMAIN outbox : outbox[n] \in queued
    <3>1. \A n \in DOMAIN outbox : n \in Nat /\ outbox[n] \in Items
      BY DEF ClientInv, WellFormed
    <3> QED BY <3>1 DEF ClientInv, OncePlaced, Lies, Pending
  <2> QED BY <1>2, <2>1 DEF ToSet, ClientInv, WellFormed
<1>18. WellFormed'
  BY <1>2, <1>7, <1>16, <1>17 DEF ClientInv, WellFormed
<1> QED BY <1>12, <1>13, <1>14, <1>15, <1>16, <1>18 DEF ClientInv

(* Every step keeps each waiting item in one place.                        *)
LEMMA ClientSteps == ClientInv /\ [ClientNext]_clientVars => ClientInv'
<1> SUFFICES ASSUME ClientInv, [ClientNext]_clientVars PROVE ClientInv'
  OBVIOUS
<1>1. CASE UNCHANGED clientVars
  <2>1. /\ outbox' = outbox /\ caller' = caller /\ replied' = replied /\ stored' = stored
        /\ queued' = queued /\ overwritten' = overwritten /\ silences' = silences
    BY <1>1 DEF clientVars
  <2>2. WellFormed' /\ CopiesAreSets' /\ CallsAreFresh' /\ StoredOnce'
    BY <2>1 DEF ClientInv, WellFormed, CopiesAreSets, CallsAreFresh, StoredOnce
  <2>3. \A item, n : Lies(n, item)' <=> Lies(n, item)
    BY <2>1 DEF Lies
  <2>4. \A item, c, n : Sits(c, n, item)' <=> Sits(c, n, item)
    BY <2>1 DEF Sits
  <2>5. \A item : Pending(item)' <=> Pending(item)
    BY <2>1 DEF Pending
  <2>6. OncePlaced'
    BY <2>3, <2>4, <2>5 DEF ClientInv, OncePlaced
  <2>7. Placed'
    BY <2>3, <2>4, <2>5 DEF ClientInv, Placed
  <2> QED BY <2>2, <2>6, <2>7 DEF ClientInv
<1> QED BY <1>1, Remembering, Answering, NotAnswering, FlushBegins, FlushGoesOn, FlushComesBack
        DEF ClientNext

(* However calls and flushes overlap and whatever is not answered: what    *)
(* the program was told is queued waits in exactly one place until it was  *)
(* answered for or overwritten, and nothing is stored more often than it   *)
(* went unanswered, and once.                                              *)
THEOREM QueuedWaitsOnce == ClientSpec => []QueuedIsKeptUntilAnswered
BY ClientBegins, ClientSteps, PlacesAreCounted, PTL DEF ClientSpec

(***************************************************************************)
(* Entities: what was merged is replaced for good.                         *)
(***************************************************************************)
(* Who was merged and not led astray since.                                *)
IsMerged(e) == entity[e].state = "superseded" /\ e \notin astray

Recorded == /\ entity \in Seq(EntityRow) /\ Len(entity) <= MaxEntities
            /\ mention \subseteq Notepads \X Made
            /\ answered \in [EntityIds -> SUBSET EntityNames]
            /\ forgotten \in [EntityIds -> SUBSET EntityNames]
            /\ astray \subseteq Made

(* Whoever was merged has somebody who stands in.                          *)
SomebodyStandsIn == \A e \in Made : IsMerged(e) => entity[e].by \in Made

NobodyMentionsMerged == \A e \in Made : IsMerged(e) => \A m \in mention : m[2] # e

(* What a merge of the one into the other may have left out.               *)
LeftOut(e, k) == forgotten[e] \cup forgotten[k]

(* Who stands in answers to every other name of whom it stands in for.     *)
NamesAreHandedOver ==
    \A e \in Made : IsMerged(e) /\ entity[e].by \notin astray =>
        answered[e] \subseteq NamesOf(entity[e].by) \cup LeftOut(e, entity[e].by)

(* Merged in turn, it had answered to them then.                           *)
NamesAreHandedOn ==
    \A e \in Made : IsMerged(e) /\ IsMerged(entity[e].by) =>
        answered[e] \subseteq answered[entity[e].by] \cup LeftOut(e, entity[e].by)

EntityInv == /\ Recorded /\ SomebodyStandsIn /\ NobodyMentionsMerged
             /\ NamesAreHandedOver /\ NamesAreHandedOn

(* The numbers of entities, and what a row holds.                          *)
LEMMA MadeAre ==
    ASSUME Recorded
    PROVE  /\ Made = 1..Len(entity) /\ Len(entity) \in Nat /\ Made \subseteq EntityIds
           /\ \A e \in Made : entity[e] \in EntityRow /\ NamesOf(e) \subseteq EntityNames
<1>1. Made = 1..Len(entity) /\ Len(entity) \in Nat /\ \A e \in Made : entity[e] \in EntityRow
  BY DEF Recorded, Made
<1>2. Made \subseteq EntityIds
  BY <1>1, EntitiesAssumption DEF Recorded, EntityIds
<1>3. \A e \in Made : NamesOf(e) \subseteq EntityNames
  BY <1>1 DEF NamesOf, EntityRow, EntityNames
<1> QED BY <1>1, <1>2, <1>3

(* Of the entities found one is the oldest.                                *)
LEMMA OldestIsFound ==
    ASSUME Recorded, NEW name, NEW type, FoundUnder(name, type) # {}
    PROVE  OldestEntity(FoundUnder(name, type)) \in Made /\ InUse(OldestEntity(FoundUnder(name, type)))
<1>1. PICK S : S = FoundUnder(name, type)
  OBVIOUS
<1>2. S \in SUBSET Nat /\ S # {} /\ \A e \in S : e \in Made /\ InUse(e)
  BY <1>1, MadeAre DEF FoundUnder
<1>3. \E e \in S : \A d \in S : e <= d
  BY <1>2, LeastExists
<1>4. OldestEntity(S) \in S
  BY <1>3 DEF OldestEntity
<1> QED BY <1>1, <1>2, <1>4

(* What holds of the rows goes on holding while none of the entities that  *)
(* were there is merged, loses a name or is mentioned where it was merged. *)
LEMMA NobodyIsMerged ==
    ASSUME EntityInv, Recorded', Made \subseteq Made', astray' = astray, answered' = answered,
           forgotten' = forgotten,
           \A e \in Made : entity'[e].by = entity[e].by,
           \A e \in Made : entity'[e].state = "superseded" => entity[e].state = "superseded",
           \A e \in Made' \ Made : entity'[e].state # "superseded",
           \A e \in Made : NamesOf(e) \subseteq NamesOf(e)',
           \A m \in mention' \ mention : m[2] \in Made' /\ entity'[m[2]].state # "superseded"
    PROVE  EntityInv'
<1>1. \A e \in Made' : IsMerged(e)' => e \in Made /\ IsMerged(e) /\ entity'[e].by = entity[e].by
  BY DEF IsMerged
<1>2. SomebodyStandsIn'
  BY <1>1 DEF SomebodyStandsIn, EntityInv
<1>3. NobodyMentionsMerged'
  BY <1>1 DEF NobodyMentionsMerged, EntityInv, IsMerged
<1>4. NamesAreHandedOver'
  BY <1>1 DEF NamesAreHandedOver, SomebodyStandsIn, EntityInv, LeftOut
<1>5. NamesAreHandedOn'
  BY <1>1 DEF NamesAreHandedOn, SomebodyStandsIn, EntityInv, LeftOut
<1> QED BY <1>2, <1>3, <1>4, <1>5 DEF EntityInv

(* A name in a note leads to an entity in use, or to a new one.            *)
LEMMA Linking ==
    ASSUME EntityInv, NEW note \in Notepads, NEW spelling \in Spellings, NEW type \in EntityTypes,
           LinkMention(note, spelling, type)
    PROVE  EntityInv'
<1> DEFINE found == FoundUnder(Canon[spelling], type)
           made == Len(entity) + 1
<1> Recorded
  BY DEF EntityInv
<1>1. CASE found # {} /\ mention' = mention \cup {<<note, OldestEntity(found)>>} /\ UNCHANGED entity
  <2>1. OldestEntity(found) \in Made /\ InUse(OldestEntity(found))
    BY <1>1, OldestIsFound
  <2>2. Made' = Made /\ UNCHANGED <<answered, forgotten, astray>>
    BY <1>1 DEF LinkMention, Made
  <2>3. Recorded'
    BY <1>1, <2>1, <2>2 DEF Recorded
  <2>4. \A e \in Made : NamesOf(e)' = NamesOf(e)
    BY <1>1 DEF NamesOf
  <2>5. \A m \in mention' \ mention : m[2] \in Made /\ entity[m[2]].state # "superseded"
    BY <1>1, <2>1 DEF InUse
  <2> QED BY <1>1, <2>2, <2>3, <2>4, <2>5, NobodyIsMerged
<1>2. CASE /\ made <= MaxEntities
           /\ mention' = mention \cup {<<note, made>>}
           /\ entity' = Append(entity, NewEntity(spelling, type))
  <2>1. NewEntity(spelling, type) \in EntityRow /\ NewEntity(spelling, type).state = "active"
    BY DEF NewEntity, EntityRow, EntityNames, NoOne
  <2>2. PICK new : new = NewEntity(spelling, type)
    OBVIOUS
  <2>3. /\ entity' \in Seq(EntityRow) /\ Len(entity') = made /\ entity'[made] = new
        /\ \A e \in Made : entity'[e] = entity[e]
    BY <1>2, <2>1, <2>2 DEF Recorded, Made
  <2>4. Made' = Made \cup {made} /\ made \notin Made /\ UNCHANGED <<answered, forgotten, astray>>
    BY <2>3, MadeAre DEF LinkMention, Made
  <2>5. Recorded'
    BY <1>2, <2>3, <2>4 DEF Recorded
  <2>6. \A e \in Made : NamesOf(e)' = NamesOf(e)
    BY <2>3 DEF NamesOf
  <2>7. \A m \in mention' \ mention : m[2] = made
    BY <1>2
  <2> HIDE DEF made, found
  <2> QED BY <2>1, <2>2, <2>3, <2>4, <2>5, <2>6, <2>7, NobodyIsMerged
<1> QED BY <1>1, <1>2 DEF LinkMention

(* Writing into the row of one entity.                                     *)
LEMMA RowWritten ==
    ASSUME Recorded, NEW e \in Made, NEW row \in EntityRow, entity' = [entity EXCEPT ![e] = row]
    PROVE  /\ Made' = Made /\ Len(entity') = Len(entity) /\ entity' \in Seq(EntityRow)
           /\ entity'[e] = row /\ \A d \in Made \ {e} : entity'[d] = entity[d]
<1>1. entity' \in Seq(EntityRow) /\ Len(entity') = Len(entity)
  BY DEF Recorded, Made
<1> QED BY <1>1, MadeAre DEF Made

(* What people do to one entity, short of merging it.                      *)
LEMMA OneIsWritten ==
    ASSUME EntityInv, NEW e \in Made, NEW row \in EntityRow, entity' = [entity EXCEPT ![e] = row],
           row.by = entity[e].by, row.canonical = entity[e].canonical,
           entity[e].aliases \subseteq row.aliases,
           row.state = "superseded" => entity[e].state = "superseded",
           UNCHANGED <<mention, answered, forgotten, astray>>
    PROVE  EntityInv'
<1> Recorded
  BY DEF EntityInv
<1>1. /\ Made' = Made /\ Len(entity') = Len(entity) /\ entity' \in Seq(EntityRow)
      /\ entity'[e] = row /\ \A d \in Made \ {e} : entity'[d] = entity[d]
  BY RowWritten
<1>2. Recorded'
  BY <1>1 DEF Recorded
<1>3. \A d \in Made : NamesOf(d) \subseteq NamesOf(d)'
  BY <1>1 DEF NamesOf
<1>4. \A d \in Made : /\ entity'[d].by = entity[d].by
                      /\ entity'[d].state = "superseded" => entity[d].state = "superseded"
  BY <1>1
<1> QED BY <1>1, <1>2, <1>3, <1>4, NobodyIsMerged

(* A name more, another title, put away, brought back.                     *)
LEMMA Writing ==
    ASSUME EntityInv, NEW e \in Made,
           \/ \E spelling \in Spellings : AddAlias(e, spelling) \/ RenameEntity(e, spelling)
           \/ PutAway(e, "archived") \/ PutAway(e, "deleted") \/ BringBack(e)
    PROVE  EntityInv'
<1>1. entity[e] \in EntityRow
  BY MadeAre DEF EntityInv
<1>2. ASSUME NEW spelling \in Spellings, AddAlias(e, spelling)
      PROVE  EntityInv'
  <2> PICK row : row = [entity[e] EXCEPT !.aliases = @ \cup {spelling}]
    OBVIOUS
  <2>1. row \in EntityRow
    BY <1>1 DEF EntityRow
  <2>2. entity' = [entity EXCEPT ![e] = row] /\ UNCHANGED <<mention, answered, forgotten, astray>>
    BY <1>2 DEF AddAlias
  <2>3. /\ row.by = entity[e].by /\ row.canonical = entity[e].canonical
        /\ entity[e].aliases \subseteq row.aliases /\ row.state = entity[e].state
    BY <1>1 DEF EntityRow
  <2> QED BY <2>1, <2>2, <2>3, OneIsWritten
<1>3. ASSUME NEW spelling \in Spellings, RenameEntity(e, spelling)
      PROVE  EntityInv'
  <2> PICK row : row = [entity[e] EXCEPT !.title = spelling]
    OBVIOUS
  <2>1. row \in EntityRow
    BY <1>1 DEF EntityRow
  <2>2. entity' = [entity EXCEPT ![e] = row] /\ UNCHANGED <<mention, answered, forgotten, astray>>
    BY <1>3 DEF RenameEntity
  <2>3. /\ row.by = entity[e].by /\ row.canonical = entity[e].canonical
        /\ entity[e].aliases \subseteq row.aliases /\ row.state = entity[e].state
    BY <1>1 DEF EntityRow
  <2> QED BY <2>1, <2>2, <2>3, OneIsWritten
<1>4. ASSUME NEW state \in {"archived", "deleted", "active"},
             entity' = [entity EXCEPT ![e].state = state], UNCHANGED <<mention, answered, forgotten, astray>>
      PROVE  EntityInv'
  <2> PICK row : row = [entity[e] EXCEPT !.state = state]
    OBVIOUS
  <2>1. row \in EntityRow
    BY <1>1 DEF EntityRow
  <2>2. entity' = [entity EXCEPT ![e] = row]
    BY <1>4
  <2>3. /\ row.by = entity[e].by /\ row.canonical = entity[e].canonical
        /\ entity[e].aliases \subseteq row.aliases /\ row.state = state
    BY <1>1 DEF EntityRow
  <2> QED BY <1>4, <2>1, <2>2, <2>3, OneIsWritten
<1> QED BY <1>2, <1>3, <1>4 DEF PutAway, BringBack

(* What is no longer mentioned.                                            *)
LEMMA Unmentioning ==
    ASSUME EntityInv, NEW m \in mention, Unmention(m)
    PROVE  EntityInv'
<1>1. UNCHANGED <<entity, answered, forgotten, astray>> /\ mention' \subseteq mention
  BY DEF Unmention
<1>2. Made' = Made /\ \A e \in Made : NamesOf(e)' = NamesOf(e)
  BY <1>1 DEF Made, NamesOf
<1>3. Recorded'
  BY <1>1, <1>2 DEF EntityInv, Recorded
<1> QED BY <1>1, <1>2, <1>3, NobodyIsMerged

(* What a merge notes of the names of the two: those it hands over, and    *)
(* those it leaves out.                                                    *)
LEMMA MergedGhosts ==
    ASSUME Recorded, NEW k \in Made, NEW d \in Made, Merge(k, d)
    PROVE  /\ answered' \in [EntityIds -> SUBSET EntityNames]
           /\ forgotten' \in [EntityIds -> SUBSET EntityNames]
           /\ answered'[d] = NamesOf(d) \cup {TitleOf(d)}
           /\ \A e \in Made \ {d} : answered'[e] = answered[e]
           /\ \A e \in Made : forgotten[e] \subseteq forgotten'[e]
           /\ IsRenamed(d) => entity[d].canonical \in forgotten'[d]
           /\ IsRenamed(k) => TitleOf(k) \in forgotten'[k]
<1>1. /\ k \in EntityIds /\ d \in EntityIds /\ k # d /\ Made \subseteq EntityIds
      /\ entity[k] \in EntityRow /\ entity[d] \in EntityRow
  BY MadeAre DEF Merge
<1>2. PICK names : names = NamesOf(d) \cup {TitleOf(d)}
  OBVIOUS
<1>3. PICK ofD : ofD = IF IsRenamed(d) THEN forgotten[d] \cup {entity[d].canonical} ELSE forgotten[d]
  OBVIOUS
<1>4. PICK ofK : ofK = IF IsRenamed(k) THEN forgotten[k] \cup {TitleOf(k)} ELSE forgotten[k]
  OBVIOUS
<1>5. answered' = [answered EXCEPT ![d] = names]
  BY <1>2 DEF Merge
<1>6. forgotten' = [[forgotten EXCEPT ![d] = ofD] EXCEPT ![k] = ofK]
  BY <1>1, <1>3, <1>4 DEF Merge, Recorded
<1>7. {entity[d].canonical, TitleOf(k), TitleOf(d)} \subseteq EntityNames
  BY <1>1 DEF EntityRow, TitleOf, EntityNames
<1>8. /\ names \in SUBSET EntityNames
      /\ ofD \in SUBSET EntityNames /\ ofK \in SUBSET EntityNames
  BY <1>1, <1>2, <1>3, <1>4, <1>7, MadeAre DEF Recorded
<1>9. /\ answered' \in [EntityIds -> SUBSET EntityNames]
      /\ answered'[d] = names /\ \A e \in Made \ {d} : answered'[e] = answered[e]
  BY <1>1, <1>5, <1>8 DEF Recorded
<1>10. /\ forgotten' \in [EntityIds -> SUBSET EntityNames]
       /\ forgotten'[d] = ofD /\ forgotten'[k] = ofK
       /\ \A e \in Made \ {d, k} : forgotten'[e] = forgotten[e]
  BY <1>1, <1>6, <1>8 DEF Recorded
<1>11. \A e \in Made : forgotten[e] \subseteq forgotten'[e]
  BY <1>3, <1>4, <1>10
<1>12. /\ IsRenamed(d) => entity[d].canonical \in forgotten'[d]
       /\ IsRenamed(k) => TitleOf(k) \in forgotten'[k]
  BY <1>3, <1>4, <1>10
<1> QED BY <1>2, <1>9, <1>10, <1>11, <1>12

(* What a merge leaves in the rows of the two.                             *)
LEMMA MergedRows ==
    ASSUME Recorded, NEW k \in Made, NEW d \in Made, Merge(k, d)
    PROVE  /\ Recorded' /\ Made' = Made
           /\ entity'[k].aliases = AliasesWith(k, d) /\ entity'[k].canonical = entity[k].canonical
           /\ entity'[k].state = entity[k].state /\ entity'[k].by = entity[k].by
           /\ entity'[d].aliases = entity[d].aliases /\ entity'[d].canonical = entity[d].canonical
           /\ entity'[d].state = "superseded" /\ entity'[d].by = k
           /\ \A e \in Made \ {k, d} : entity'[e] = entity[e]
<1>1. k # d /\ entity[k] \in EntityRow /\ entity[d] \in EntityRow
  BY MadeAre DEF Merge
<1>2. PICK kept : kept = [entity[k] EXCEPT !.aliases = AliasesWith(k, d)]
  OBVIOUS
<1>3. PICK dropped : dropped = [entity[d] EXCEPT !.state = "superseded", !.by = k]
  OBVIOUS
<1>4. kept \in EntityRow
  BY <1>1, <1>2 DEF EntityRow, AliasesWith
<1>5. dropped \in EntityRow
  BY <1>1, <1>3, MadeAre DEF EntityRow
<1>6. entity' = [[entity EXCEPT ![k] = kept] EXCEPT ![d] = dropped]
  BY <1>1, <1>2, <1>3, MadeAre DEF Merge
<1>7. /\ entity' \in Seq(EntityRow) /\ Len(entity') = Len(entity)
      /\ entity'[k] = kept /\ entity'[d] = dropped
      /\ \A e \in Made \ {k, d} : entity'[e] = entity[e]
  BY <1>1, <1>4, <1>5, <1>6, MadeAre DEF Recorded
<1>8. Made' = Made
  BY <1>7, MadeAre DEF Made
<1>9. Recorded'
  <2>1. mention' \subseteq Notepads \X Made
    BY DEF Merge, Recorded
  <2>2. answered' \in [EntityIds -> SUBSET EntityNames]
    BY MergedGhosts
  <2>3. astray' \subseteq Made
    BY DEF Merge, Recorded
  <2>4. forgotten' \in [EntityIds -> SUBSET EntityNames]
    BY MergedGhosts
  <2> QED BY <1>7, <1>8, <2>1, <2>2, <2>3, <2>4 DEF Recorded
<1>10. /\ kept.aliases = AliasesWith(k, d) /\ kept.canonical = entity[k].canonical
       /\ kept.state = entity[k].state /\ kept.by = entity[k].by
  BY <1>1, <1>2 DEF EntityRow
<1>11. /\ dropped.aliases = entity[d].aliases /\ dropped.canonical = entity[d].canonical
       /\ dropped.state = "superseded" /\ dropped.by = k
  BY <1>1, <1>3 DEF EntityRow
<1> QED BY <1>7, <1>8, <1>9, <1>10, <1>11

(* The names an entity answers to after a merge: its own and those of the  *)
(* other, but for those the merge leaves out.                              *)
LEMMA MergedNames ==
    ASSUME Recorded, NEW k \in Made, NEW d \in Made, Merge(k, d)
    PROVE  /\ \A e \in Made \ {k} : NamesOf(e)' = NamesOf(e)
           /\ NamesOf(k) \subseteq NamesOf(k)' \cup forgotten'[k]
           /\ NamesOf(d) \cup {TitleOf(d)} \subseteq NamesOf(k)' \cup LeftOut(d, k)'
           /\ k \notin astray' => InUse(k)
<1>1. k # d /\ entity[k] \in EntityRow /\ entity[d] \in EntityRow
  BY MadeAre DEF Merge
<1>2. /\ entity'[k].aliases = AliasesWith(k, d) /\ entity'[k].canonical = entity[k].canonical
      /\ entity'[d].aliases = entity[d].aliases /\ entity'[d].canonical = entity[d].canonical
  BY MergedRows
<1>3. \A e \in Made \ {k} : NamesOf(e)' = NamesOf(e)
  <2> SUFFICES ASSUME NEW e \in Made \ {k} PROVE NamesOf(e)' = NamesOf(e)
    OBVIOUS
  <2>1. entity'[e].aliases = entity[e].aliases /\ entity'[e].canonical = entity[e].canonical
    BY <1>2, MergedRows
  <2> QED BY <2>1 DEF NamesOf
<1>4. NamesOf(k)' = {entity[k].canonical} \cup {Canon[s] : s \in AliasesWith(k, d)}
  BY <1>2 DEF NamesOf
<1>5. ASSUME NEW s \in entity[k].aliases \cup {entity[d].title} \cup entity[d].aliases
      PROVE  Canon[s] \in NamesOf(k)' \cup forgotten'[k]
  <2>1. CASE Canon[s] # Canon[entity[k].title]
    BY <1>4, <2>1 DEF AliasesWith
  <2>2. CASE Canon[s] = TitleOf(k)
    BY <1>4, <2>2, MergedGhosts DEF IsRenamed
  <2> QED BY <2>1, <2>2 DEF TitleOf
<1>6. NamesOf(k) \subseteq NamesOf(k)' \cup forgotten'[k]
  BY <1>4, <1>5 DEF NamesOf
<1>7. entity[d].canonical \in NamesOf(k)' \cup LeftOut(d, k)'
  <2>1. CASE IsRenamed(d)
    BY <2>1, MergedGhosts DEF LeftOut
  <2>2. CASE ~IsRenamed(d)
    BY <1>5, <2>2 DEF IsRenamed, TitleOf, LeftOut
  <2> QED BY <2>1, <2>2
<1>8. NamesOf(d) \cup {TitleOf(d)} \subseteq NamesOf(k)' \cup LeftOut(d, k)'
  BY <1>5, <1>7 DEF NamesOf, TitleOf, LeftOut
<1>9. k \notin astray' => InUse(k)
  BY DEF Merge
<1> QED BY <1>3, <1>6, <1>8, <1>9

(* Merging hands the names over, those handed over before included.        *)
LEMMA Merging ==
    ASSUME EntityInv, NEW k \in Made, NEW d \in Made, Merge(k, d)
    PROVE  EntityInv'
<1> Recorded
  BY DEF EntityInv
<1>1. k # d /\ entity[k] \in EntityRow /\ entity[d] \in EntityRow
  BY MadeAre DEF Merge
<1>2. Recorded' /\ Made' = Made /\ astray \subseteq astray'
  BY MergedRows DEF Merge
<1>3. /\ entity'[k].state = entity[k].state /\ entity'[k].by = entity[k].by
      /\ entity'[d].state = "superseded" /\ entity'[d].by = k
      /\ \A e \in Made \ {k, d} : entity'[e] = entity[e]
  BY MergedRows
<1>4. /\ answered'[d] = NamesOf(d) \cup {TitleOf(d)}
      /\ \A e \in Made \ {d} : answered'[e] = answered[e]
      /\ \A e \in Made : forgotten[e] \subseteq forgotten'[e]
  BY MergedGhosts
<1>5. k \notin astray' => entity'[k].state # "superseded"
  BY <1>3, MergedNames DEF InUse
<1>6. \A e \in Made : IsMerged(e)' => (e = d \/ (e # k /\ e # d /\ IsMerged(e) /\ entity'[e] = entity[e]))
  BY <1>2, <1>3, <1>5 DEF IsMerged
<1>7. SomebodyStandsIn'
  BY <1>2, <1>3, <1>6 DEF SomebodyStandsIn, EntityInv
<1>8. NobodyMentionsMerged'
  <2>1. \A m \in mention' : m[2] = k \/ (m[2] # d /\ m \in mention)
    <3> SUFFICES ASSUME NEW m \in mention' PROVE m[2] = k \/ (m[2] # d /\ m \in mention)
      OBVIOUS
    <3>1. PICK old \in mention : m = <<old[1], IF old[2] = d THEN k ELSE old[2]>>
      BY DEF Merge
    <3>2. old = <<old[1], old[2]>>
      BY DEF Recorded
    <3> QED BY <3>1, <3>2
  <2>2. \A e \in Made : IsMerged(e)' => e # k
    BY <1>1, <1>6
  <2> QED BY <1>2, <1>6, <2>1, <2>2 DEF NobodyMentionsMerged, EntityInv
<1>9. NamesAreHandedOver'
  <2> SUFFICES ASSUME NEW e \in Made, IsMerged(e)', NEW by, by = entity'[e].by, by \notin astray'
               PROVE  answered'[e] \subseteq NamesOf(by)' \cup LeftOut(e, by)'
    BY <1>2 DEF NamesAreHandedOver
  <2>1. by \in Made
    BY <1>2, <1>7 DEF SomebodyStandsIn
  <2>2. CASE e = d
    BY <1>3, <1>4, <2>2, MergedNames
  <2>3. CASE e # d
    <3>1. IsMerged(e) /\ by = entity[e].by /\ by \notin astray
      BY <1>2, <1>6, <2>3
    <3>2. answered[e] \subseteq NamesOf(by) \cup LeftOut(e, by)
      BY <3>1 DEF NamesAreHandedOver, EntityInv
    <3>3. NamesOf(by) \subseteq NamesOf(by)' \cup forgotten'[by]
      BY <2>1, MergedNames
    <3>4. LeftOut(e, by) \subseteq LeftOut(e, by)'
      BY <1>4, <2>1 DEF LeftOut
    <3>5. forgotten'[by] \subseteq LeftOut(e, by)'
      BY DEF LeftOut
    <3> QED BY <1>4, <2>3, <3>2, <3>3, <3>4, <3>5
  <2> QED BY <2>2, <2>3
<1>10. NamesAreHandedOn'
  <2> SUFFICES ASSUME NEW e \in Made, IsMerged(e)', NEW by, by = entity'[e].by, IsMerged(by)'
               PROVE  answered'[e] \subseteq answered'[by] \cup LeftOut(e, by)'
    BY <1>2 DEF NamesAreHandedOn
  <2>1. by \in Made /\ by \notin astray' /\ by # k
    BY <1>1, <1>2, <1>6, <1>7 DEF SomebodyStandsIn, IsMerged
  <2>2. e # d /\ e # k /\ IsMerged(e) /\ by = entity[e].by
    BY <1>3, <1>6, <2>1
  <2>3. LeftOut(e, by) \subseteq LeftOut(e, by)'
    BY <1>4, <2>1 DEF LeftOut
  <2>4. CASE by = d
    <3>1. answered[e] \subseteq NamesOf(d) \cup LeftOut(e, d)
      BY <1>2, <2>1, <2>2, <2>4 DEF NamesAreHandedOver, EntityInv
    <3> QED BY <1>4, <2>2, <2>3, <2>4, <3>1
  <2>5. CASE by # d
    <3>1. IsMerged(by)
      BY <1>6, <2>1, <2>5
    <3> QED BY <1>4, <2>1, <2>2, <2>3, <2>5, <3>1 DEF NamesAreHandedOn, EntityInv
  <2> QED BY <2>4, <2>5
<1> QED BY <1>2, <1>7, <1>8, <1>9, <1>10 DEF EntityInv

(* Who stands in for d, followed once; and followed n times, for n up to m. *)
StandsIn(d) == IF entity[d].state = "superseded" /\ d \notin astray THEN entity[d].by ELSE d
Chain(f, e, m) == f = [n \in 0..m |-> IF n = 0 THEN e ELSE StandsIn(f[n - 1])]

(* A chain can always be followed.                                         *)
LEMMA ChainsExist == \A e : \A m \in Nat : \E f : Chain(f, e, m)
<1> SUFFICES ASSUME NEW e PROVE \A m \in Nat : \E f : Chain(f, e, m)
  OBVIOUS
<1> DEFINE S == {m \in Nat : ~\E f : Chain(f, e, m)}
<1>1. ASSUME NEW m \in S, \A n \in S : m <= n
      PROVE  FALSE
  <2>1. CASE m = 0
    <3>1. Chain([n \in 0..0 |-> e], e, 0)
      BY DEF Chain
    <3> QED BY <2>1, <3>1
  <2>2. CASE m # 0
    <3>1. m - 1 \in Nat /\ ~(m <= m - 1)
      BY <2>2
    <3>2. PICK f : Chain(f, e, m - 1)
      BY <1>1, <3>1
    <3>3. \A n \in 0..(m - 1) : f[n] = IF n = 0 THEN e ELSE StandsIn(f[n - 1])
      BY <3>2 DEF Chain
    <3> PICK g : g = [n \in 0..m |-> IF n = m THEN StandsIn(f[m - 1]) ELSE f[n]]
      OBVIOUS
    <3>4. \A n \in 0..m : g[n] = IF n = 0 THEN e ELSE StandsIn(g[n - 1])
      <4> SUFFICES ASSUME NEW n \in 0..m PROVE g[n] = IF n = 0 THEN e ELSE StandsIn(g[n - 1])
        OBVIOUS
      <4>1. CASE n = m
        BY <2>2, <3>1, <4>1
      <4>2. CASE n # m
        BY <3>3, <4>2
      <4> QED BY <4>1, <4>2
    <3>5. g = [n \in 0..m |-> IF n = 0 THEN e ELSE StandsIn(g[n - 1])]
      BY <3>4
    <3> QED BY <3>5 DEF Chain
  <2> QED BY <2>1, <2>2
<1>2. S = {}
  <2> SUFFICES ASSUME S # {} PROVE FALSE
    OBVIOUS
  <2>1. S \in SUBSET Nat
    OBVIOUS
  <2> HIDE DEF S
  <2>2. PICK m \in S : \A n \in S : m <= n
    BY <2>1, LeastExists
  <2> QED BY <1>1, <2>2
<1> QED BY <1>2

(* Line is one.                                                            *)
LEMMA LineIsChain ==
    ASSUME NEW e
    PROVE  Chain(Line(e), e, MaxEntities)
<1> DEFINE f == CHOOSE f : f = [n \in 0..MaxEntities |->
                  IF n = 0 THEN e
                  ELSE LET d == f[n - 1]
                       IN IF entity[d].state = "superseded" /\ d \notin astray THEN entity[d].by ELSE d]
<1>1. Line(e) = f
  BY DEF Line
<1>2. f = CHOOSE g : Chain(g, e, MaxEntities)
  BY DEF Chain, StandsIn
<1>3. \E g : Chain(g, e, MaxEntities)
  BY ChainsExist, EntitiesAssumption
<1> QED BY <1>1, <1>2, <1>3

(* Wherever the chain has come to, who is there answers to the names, but  *)
(* for some.                                                               *)
AnswersTo(d, e, lost) ==
    \/ d \in astray
    \/ d \in Made /\ IsMerged(d) /\ answered[e] \subseteq answered[d] \cup lost
    \/ d \in Made /\ ~IsMerged(d) /\ answered[e] \subseteq NamesOf(d) \cup lost

(* So does whoever stands in in the end, but for those forgotten on the    *)
(* way.                                                                    *)
LEMMA StandInAnswers ==
    ASSUME EntityInv, NEW e \in Made, IsMerged(e)
    PROVE  AnswersTo(Line(e)[MaxEntities], e, ForgottenAlong(Line(e)))
<1> PICK f : f = Line(e)
  OBVIOUS
<1> PICK lost : lost = ForgottenAlong(f)
  OBVIOUS
<1>1. Chain(f, e, MaxEntities)
  BY LineIsChain
<1>2. /\ DOMAIN f = 0..MaxEntities
      /\ \A n \in 0..MaxEntities : f[n] = IF n = 0 THEN e ELSE StandsIn(f[n - 1])
  BY <1>1 DEF Chain
<1>3. \A n \in 0..MaxEntities : forgotten[f[n]] \subseteq lost
  BY <1>2 DEF ForgottenAlong
<1>4. ASSUME NEW d, AnswersTo(d, e, lost), LeftOut(d, StandsIn(d)) \subseteq lost
      PROVE  AnswersTo(StandsIn(d), e, lost)
  <2>1. CASE ~IsMerged(d)
    BY <1>4, <2>1 DEF StandsIn, AnswersTo, IsMerged
  <2>2. CASE d \in Made /\ IsMerged(d) /\ answered[e] \subseteq answered[d] \cup lost
    <3> PICK by : by = entity[d].by
      OBVIOUS
    <3>1. StandsIn(d) = by /\ by \in Made
      BY <2>2 DEF StandsIn, SomebodyStandsIn, EntityInv, IsMerged
    <3>2. LeftOut(d, by) \subseteq lost
      BY <1>4, <3>1
    <3>3. by \notin astray => answered[d] \subseteq NamesOf(by) \cup LeftOut(d, by)
      BY <2>2 DEF NamesAreHandedOver, EntityInv
    <3>4. IsMerged(by) => answered[d] \subseteq answered[by] \cup LeftOut(d, by)
      BY <2>2 DEF NamesAreHandedOn, EntityInv
    <3>5. by \notin astray => answered[e] \subseteq NamesOf(by) \cup lost
      BY <2>2, <3>2, <3>3
    <3>6. IsMerged(by) => answered[e] \subseteq answered[by] \cup lost
      BY <2>2, <3>2, <3>4
    <3> QED BY <3>1, <3>5, <3>6 DEF AnswersTo
  <2>3. CASE d \in astray
    BY <2>3 DEF StandsIn, AnswersTo
  <2> QED BY <1>4, <2>1, <2>2, <2>3 DEF AnswersTo
<1> DEFINE S == {n \in 0..MaxEntities : ~AnswersTo(f[n], e, lost)}
<1>5. ASSUME NEW n \in S, \A m \in S : n <= m
      PROVE  FALSE
  <2>1. CASE n = 0
    BY <1>2, <2>1, EntitiesAssumption DEF AnswersTo
  <2>2. CASE n # 0
    <3>1. n - 1 \in 0..MaxEntities /\ ~(n <= n - 1)
      BY <2>2, EntitiesAssumption
    <3>2. AnswersTo(f[n - 1], e, lost)
      BY <1>5, <3>1
    <3>3. f[n] = StandsIn(f[n - 1])
      BY <1>2, <2>2
    <3>4. LeftOut(f[n - 1], f[n]) \subseteq lost
      BY <1>3, <3>1 DEF LeftOut
    <3> QED BY <1>4, <1>5, <3>2, <3>3, <3>4
  <2> QED BY <2>1, <2>2
<1>6. S = {}
  <2> SUFFICES ASSUME S # {} PROVE FALSE
    OBVIOUS
  <2>1. S \in SUBSET Nat
    BY EntitiesAssumption
  <2> HIDE DEF S
  <2>2. PICK n \in S : \A m \in S : n <= m
    BY <2>1, LeastExists
  <2> QED BY <1>5, <2>2
<1>7. MaxEntities \in 0..MaxEntities
  BY EntitiesAssumption
<1> QED BY <1>1, <1>6, <1>7

(* Every step keeps the invariant.                                         *)
LEMMA EntityStep == EntityInv /\ [EntitiesNext]_entityVars => EntityInv'
<1> SUFFICES ASSUME EntityInv, [EntitiesNext]_entityVars PROVE EntityInv'
  OBVIOUS
<1>1. CASE UNCHANGED entityVars
  <2>1. UNCHANGED <<entity, mention, answered, forgotten, astray>>
    BY <1>1 DEF entityVars
  <2> QED BY <2>1 DEF EntityInv, Recorded, SomebodyStandsIn, NobodyMentionsMerged,
                      NamesAreHandedOver, NamesAreHandedOn, LeftOut, IsMerged, Made, NamesOf
<1>2. CASE EntitiesNext
  BY <1>2, Linking, Merging, Writing, Unmentioning DEF EntitiesNext
<1> QED BY <1>1, <1>2

(* It holds in the beginning, when there is no entity.                     *)
LEMMA EntityBegins == EntitiesInit => EntityInv
<1> SUFFICES ASSUME EntitiesInit PROVE EntityInv
  OBVIOUS
<1>1. entity = <<>> /\ Made = {}
  BY DEF EntitiesInit, Made
<1>2. Recorded
  BY <1>1, EntitiesAssumption DEF EntitiesInit, Recorded
<1> QED BY <1>1, <1>2 DEF EntityInv, SomebodyStandsIn, NobodyMentionsMerged,
                           NamesAreHandedOver, NamesAreHandedOn

(* However often entities are merged, renamed, put away and brought back,  *)
(* one that was merged into one in use is mentioned no more, and its names *)
(* lead to who stands in, but for the two that a merge of a renamed one    *)
(* leaves out.                                                             *)
THEOREM MergesAreForGood == EntitiesSpec => []MergedEntitiesAreReplaced
<1>1. EntityInv => MergedEntitiesAreReplaced
  <2> SUFFICES ASSUME EntityInv, NEW e \in Made \ astray, entity[e].state = "superseded",
                      NEW k, k = Line(e)[MaxEntities], NEW lost, lost = ForgottenAlong(Line(e))
               PROVE  /\ \A m \in mention : m[2] # e
                      /\ InUse(k) /\ k \notin astray => answered[e] \ lost \subseteq NamesOf(k)
    BY DEF MergedEntitiesAreReplaced
  <2>1. IsMerged(e)
    BY DEF IsMerged
  <2>2. AnswersTo(k, e, lost)
    BY <2>1, StandInAnswers
  <2>3. \A m \in mention : m[2] # e
    BY <2>1 DEF EntityInv, NobodyMentionsMerged
  <2>4. InUse(k) /\ k \notin astray => answered[e] \ lost \subseteq NamesOf(k)
    BY <2>2 DEF AnswersTo, InUse, IsMerged
  <2> QED BY <2>3, <2>4
<1> QED BY <1>1, EntityBegins, EntityStep, PTL DEF EntitiesSpec

(***************************************************************************)
(* Ingest: a long document gives each of its claims once.                  *)
(***************************************************************************)
(* What an ingester may be doing.                                          *)
Jobs == [stage : {"idle", "next", "reading", "extracting", "proposing"},
         name : Papers \cup Spoken \cup {""}, text : DOMAIN PiecesOf \cup {NoText}, piece : Nat,
         claims : Seq(Claims), whole : BOOLEAN, slow : BOOLEAN, folder : BOOLEAN, left : Seq(Papers)]
AtWork(c) == capture[c].stage \in {"extracting", "proposing"}
About(c) == <<capture[c].name, capture[c].text>>
Long(text) == Len(PiecesOf[text]) > 1

JobsAreJobs == capture \in [Ingesters -> Jobs]
ClaimsAreClaims == proposed \in [source -> Seq(Claims)]

(* What is worked at was stored, and by one ingester only: a capture that  *)
(* comes later finds it stored.                                            *)
Stored(c) == AtWork(c) => /\ About(c) \in source
                          /\ capture[c].text \in DOMAIN PiecesOf
                          /\ capture[c].piece \in DOMAIN PiecesOf[capture[c].text]
NobodyShares == \A c, d \in Ingesters : AtWork(c) /\ AtWork(d) /\ About(c) = About(d) => c = d

(* Nothing is proposed of a document before all its claims are found, which*)
(* a model is never asked for all at once when the document is long.       *)
Fresh(c) ==
    capture[c].stage = "extracting" =>
        /\ proposed[About(c)] = <<>>
        /\ Long(capture[c].text) =>
              (capture[c].whole => capture[c].slow) /\ IsInjective(capture[c].claims)

(* What was proposed of it, and what is to follow, is within the budget.   *)
WithinBudget(c) ==
    capture[c].stage = "proposing" /\ Long(capture[c].text) =>
        /\ Len(proposed[About(c)] \o capture[c].claims) <= Budget
        /\ IsInjective(proposed[About(c)] \o capture[c].claims)

(* Who waits to hear a recording or to take a file has one.                *)
Awaited(job) == /\ job.stage = "reading" => job.name \in Spoken
                /\ job.stage = "next" => job.left # <<>>

WorkIsSound ==
    \A c \in Ingesters : Stored(c) /\ Fresh(c) /\ WithinBudget(c) /\ Awaited(capture[c])

IngestInv == /\ JobsAreJobs /\ ClaimsAreClaims /\ WorkIsSound /\ NobodyShares
             /\ ClaimsAreProposedOnce

(* Every text is cut into pieces, each of which makes finitely many claims.*)
LEMMA PiecesArePieces ==
    ASSUME NEW text \in DOMAIN PiecesOf
    PROVE  /\ PiecesOf[text] \in Seq(SUBSET Claims)
           /\ Len(PiecesOf[text]) \in Nat /\ 1 \in DOMAIN PiecesOf[text]
           /\ DOMAIN PiecesOf[text] = 1..Len(PiecesOf[text])
           /\ \A n \in DOMAIN PiecesOf[text] :
                 PiecesOf[text][n] \subseteq Claims /\ IsFiniteSet(PiecesOf[text][n])
<1>1. /\ PiecesOf[text] \in Seq(SUBSET Claims) /\ PiecesOf[text] # <<>>
      /\ \A n \in DOMAIN PiecesOf[text] : IsFiniteSet(PiecesOf[text][n])
  BY TextAssumption
<1>2. PICK p : p = PiecesOf[text]
  OBVIOUS
<1>3. p \in Seq(SUBSET Claims) /\ p # <<>>
  BY <1>1, <1>2
<1> HIDE DEF Claims
<1>4. Len(p) \in Nat /\ DOMAIN p = 1..Len(p) /\ 1 \in DOMAIN p /\ \A n \in DOMAIN p : p[n] \in SUBSET Claims
  BY <1>3
<1> QED BY <1>1, <1>2, <1>3, <1>4

(* What is in view is a finite set of claims.                              *)
LEMMA ViewsAreFinite ==
    ASSUME NEW job, job.text \in DOMAIN PiecesOf, job.piece \in DOMAIN PiecesOf[job.text]
    PROVE  InView(job) \subseteq Claims /\ IsFiniteSet(InView(job))
<1>1. PICK text \in DOMAIN PiecesOf : text = job.text
  OBVIOUS
<1>2. PICK p : p = PiecesOf[text]
  OBVIOUS
<1>3. /\ DOMAIN p = 1..Len(p) /\ Len(p) \in Nat
      /\ \A n \in DOMAIN p : p[n] \subseteq Claims /\ IsFiniteSet(p[n])
  BY <1>2, PiecesArePieces
<1>4. IsFiniteSet(1..Len(p))
  BY <1>3, FS_Interval
<1>5. PICK R : R = ToSet(p)
  OBVIOUS
<1>6. R = {p[n] : n \in 1..Len(p)}
  BY <1>3, <1>5 DEF ToSet
<1>7. PICK f : f = [n \in 1..Len(p) |-> p[n]]
  OBVIOUS
<1>71. f \in Surjection(1..Len(p), R)
  BY <1>6, <1>7 DEF Surjection
<1>8. \A x \in R : x \subseteq Claims /\ IsFiniteSet(x)
  BY <1>3, <1>6
<1>9. IsFiniteSet(R)
  BY <1>4, <1>71, FS_Surjection
<1>10. IsFiniteSet(UNION R) /\ UNION R \subseteq Claims
  BY <1>8, <1>9, FS_UNION
<1> QED BY <1>1, <1>2, <1>3, <1>5, <1>10 DEF InView

(* A finite set is told in a sequence that has each of it once.            *)
LEMMA ToldOnce ==
    ASSUME NEW S, IsFiniteSet(S)
    PROVE  SetToSeq(S) \in [1..Cardinality(S) -> S] /\ IsInjective(SetToSeq(S))
<1>1. Cardinality(S) \in Nat /\ ExistsBijection(1..Cardinality(S), S)
  BY FS_NatBijection, FS_CardinalityType, FS_CountingElements
<1>2. \E f \in [1..Cardinality(S) -> S] : IsInjective(f)
  BY <1>1 DEF ExistsBijection, Bijection, Injection, IsInjective
<1> QED BY <1>2 DEF SetToSeq

(* The n-th of a set of places is one of them, and of no other n.          *)
LEMMA NthExists ==
    ASSUME NEW m \in Nat, NEW U \in SUBSET (1..m), NEW n \in 1..Cardinality(U)
    PROVE  \E i \in U : Cardinality({j \in U : j <= i}) = n
<1> DEFINE Below(i) == {j \in U : j <= i}
           Enough == {i \in Nat : Cardinality(Below(i)) >= n}
<1>0. U \subseteq 1..m /\ \A j \in U : j \in Nat /\ 1 <= j /\ j <= m
  OBVIOUS
<1>1. IsFiniteSet(U) /\ Cardinality(U) \in Nat
  <2>1. IsFiniteSet(1..m)
    BY FS_Interval
  <2> QED BY <2>1, FS_Subset, FS_CardinalityType
<1>2. \A i : IsFiniteSet(Below(i)) /\ Cardinality(Below(i)) \in Nat
  <2> SUFFICES ASSUME NEW i PROVE IsFiniteSet(Below(i)) /\ Cardinality(Below(i)) \in Nat
    OBVIOUS
  <2>1. Below(i) \in SUBSET U
    OBVIOUS
  <2> QED BY <1>1, <2>1, FS_Subset, FS_CardinalityType
<1>3. Below(m) = U
  BY <1>0
<1>4. Cardinality(Below(0)) = 0
  <2>1. \A j \in U : ~(j <= 0)
    BY <1>0
  <2>2. Below(0) = {}
    BY <2>1, Zenon
  <2> QED BY <2>2, FS_EmptySet
<1>5. \A i \in Nat : i # 0 /\ i \notin U => Below(i) = Below(i - 1)
  <2>1. \A i \in Nat, j \in U : i # j => (j <= i <=> j <= i - 1)
    BY <1>0
  <2> QED BY <2>1, Zenon
<1>6. \A i \in U : Below(i) = Below(i - 1) \cup {i} /\ i \notin Below(i - 1)
  <2> SUFFICES ASSUME NEW i \in U PROVE Below(i) = Below(i - 1) \cup {i} /\ i \notin Below(i - 1)
    OBVIOUS
  <2>1. (\A j \in U : j <= i <=> j <= i - 1 \/ j = i) /\ ~(i <= i - 1)
    BY <1>0
  <2>2. i \notin Below(i - 1)
    BY <2>1, Zenon
  <2>3. \A j : j \in Below(i) <=> j \in Below(i - 1) \cup {i}
    BY <2>1, Zenon
  <2>4. Below(i) = Below(i - 1) \cup {i}
    BY <2>3, Zenon
  <2> QED BY <2>2, <2>4
<1> HIDE DEF Below
<1>7. PICK i \in Enough : \A k \in Enough : i <= k
  <2>1. Enough \in SUBSET Nat /\ Enough # {}
    BY <1>1, <1>3
  <2> HIDE DEF Enough
  <2> QED BY <2>1, LeastExists
<1>8. i \in Nat /\ Cardinality(Below(i)) >= n /\ i # 0
  BY <1>4, <1>7
<1>9. i - 1 \in Nat /\ Cardinality(Below(i - 1)) < n
  <2>1. i - 1 \in Nat /\ i - 1 \notin Enough
    BY <1>7, <1>8
  <2> QED BY <1>2, <2>1
<1>10. i \in U
  <2>1. n \in Nat /\ Cardinality(Below(i)) \in Nat /\ Cardinality(Below(i - 1)) \in Nat
    BY <1>1, <1>2
  <2>2. Cardinality(Below(i)) # Cardinality(Below(i - 1))
    BY <1>8, <1>9, <2>1
  <2> QED BY <1>5, <1>8, <2>2
<1>11. Cardinality(Below(i)) = Cardinality(Below(i - 1)) + 1
  BY <1>2, <1>6, <1>10, FS_AddElement
<1>12. Cardinality(Below(i)) = n
  BY <1>1, <1>2, <1>8, <1>9, <1>11
<1> QED BY <1>10, <1>12 DEF Below

(* Two that repeat nothing and have nothing in common repeat nothing when  *)
(* they are joined.                                                        *)
LEMMA JoiningRepeatsNothing ==
    ASSUME NEW S, NEW s \in Seq(S), NEW t \in Seq(S), IsInjective(s),
           \A a, b \in 1..Len(t) : t[a] = t[b] => a = b,
           \A a \in 1..Len(s), b \in 1..Len(t) : s[a] # t[b]
    PROVE  IsInjective(s \o t)
<1>1. Len(s) \in Nat /\ Len(t) \in Nat /\ DOMAIN s = 1..Len(s)
  OBVIOUS
<1>2. PICK r : r = s \o t
  OBVIOUS
<1>3. /\ DOMAIN r = 1..(Len(s) + Len(t))
      /\ \A i \in 1..(Len(s) + Len(t)) : r[i] = IF i <= Len(s) THEN s[i] ELSE t[i - Len(s)]
  BY <1>2
<1>4. \A a, b \in DOMAIN r : r[a] = r[b] => a = b
  <2> SUFFICES ASSUME NEW a \in 1..(Len(s) + Len(t)), NEW b \in 1..(Len(s) + Len(t)), r[a] = r[b]
               PROVE  a = b
    BY <1>3
  <2>1. CASE a <= Len(s) /\ b <= Len(s)
    <3>1. a \in 1..Len(s) /\ b \in 1..Len(s) /\ s[a] = s[b]
      BY <1>1, <1>3, <2>1
    <3> QED BY <1>1, <3>1 DEF IsInjective
  <2>2. CASE a <= Len(s) /\ ~(b <= Len(s))
    <3>1. a \in 1..Len(s) /\ b - Len(s) \in 1..Len(t) /\ s[a] = t[b - Len(s)]
      BY <1>1, <1>3, <2>2
    <3> QED BY <3>1
  <2>3. CASE ~(a <= Len(s)) /\ b <= Len(s)
    <3>1. b \in 1..Len(s) /\ a - Len(s) \in 1..Len(t) /\ s[b] = t[a - Len(s)]
      BY <1>1, <1>3, <2>3
    <3> QED BY <3>1
  <2>4. CASE ~(a <= Len(s)) /\ ~(b <= Len(s))
    <3>1. a - Len(s) \in 1..Len(t) /\ b - Len(s) \in 1..Len(t) /\ t[a - Len(s)] = t[b - Len(s)]
      BY <1>1, <1>3, <2>4
    <3>2. a - Len(s) = b - Len(s)
      BY <3>1
    <3> QED BY <1>1, <3>2
  <2> QED BY <2>1, <2>2, <2>3, <2>4
<1> QED BY <1>2, <1>4 DEF IsInjective

(* What is taken from a piece is claims, and repeats none.                 *)
LEMMA MergingRepeatsNothing ==
    ASSUME NEW claims \in Seq(Claims), NEW found \in Seq(Claims)
    PROVE  /\ Merged(claims, found) \in Seq(Claims)
           /\ IsInjective(claims) => IsInjective(Merged(claims, found))
<1> HIDE DEF Claims
<1> PICK U : U = Unseen(claims, found)
  OBVIOUS
<1>1. Len(found) \in Nat /\ DOMAIN found = 1..Len(found) /\ \A i \in DOMAIN found : found[i] \in Claims
  OBVIOUS
<1>2. /\ U \in SUBSET (1..Len(found))
      /\ \A i \in U : /\ found[i] \notin ToSet(claims)
                      /\ \A j \in 1..(i - 1) : found[j] # found[i]
  BY <1>1 DEF Unseen
<1>3. Cardinality(U) \in Nat
  <2>1. IsFiniteSet(1..Len(found))
    BY <1>1, FS_Interval
  <2> QED BY <1>2, <2>1, FS_Subset, FS_CardinalityType
<1> DEFINE nth(n) == CHOOSE i \in U : Cardinality({j \in U : j <= i}) = n
<1>4. \A n \in 1..Cardinality(U) : nth(n) \in U /\ Cardinality({j \in U : j <= nth(n)}) = n
  <2> SUFFICES ASSUME NEW n \in 1..Cardinality(U)
               PROVE  nth(n) \in U /\ Cardinality({j \in U : j <= nth(n)}) = n
    OBVIOUS
  <2>1. \E i \in U : Cardinality({j \in U : j <= i}) = n
    <3> PICK m \in Nat : m = Len(found)
      BY <1>1
    <3>1. U \in SUBSET (1..m)
      BY <1>2
    <3> QED BY <3>1, NthExists
  <2> QED BY <2>1
<1> PICK more : more = [n \in 1..Cardinality(U) |-> found[nth(n)]]
  OBVIOUS
<1>5. Merged(claims, found) = claims \o more
  BY DEF Merged
<1> HIDE DEF nth
<1>6. /\ more \in Seq(Claims) /\ Len(more) = Cardinality(U)
      /\ \A n \in 1..Cardinality(U) : more[n] = found[nth(n)]
  <2>1. \A n \in 1..Cardinality(U) : found[nth(n)] \in Claims
    BY <1>1, <1>2, <1>4
  <2> QED BY <1>3, <2>1
<1>7. claims \o more \in Seq(Claims)
  BY <1>6
<1>8. ASSUME IsInjective(claims)
      PROVE  IsInjective(claims \o more)
  <2>2. \A a, b \in 1..Len(more) : more[a] = more[b] => a = b
    <3> SUFFICES ASSUME NEW a \in 1..Len(more), NEW b \in 1..Len(more), more[a] = more[b]
                 PROVE  a = b
      OBVIOUS
    <3>0. a \in 1..Cardinality(U) /\ b \in 1..Cardinality(U)
      BY <1>6
    <3>1. nth(a) \in U /\ nth(b) \in U /\ found[nth(a)] = found[nth(b)]
      BY <1>4, <1>6, <3>0
    <3>2. nth(a) = nth(b)
      BY <1>2, <3>1
    <3> QED BY <1>4, <3>0, <3>2
  <2>3. \A a \in 1..Len(claims), b \in 1..Len(more) : claims[a] # more[b]
    <3>1. \A a \in 1..Len(claims) : claims[a] \in ToSet(claims)
      BY DEF ToSet
    <3> QED BY <1>2, <1>4, <1>6, <3>1
  <2> QED BY <1>6, <1>8, <2>2, <2>3, JoiningRepeatsNothing
<1> QED BY <1>5, <1>7, <1>8

(* The lesser of two numbers.                                              *)
LEMMA LesserOfTwo ==
    ASSUME NEW a \in Nat, NEW b \in Nat
    PROVE  Min({a, b}) \in Nat /\ Min({a, b}) <= a /\ Min({a, b}) <= b
<1>1. \E x \in {a, b} : \A y \in {a, b} : x <= y
  OBVIOUS
<1>2. Min({a, b}) \in {a, b} /\ \A y \in {a, b} : Min({a, b}) <= y
  BY <1>1 DEF Min
<1> QED BY <1>2

(* What is taken from the head of one and put at the end of the other.     *)
LEMMA OneMovesOver ==
    \A S : \A s, t \in Seq(S) : t # <<>> => Append(s, Head(t)) \o Tail(t) = s \o t
OBVIOUS

(* What begins something that repeats nothing repeats nothing.             *)
LEMMA HalvesRepeatNothing ==
    ASSUME NEW S, NEW s \in Seq(S), NEW t \in Seq(S), NEW n \in Nat, Len(s \o t) <= n, IsInjective(s \o t)
    PROVE  Len(s) <= n /\ IsInjective(s)
<1>1. PICK r : r = s \o t
  OBVIOUS
<1>2. /\ Len(s) \in Nat /\ Len(t) \in Nat /\ Len(r) = Len(s) + Len(t) /\ DOMAIN s = 1..Len(s)
      /\ DOMAIN r = 1..(Len(s) + Len(t))
      /\ \A i \in 1..Len(s) : r[i] = s[i] /\ i \in 1..(Len(s) + Len(t))
  BY <1>1
<1>3. Len(s) <= n
  BY <1>1, <1>2
<1>4. \A a, b \in 1..Len(s) : s[a] = s[b] => a = b
  BY <1>1, <1>2 DEF IsInjective
<1> QED BY <1>2, <1>3, <1>4 DEF IsInjective

(* The greater of two numbers.                                             *)
LEMMA GreaterOfTwo ==
    ASSUME NEW a \in Nat, NEW b \in Nat
    PROVE  Max({a, b}) \in Nat
<1>1. \E x \in {a, b} : \A y \in {a, b} : x >= y
  OBVIOUS
<1>2. Max({a, b}) \in {a, b}
  BY <1>1 DEF Max
<1> QED BY <1>2

(* How many claims may be asked for is a number.                           *)
LEMMA LimitsAreNumbers ==
    ASSUME NEW job, job.text \in DOMAIN PiecesOf
    PROVE  LimitOf(job) \in Nat /\ (job.whole => LimitOf(job) = Budget)
<1>1. PICK n : n = Len(PiecesOf[job.text])
  OBVIOUS
<1>2. n \in Nat /\ n >= 1
  <2>1. PICK text \in DOMAIN PiecesOf : text = job.text
    OBVIOUS
  <2> QED BY <1>1, <2>1, PiecesArePieces
<1>3. Budget \in Nat /\ LeastOfPiece \in Nat
  BY NumbersAssumption
<1>4. PICK b : b = (Budget + n - 1) \div n
  OBVIOUS
<1>5. b \in Nat
  BY <1>2, <1>3, <1>4
<1>6. PerPiece(n) \in Nat
  BY <1>3, <1>4, <1>5, GreaterOfTwo DEF PerPiece
<1> QED BY <1>1, <1>3, <1>6 DEF LimitOf

(* A beginning of what repeats nothing repeats nothing.                    *)
LEMMA BeginningsRepeatNothing ==
    ASSUME NEW S, NEW s \in Seq(S), NEW k \in Nat, k <= Len(s)
    PROVE  /\ SubSeq(s, 1, k) \in Seq(S) /\ Len(SubSeq(s, 1, k)) = k
           /\ IsInjective(s) => IsInjective(SubSeq(s, 1, k))
<1>1. /\ SubSeq(s, 1, k) \in Seq(S) /\ Len(SubSeq(s, 1, k)) = k
      /\ \A i \in 1..k : SubSeq(s, 1, k)[i] = s[i]
  OBVIOUS
<1> PICK t : t = SubSeq(s, 1, k)
  OBVIOUS
<1>2. DOMAIN t = 1..k /\ DOMAIN s = 1..Len(s) /\ \A i \in 1..k : t[i] = s[i] /\ i \in 1..Len(s)
  BY <1>1
<1>3. IsInjective(s) => IsInjective(t)
  BY <1>2 DEF IsInjective
<1> QED BY <1>1, <1>3

(* What a walk may have planned.                                           *)
NotesOn(disk) == {i \in DOMAIN Entries : disk[i] = "note"}
Plans(disk) == [files : Seq(NotesOn(disk)), skipped : SUBSET {<<i, disk[i]>> : i \in DOMAIN Entries},
                walked : SUBSET (0..Len(Entries)), limited : BOOLEAN]
NothingPlanned == [files |-> <<>>, skipped |-> {}, walked |-> {0}, limited |-> FALSE]

(* One entry more, and a plan is still a plan.                             *)
LEMMA PlanningPlans ==
    ASSUME NEW disk, NEW limit, NEW recursive, NEW plan \in Plans(disk), NEW i \in DOMAIN Entries
    PROVE  Planned(plan, i, disk[i], limit, recursive) \in Plans(disk)
<1>1. Len(Entries) \in Nat /\ DOMAIN Entries = 1..Len(Entries)
  BY FolderAssumption
<1>2. [plan EXCEPT !.limited = @ \/ Entries[i].within \in plan.walked] \in Plans(disk)
  BY DEF Plans
<1>3. [plan EXCEPT !.skipped = @ \cup {<<i, disk[i]>>}] \in Plans(disk)
  BY DEF Plans
<1>4. [plan EXCEPT !.walked = IF recursive THEN @ \cup {i} ELSE @] \in Plans(disk)
  BY <1>1 DEF Plans
<1>5. ASSUME disk[i] = "note"
      PROVE  [plan EXCEPT !.files = Append(@, i)] \in Plans(disk)
  <2>1. i \in NotesOn(disk)
    BY <1>5 DEF NotesOn
  <2>2. Append(plan.files, i) \in Seq(NotesOn(disk))
    BY <2>1 DEF Plans
  <2> QED BY <2>2 DEF Plans
<1>6. CASE ~Met(plan, i, limit)
  BY <1>2, <1>6 DEF Planned
<1>7. CASE Met(plan, i, limit) /\ PassedOver(i, disk[i], recursive)
  BY <1>3, <1>7 DEF Planned, PassedOver, Reasons
<1>8. CASE Met(plan, i, limit) /\ ~PassedOver(i, disk[i], recursive)
  <2>1. CASE disk[i] = "folder"
    BY <1>4, <1>8, <2>1 DEF Planned
  <2>2. CASE disk[i] = "note"
    BY <1>5, <1>8, <2>2 DEF Planned
  <2>3. CASE disk[i] # "folder" /\ disk[i] # "note"
    BY <1>8, <2>3 DEF Planned
  <2> QED BY <2>1, <2>2, <2>3
<1> QED BY <1>6, <1>7, <1>8

(* What is planned of the first so many entries.                           *)
PlanUpTo(disk, limit, recursive, f, m) ==
    f = [i \in 0..m |-> IF i = 0 THEN NothingPlanned
                        ELSE Planned(f[i - 1], i, disk[i], limit, recursive)]

(* A folder can always be walked.                                          *)
LEMMA PlansExist ==
    ASSUME NEW disk, NEW limit, NEW recursive
    PROVE  \A m \in Nat : \E f : PlanUpTo(disk, limit, recursive, f, m)
<1> DEFINE NextPlan(x, i) == Planned(x, i, disk[i], limit, recursive)
           Walk(f, m) == f = [i \in 0..m |-> IF i = 0 THEN NothingPlanned ELSE NextPlan(f[i - 1], i)]
           Unwalked == {m \in Nat : ~\E f : Walk(f, m)}
<1>0. \A f, m : PlanUpTo(disk, limit, recursive, f, m) <=> Walk(f, m)
  BY DEF PlanUpTo
<1> HIDE DEF NextPlan
<1>1. ASSUME NEW m \in Unwalked, \A n \in Unwalked : m <= n
      PROVE  FALSE
  <2>1. CASE m = 0
    <3>1. Walk([i \in 0..0 |-> NothingPlanned], 0)
      OBVIOUS
    <3> QED BY <2>1, <3>1
  <2>2. CASE m # 0
    <3>1. m - 1 \in Nat /\ ~(m <= m - 1)
      BY <2>2
    <3>2. PICK f : Walk(f, m - 1)
      BY <1>1, <3>1
    <3>3. \A i \in 0..(m - 1) : f[i] = IF i = 0 THEN NothingPlanned ELSE NextPlan(f[i - 1], i)
      BY <3>2
    <3> PICK g : g = [i \in 0..m |-> IF i = m THEN NextPlan(f[m - 1], m) ELSE f[i]]
      OBVIOUS
    <3>4. \A i \in 0..m : g[i] = IF i = 0 THEN NothingPlanned ELSE NextPlan(g[i - 1], i)
      <4> SUFFICES ASSUME NEW i \in 0..m
                   PROVE  g[i] = IF i = 0 THEN NothingPlanned ELSE NextPlan(g[i - 1], i)
        OBVIOUS
      <4>1. CASE i = m
        BY <2>2, <3>1, <4>1
      <4>2. CASE i # m
        BY <3>3, <4>2
      <4> QED BY <4>1, <4>2
    <3>5. g = [i \in 0..m |-> IF i = 0 THEN NothingPlanned ELSE NextPlan(g[i - 1], i)]
      BY <3>4
    <3> QED BY <3>5
  <2> QED BY <2>1, <2>2
<1>2. Unwalked = {}
  <2> SUFFICES ASSUME Unwalked # {} PROVE FALSE
    OBVIOUS
  <2>1. Unwalked \in SUBSET Nat
    OBVIOUS
  <2> HIDE DEF Unwalked
  <2>2. PICK m \in Unwalked : \A n \in Unwalked : m <= n
    BY <2>1, LeastExists
  <2> QED BY <1>1, <2>2
<1>3. \A m \in Nat : \E f : Walk(f, m)
  BY <1>2
<1> HIDE DEF Walk
<1> QED BY <1>0, <1>3

(* All of it is plans.                                                     *)
LEMMA WalksPlan ==
    ASSUME NEW disk, NEW limit, NEW recursive, NEW m \in 0..Len(Entries), NEW f,
           PlanUpTo(disk, limit, recursive, f, m)
    PROVE  f[m] \in Plans(disk)
<1> DEFINE Bad == {i \in 0..m : f[i] \notin Plans(disk)}
<1>1. Len(Entries) \in Nat /\ DOMAIN Entries = 1..Len(Entries)
  BY FolderAssumption
<1>2. NothingPlanned \in Plans(disk)
  BY <1>1 DEF NothingPlanned, Plans
<1>3. \A i \in 0..m : f[i] = IF i = 0 THEN NothingPlanned
                             ELSE Planned(f[i - 1], i, disk[i], limit, recursive)
  BY DEF PlanUpTo
<1>4. Bad = {}
  <2> SUFFICES ASSUME Bad # {} PROVE FALSE
    OBVIOUS
  <2>1. Bad \in SUBSET Nat
    BY <1>1
  <2>2. PICK i \in Bad : \A n \in Bad : i <= n
    <3> HIDE DEF Bad
    <3> QED BY <2>1, LeastExists
  <2>3. i # 0 /\ i \in 1..Len(Entries) /\ i - 1 \in 0..m /\ i - 1 \notin Bad
    BY <1>1, <1>2, <1>3, <2>2
  <2>4. f[i - 1] \in Plans(disk) /\ f[i] = Planned(f[i - 1], i, disk[i], limit, recursive)
    BY <1>3, <2>2, <2>3
  <2> PICK plan : plan = f[i - 1]
    OBVIOUS
  <2>5. Planned(plan, i, disk[i], limit, recursive) \in Plans(disk)
    BY <1>1, <2>3, <2>4, PlanningPlans
  <2> QED BY <2>2, <2>4, <2>5
<1> QED BY <1>1, <1>4

(* The files of a plan are papers.                                         *)
LEMMA PlansArePapers ==
    ASSUME NEW disk \in Disks, NEW limit, NEW recursive
    PROVE  LET files == PlanFolder(disk, limit, recursive).files
           IN  [n \in DOMAIN files |-> Entries[files[n]].name] \in Seq(Papers)
<1> DEFINE plan == CHOOSE f : f = [i \in 0..Len(Entries) |->
                     IF i = 0 THEN [files |-> <<>>, skipped |-> {}, walked |-> {0}, limited |-> FALSE]
                     ELSE Planned(f[i - 1], i, disk[i], limit, recursive)]
           whole == plan[Len(Entries)]
<1>1. Len(Entries) \in Nat /\ DOMAIN Entries = 1..Len(Entries)
  BY FolderAssumption
<1>2. PlanUpTo(disk, limit, recursive, plan, Len(Entries))
  <2>1. \E f : PlanUpTo(disk, limit, recursive, f, Len(Entries))
    BY <1>1, PlansExist
  <2> QED BY <2>1 DEF PlanUpTo, NothingPlanned
<1>3. PlanFolder(disk, limit, recursive) = [whole EXCEPT !.limited = @ \/ Len(whole.files) >= limit]
  BY DEF PlanFolder
<1> HIDE DEF plan
<1>4. whole \in Plans(disk)
  BY <1>1, <1>2, WalksPlan
<1> HIDE DEF whole
<1>5. PlanFolder(disk, limit, recursive).files = whole.files /\ whole.files \in Seq(NotesOn(disk))
  BY <1>3, <1>4 DEF Plans
<1> PICK files : files = whole.files
  OBVIOUS
<1>6. \A i \in NotesOn(disk) : Entries[i].name \in Papers
  BY FolderAssumption DEF NotesOn, Papers
<1>7. /\ files \in Seq(NotesOn(disk)) /\ Len(files) \in Nat /\ DOMAIN files = 1..Len(files)
      /\ \A n \in 1..Len(files) : files[n] \in NotesOn(disk)
  BY <1>5
<1>8. [n \in 1..Len(files) |-> Entries[files[n]].name] \in Seq(Papers)
  BY <1>6, <1>7
<1> QED BY <1>5, <1>7, <1>8

-----------------------------------------------------------------------------
(* The steps.  A job that rests is no document's.                          *)
Resting(j) == j \in Jobs /\ j.stage \in {"idle", "next", "reading"} /\ Awaited(j)

(* What goes on to the next file, or to nothing, rests.                    *)
LEMMA OnwardRests ==
    ASSUME NEW j, j.left \in Seq(Papers)
    PROVE  Resting(Onward(j)) /\ Resting(AtRest)
<1>1. Resting(AtRest)
  BY DEF Resting, AtRest, Jobs, Awaited
<1>2. j.left # <<>> => Resting([AtRest EXCEPT !.stage = "next", !.folder = TRUE, !.left = j.left])
  <2>1. AtRest \in Jobs
    BY <1>1 DEF Resting
  <2>2. [AtRest EXCEPT !.stage = "next", !.folder = TRUE, !.left = j.left] \in Jobs
    BY <2>1 DEF Jobs
  <2>3. /\ [AtRest EXCEPT !.stage = "next", !.folder = TRUE, !.left = j.left].stage = "next"
        /\ [AtRest EXCEPT !.stage = "next", !.folder = TRUE, !.left = j.left].left = j.left
    BY DEF AtRest
  <2> QED BY <2>2, <2>3 DEF Resting, Awaited
<1> QED BY <1>1, <1>2 DEF Onward

(* What one of them does, the others being left alone.                     *)
LEMMA OneMoves ==
    ASSUME IngestInv, NEW c \in Ingesters, capture' \in [Ingesters -> Jobs],
           \A d \in Ingesters \ {c} : capture'[d] = capture[d],
           source \subseteq source', ClaimsAreClaims', ClaimsAreProposedOnce',
           \A d \in Ingesters \ {c} : AtWork(d) => proposed'[About(d)] = proposed[About(d)],
           (Stored(c) /\ Fresh(c) /\ WithinBudget(c) /\ Awaited(capture[c]))',
           AtWork(c)' => \A d \in Ingesters \ {c} : AtWork(d) => About(d) # About(c)'
    PROVE  IngestInv'
<1>1. \A d \in Ingesters \ {c} : (AtWork(d)' <=> AtWork(d)) /\ About(d)' = About(d)
  BY DEF AtWork, About
<1>2. ASSUME NEW d \in Ingesters \ {c}
      PROVE  (Stored(d) /\ Fresh(d) /\ WithinBudget(d) /\ Awaited(capture[d]))'
  <2>1. Stored(d) /\ Fresh(d) /\ WithinBudget(d) /\ Awaited(capture[d])
    BY DEF IngestInv, WorkIsSound
  <2>2. capture'[d] = capture[d] /\ (AtWork(d)' <=> AtWork(d)) /\ About(d)' = About(d)
    BY <1>1
  <2>3. AtWork(d) => proposed'[About(d)] = proposed[About(d)]
    OBVIOUS
  <2>4. Stored(d)'
    BY <2>1, <2>2 DEF Stored
  <2>5. Fresh(d)'
    BY <2>1, <2>2, <2>3 DEF Fresh, Long, AtWork
  <2>6. WithinBudget(d)'
    BY <2>1, <2>2, <2>3 DEF WithinBudget, Long, AtWork
  <2>7. Awaited(capture'[d])
    BY <2>1, <2>2
  <2> QED BY <2>4, <2>5, <2>6, <2>7
<1>3. WorkIsSound'
  BY <1>2 DEF WorkIsSound
<1>4. NobodyShares'
  <2> SUFFICES ASSUME NEW d \in Ingesters, NEW e \in Ingesters, AtWork(d)', AtWork(e)', About(d)' = About(e)'
               PROVE  d = e
    BY DEF NobodyShares
  <2>1. CASE d # c /\ e # c
    BY <1>1, <2>1 DEF IngestInv, NobodyShares
  <2>2. CASE d = c \/ e = c
    BY <1>1, <2>2
  <2> QED BY <2>1, <2>2
<1> QED BY <1>3, <1>4 DEF IngestInv, JobsAreJobs

(* Sources are added of which nothing is proposed yet.                     *)
Adding == /\ source \subseteq source'
          /\ proposed' = [s \in source' |-> IF s \in source THEN proposed[s] ELSE <<>>]

(* What was proposed stays, and is what it has to be.                     *)
LEMMA AddingAddsNothing ==
    ASSUME IngestInv, Adding
    PROVE  /\ ClaimsAreClaims' /\ ClaimsAreProposedOnce'
           /\ \A s \in source : proposed'[s] = proposed[s]
           /\ \A d \in Ingesters : AtWork(d) => proposed'[About(d)] = proposed[About(d)]
<1>1. /\ \A s \in source : s \in source' /\ proposed'[s] = proposed[s]
      /\ \A s \in source' \ source : proposed'[s] = <<>>
      /\ DOMAIN proposed' = source'
  BY DEF Adding
<1>2. ClaimsAreClaims'
  <2>1. proposed \in [source -> Seq(Claims)] /\ <<>> \in Seq(Claims)
    BY DEF IngestInv, ClaimsAreClaims
  <2>2. \A s \in source' : proposed'[s] \in Seq(Claims)
    BY <1>1, <2>1
  <2>3. proposed' \in [source' -> Seq(Claims)]
    BY <2>2 DEF Adding
  <2> QED BY <2>3 DEF ClaimsAreClaims
<1>3. ClaimsAreProposedOnce'
  <2>1. Budget \in Nat /\ Len(<<>>) <= Budget /\ IsInjective(<<>>)
    BY NumbersAssumption DEF IsInjective
  <2> SUFFICES ASSUME NEW s \in source', s[2] # NoText /\ Len(PiecesOf[s[2]]) > 1
               PROVE  Len(proposed'[s]) <= Budget /\ IsInjective(proposed'[s])
    BY DEF ClaimsAreProposedOnce
  <2>2. CASE s \in source
    BY <1>1, <2>2 DEF IngestInv, ClaimsAreProposedOnce
  <2>3. CASE s \notin source
    BY <1>1, <2>1, <2>3
  <2> QED BY <2>2, <2>3
<1>4. \A d \in Ingesters : AtWork(d) => About(d) \in source
  BY DEF IngestInv, WorkIsSound, Stored
<1> QED BY <1>1, <1>2, <1>3, <1>4

(* One comes to rest.                                                      *)
LEMMA RestingKeeps ==
    ASSUME IngestInv, Adding, NEW c \in Ingesters, NEW j, Resting(j), capture' = [capture EXCEPT ![c] = j]
    PROVE  IngestInv'
<1>1. /\ \A d \in Ingesters \ {c} : capture'[d] = capture[d]
      /\ capture'[c].stage \in {"idle", "next", "reading"} /\ Awaited(capture'[c])
      /\ capture' \in [Ingesters -> Jobs]
  BY DEF IngestInv, JobsAreJobs, Resting
<1>2. ~AtWork(c)'
  BY <1>1 DEF AtWork
<1>3. (Stored(c) /\ Fresh(c) /\ WithinBudget(c))'
  BY <1>1, <1>2 DEF Stored, Fresh, WithinBudget
<1> QED BY <1>1, <1>2, <1>3, AddingAddsNothing, OneMoves DEF Adding

(* One begins to look for the claims of what it has stored.                *)
LEMMA ExtractingKeeps ==
    ASSUME IngestInv, Adding, NEW c \in Ingesters, NEW job \in Jobs, NEW name \in Papers \cup Spoken,
           NEW text \in DOMAIN PiecesOf, <<name, text>> \notin source, <<name, text>> \in source',
           capture' = [capture EXCEPT ![c] = Extraction(job, name, text, Len(PiecesOf[text]))]
    PROVE  IngestInv'
<1> DEFINE slow == Len(PiecesOf[text]) > 1 /\ TooSlow(Len(PiecesOf[text]))
           whole == Len(PiecesOf[text]) = 1 \/ TooSlow(Len(PiecesOf[text]))
<1>1. slow \in BOOLEAN /\ whole \in BOOLEAN
  OBVIOUS
<1>2. Long(text) => (whole => slow)
  <2> SUFFICES ASSUME Long(text), whole PROVE slow
    OBVIOUS
  <2>1. Len(PiecesOf[text]) > 1 /\ Len(PiecesOf[text]) # 1
    BY PiecesArePieces DEF Long
  <2> QED BY <2>1, Zenon
<1>3. PICK j : j = [job EXCEPT !.stage = "extracting", !.name = name, !.text = text, !.piece = 1,
                               !.claims = <<>>, !.slow = slow, !.whole = whole]
  OBVIOUS
<1>31. j = Extraction(job, name, text, Len(PiecesOf[text]))
  BY <1>3 DEF Extraction
<1> HIDE DEF slow, whole
<1>32. name \in Papers \cup Spoken \cup {""} /\ text \in DOMAIN PiecesOf \cup {NoText} /\ <<>> \in Seq(Claims)
  <2>1. name \in Papers \cup Spoken \cup {""} /\ text \in DOMAIN PiecesOf \cup {NoText}
    BY Zenon
  <2>2. <<>> \in Seq(Claims)
    OBVIOUS
  <2> QED BY <2>1, <2>2
<1>33. j \in Jobs
  BY <1>1, <1>3, <1>32 DEF Jobs
<1>4. /\ j.stage = "extracting" /\ j.name = name /\ j.text = text /\ j.piece = 1
      /\ j.claims = <<>> /\ j.slow = slow /\ j.whole = whole
  BY <1>3 DEF Jobs
<1>5. /\ \A d \in Ingesters \ {c} : capture'[d] = capture[d]
      /\ capture'[c] = j
      /\ capture' \in [Ingesters -> Jobs]
  BY <1>31, <1>33 DEF IngestInv, JobsAreJobs
<1>6. About(c)' = <<name, text>> /\ About(c)' \notin source /\ About(c)' \in source'
  BY <1>4, <1>5 DEF About
<1>7. \A d \in Ingesters : AtWork(d) => About(d) # About(c)'
  BY <1>6 DEF IngestInv, WorkIsSound, Stored
<1>8. Stored(c)'
  <2>1. 1 \in DOMAIN PiecesOf[text]
    BY PiecesArePieces
  <2> QED BY <1>4, <1>5, <1>6, <2>1 DEF Stored
<1>9. Fresh(c)'
  <2>1. proposed'[About(c)'] = <<>>
    BY <1>6 DEF Adding
  <2>2. IsInjective(<<>>)
    BY DEF IsInjective
  <2>3. capture'[c].text = text /\ capture'[c].claims = <<>>
        /\ capture'[c].whole = whole /\ capture'[c].slow = slow
    BY <1>4, <1>5
  <2>4. Long(text) => (capture'[c].whole => capture'[c].slow)
    BY <1>2, <2>3
  <2>5. Long(capture'[c].text) =>
           (capture'[c].whole => capture'[c].slow) /\ IsInjective(capture'[c].claims)
    BY <2>2, <2>3, <2>4
  <2> QED BY <2>1, <2>5 DEF Fresh, Long
<1>10. WithinBudget(c)' /\ Awaited(capture'[c])
  BY <1>4, <1>5 DEF WithinBudget, Awaited
<1> QED BY <1>5, <1>7, <1>8, <1>9, <1>10, AddingAddsNothing, OneMoves DEF Adding

(* Sources stay as they are, and so does what is proposed.                 *)
LEMMA AddingNothing ==
    ASSUME IngestInv, source' = source, proposed' = proposed
    PROVE  Adding
BY DEF IngestInv, ClaimsAreClaims, Adding

(* A call has ended: there is a next piece, or there are claims to propose.*)
LEMMA TellingKeeps ==
    ASSUME IngestInv, source' = source, proposed' = proposed,
           NEW c \in Ingesters, capture[c].stage = "extracting",
           NEW claims \in Seq(Claims),
           Long(capture[c].text) => /\ IsInjective(claims)
                                    /\ capture[c].whole => Len(claims) <= Budget,
           capture' = [capture EXCEPT ![c] = Told(@, claims)]
    PROVE  IngestInv'
<1> PICK job, text, last : job = capture[c] /\ text = job.text /\ last = Len(PiecesOf[text])
  OBVIOUS
<1>1. /\ job \in Jobs /\ AtWork(c) /\ Stored(c) /\ Fresh(c)
      /\ capture \in [Ingesters -> Jobs]
  BY DEF IngestInv, JobsAreJobs, WorkIsSound, AtWork
<1>2. /\ text \in DOMAIN PiecesOf /\ last \in Nat
      /\ DOMAIN PiecesOf[text] = 1..last /\ job.piece \in 1..last
  BY <1>1, PiecesArePieces DEF Stored
<1> PICK few : few = IF job.whole THEN claims ELSE SubSeq(claims, 1, Min({Len(claims), Budget}))
  OBVIOUS
<1>3. /\ few \in Seq(Claims)
      /\ Long(text) => Len(few) <= Budget /\ IsInjective(few)
  <2>1. CASE job.whole
    BY <2>1
  <2>2. CASE ~job.whole
    <3>1. PICK k : k = Min({Len(claims), Budget})
      OBVIOUS
    <3>2. k \in Nat /\ k <= Len(claims) /\ k <= Budget
      BY <3>1, LesserOfTwo, NumbersAssumption
    <3> QED BY <2>2, <3>1, <3>2, BeginningsRepeatNothing
  <2> QED BY <2>1, <2>2
<1>4. CASE job.whole \/ job.piece = last \/ Len(claims) >= Budget
  <2> PICK j : j = [job EXCEPT !.stage = "proposing", !.claims = few]
    OBVIOUS
  <2>1. Told(job, claims) = j
    BY <1>4 DEF Told
  <2>2. j \in Jobs
    BY <1>1, <1>3 DEF Jobs
  <2>3. j.stage = "proposing" /\ j.name = job.name /\ j.text = text /\ j.piece = job.piece /\ j.claims = few
    BY <1>1 DEF Jobs
  <2>4. /\ capture'[c] = j /\ \A d \in Ingesters \ {c} : capture'[d] = capture[d]
        /\ capture' \in [Ingesters -> Jobs]
    BY <1>1, <2>1, <2>2
  <2>5. About(c)' = About(c) /\ AtWork(c)'
    BY <2>3, <2>4 DEF About, AtWork
  <2>6. Stored(c)' /\ Fresh(c)' /\ Awaited(capture'[c])
    BY <1>1, <2>3, <2>4, <2>5 DEF Stored, Fresh, Awaited
  <2>7. WithinBudget(c)'
    <3>1. proposed'[About(c)'] = <<>>
      BY <1>1, <2>5 DEF Fresh
    <3>2. capture'[c].claims = few /\ capture'[c].text = text
      BY <2>3, <2>4
    <3>3. proposed'[About(c)'] \o capture'[c].claims = few
      BY <1>3, <3>1, <3>2
    <3> QED BY <1>3, <3>2, <3>3 DEF WithinBudget, Long
  <2>8. AtWork(c)' => \A d \in Ingesters \ {c} : AtWork(d) => About(d) # About(c)'
    BY <1>1, <2>5 DEF IngestInv, NobodyShares
  <2> QED BY <2>4, <2>6, <2>7, <2>8, AddingNothing, AddingAddsNothing, OneMoves
<1>5. CASE ~(job.whole \/ job.piece = last \/ Len(claims) >= Budget)
  <2> PICK j : j = [job EXCEPT !.piece = @ + 1, !.claims = claims]
    OBVIOUS
  <2>1. Told(job, claims) = j
    BY <1>5 DEF Told
  <2>2. j \in Jobs
    <3>1. job.piece + 1 \in Nat
      BY <1>2
    <3> QED BY <1>1, <3>1 DEF Jobs
  <2>3. /\ j.stage = "extracting" /\ j.name = job.name /\ j.text = text /\ j.piece = job.piece + 1
        /\ j.claims = claims /\ j.whole = job.whole
    BY <1>1 DEF Jobs
  <2>4. /\ capture'[c] = j /\ \A d \in Ingesters \ {c} : capture'[d] = capture[d]
        /\ capture' \in [Ingesters -> Jobs]
    BY <1>1, <2>1, <2>2
  <2>5. About(c)' = About(c) /\ AtWork(c)'
    BY <2>3, <2>4 DEF About, AtWork
  <2>6. Stored(c)'
    <3>1. job.piece + 1 \in 1..last
      BY <1>2, <1>5
    <3> QED BY <1>1, <1>2, <2>3, <2>4, <2>5, <3>1 DEF Stored
  <2>7. Fresh(c)'
    <3>1. proposed'[About(c)'] = <<>>
      BY <1>1, <2>5 DEF Fresh
    <3>2. ~capture'[c].whole /\ capture'[c].claims = claims /\ capture'[c].text = text
      BY <1>5, <2>3, <2>4
    <3> QED BY <3>1, <3>2 DEF Fresh, Long
  <2>8. WithinBudget(c)' /\ Awaited(capture'[c])
    BY <2>3, <2>4 DEF WithinBudget, Awaited
  <2>9. AtWork(c)' => \A d \in Ingesters \ {c} : AtWork(d) => About(d) # About(c)'
    BY <1>1, <2>5 DEF IngestInv, NobodyShares
  <2> QED BY <2>4, <2>6, <2>7, <2>8, <2>9, AddingNothing, AddingAddsNothing, OneMoves
<1> QED BY <1>4, <1>5

(* One claim is proposed: it leaves those to follow.                       *)
LEMMA ProposingKeeps ==
    ASSUME IngestInv, NEW c \in Ingesters, ProposeClaim(c)
    PROVE  IngestInv'
<1> PICK job, s : job = capture[c] /\ s = <<job.name, job.text>>
  OBVIOUS
<1>0. s = About(c)
  BY DEF About
<1>1. /\ job \in Jobs /\ job.stage = "proposing" /\ job.claims # <<>>
      /\ source' = source /\ capture \in [Ingesters -> Jobs]
      /\ proposed' = [proposed EXCEPT ![s] = Append(@, Head(job.claims))]
      /\ capture' = [capture EXCEPT ![c].claims = Tail(@)]
  BY DEF ProposeClaim, IngestInv, JobsAreJobs
<1>2. AtWork(c) /\ Stored(c) /\ WithinBudget(c) /\ s \in source /\ job.text \in DOMAIN PiecesOf
  BY <1>0, <1>1 DEF IngestInv, WorkIsSound, AtWork, Stored
<1>3. proposed \in [source -> Seq(Claims)]
  BY DEF IngestInv, ClaimsAreClaims
<1> PICK before, after, claims : /\ before = proposed[s] /\ claims = job.claims
                                 /\ after = Append(before, Head(claims))
  OBVIOUS
<1>4. /\ before \in Seq(Claims) /\ claims \in Seq(Claims) /\ claims # <<>>
      /\ Head(claims) \in Claims /\ Tail(claims) \in Seq(Claims) /\ after \in Seq(Claims)
  <2>1. before \in Seq(Claims) /\ claims \in Seq(Claims) /\ claims # <<>>
    BY <1>1, <1>2, <1>3 DEF Jobs
  <2>2. Head(claims) \in Claims /\ Tail(claims) \in Seq(Claims)
    BY <2>1
  <2> QED BY <2>1, <2>2
<1>5. after \o Tail(claims) = before \o claims
  <2>1. Append(before, Head(claims)) \o Tail(claims) = before \o claims
    <3>1. \A x, y \in Seq(Claims) : y # <<>> => Append(x, Head(y)) \o Tail(y) = x \o y
      BY OneMovesOver, Zenon
    <3>2. before \in Seq(Claims) /\ claims \in Seq(Claims) /\ claims # <<>>
      BY <1>4
    <3> QED BY <3>1, <3>2, Zenon
  <2> QED BY <2>1
<1>6. /\ \A r \in source : r # s => proposed'[r] = proposed[r]
      /\ proposed'[s] = after /\ proposed' \in [source -> Seq(Claims)]
  BY <1>1, <1>2, <1>3, <1>4
<1> PICK j : j = [job EXCEPT !.claims = Tail(claims)]
  OBVIOUS
<1>7. /\ j \in Jobs /\ j.stage = "proposing" /\ j.name = job.name /\ j.text = job.text
      /\ j.piece = job.piece /\ j.claims = Tail(claims)
  BY <1>1, <1>4 DEF Jobs
<1>8. /\ capture'[c] = j /\ \A d \in Ingesters \ {c} : capture'[d] = capture[d]
      /\ capture' \in [Ingesters -> Jobs]
  <2>1. capture' = [capture EXCEPT ![c] = j]
    BY <1>1
  <2> QED BY <1>1, <1>7, <2>1
<1>9. About(c)' = s /\ AtWork(c)'
  BY <1>7, <1>8 DEF About, AtWork
<1>10. Stored(c)' /\ Fresh(c)' /\ Awaited(capture'[c])
  BY <1>0, <1>1, <1>2, <1>7, <1>8, <1>9 DEF Stored, Fresh, Awaited
<1>11. Long(job.text) => /\ Len(before \o claims) <= Budget
                         /\ IsInjective(before \o claims)
  BY <1>0, <1>1, <1>2 DEF WithinBudget
<1>12. WithinBudget(c)'
  <2>1. proposed'[About(c)'] \o capture'[c].claims = before \o claims /\ capture'[c].text = job.text
    BY <1>5, <1>6, <1>7, <1>8, <1>9
  <2> QED BY <1>11, <2>1 DEF WithinBudget, Long
<1>13. ClaimsAreClaims'
  BY <1>1, <1>6 DEF ClaimsAreClaims
<1>14. ClaimsAreProposedOnce'
  <2>1. Long(job.text) => Len(after) <= Budget /\ IsInjective(after)
    <3> SUFFICES ASSUME Long(job.text) PROVE Len(after) <= Budget /\ IsInjective(after)
      OBVIOUS
    <3> PICK rest : rest = Tail(claims)
      OBVIOUS
    <3>1. Budget \in Nat
      BY NumbersAssumption
    <3>2. Len(after \o rest) <= Budget /\ IsInjective(after \o rest)
      BY <1>5, <1>11
    <3>3. rest \in Seq(Claims) /\ after \in Seq(Claims)
      BY <1>4
    <3> QED BY <3>1, <3>2, <3>3, HalvesRepeatNothing
  <2>2. s[2] = job.text
    OBVIOUS
  <2> SUFFICES ASSUME NEW r \in source, r[2] # NoText /\ Len(PiecesOf[r[2]]) > 1
               PROVE  Len(proposed'[r]) <= Budget /\ IsInjective(proposed'[r])
    BY <1>1 DEF ClaimsAreProposedOnce
  <2>3. CASE r = s
    BY <1>6, <2>1, <2>2, <2>3 DEF Long
  <2>4. CASE r # s
    BY <1>6, <2>4 DEF IngestInv, ClaimsAreProposedOnce
  <2> QED BY <2>3, <2>4
<1>15. AtWork(c)' => \A d \in Ingesters \ {c} : AtWork(d) => About(d) # About(c)'
  BY <1>0, <1>2, <1>9 DEF IngestInv, NobodyShares
<1>16. \A d \in Ingesters \ {c} : AtWork(d) => proposed'[About(d)] = proposed[About(d)]
  <2>1. \A d \in Ingesters \ {c} : AtWork(d) => About(d) # s /\ About(d) \in source
    BY <1>0, <1>2 DEF IngestInv, NobodyShares, WorkIsSound, Stored
  <2> QED BY <1>6, <2>1
<1> QED BY <1>1, <1>8, <1>10, <1>12, <1>13, <1>14, <1>15, <1>16, OneMoves

(* What is stored is looked at, or was stored before.                      *)
LEMMA StoringKeeps ==
    ASSUME IngestInv, NEW c \in Ingesters, NEW job \in Jobs, NEW name \in Papers \cup Spoken,
           NEW text \in DOMAIN PiecesOf \cup {NoText}, Store(c, job, name, text)
    PROVE  IngestInv'
<1>1. Resting(Onward(job))
  <2>1. job.left \in Seq(Papers)
    BY DEF Jobs
  <2> QED BY <2>1, OnwardRests
<1> PICK j : j = Onward(job)
  OBVIOUS
<1>2. CASE Already(name, text)
  <2>1. capture' = [capture EXCEPT ![c] = j] /\ source' = source /\ proposed' = proposed
    BY <1>2 DEF Store, storedVars
  <2> QED BY <1>1, <2>1, AddingNothing, RestingKeeps
<1>3. CASE ~Already(name, text)
  <2>1. /\ source' = source \cup {<<name, text>>}
        /\ proposed' = [s \in source' |-> IF s \in source THEN proposed[s] ELSE <<>>]
        /\ IF text = NoText THEN capture' = [capture EXCEPT ![c] = j]
           ELSE capture' = [capture EXCEPT ![c] = Extraction(job, name, text, Len(PiecesOf[text]))]
    BY <1>3 DEF Store
  <2>2. Adding /\ <<name, text>> \notin source /\ <<name, text>> \in source'
    BY <1>3, <2>1 DEF Adding, Already
  <2>3. CASE text = NoText
    BY <1>1, <2>1, <2>2, <2>3, RestingKeeps
  <2>4. CASE text # NoText
    BY <2>1, <2>2, <2>4, ExtractingKeeps
  <2> QED BY <2>3, <2>4
<1> QED BY <1>2, <1>3

(* What is found in a piece, or in all of them at once, and taken.         *)
LEMMA TakingKeeps ==
    ASSUME IngestInv, source' = source, proposed' = proposed,
           NEW c \in Ingesters, capture[c].stage = "extracting",
           NEW found \in Seq(Claims),
           Long(capture[c].text) /\ capture[c].whole => IsInjective(found) /\ Len(found) <= Budget,
           Takes(c, found)
    PROVE  IngestInv'
<1> PICK before, claims : /\ before = capture[c].claims
                          /\ claims = IF capture[c].whole THEN found ELSE Merged(before, found)
  OBVIOUS
<1>1. before \in Seq(Claims) /\ Fresh(c)
  BY DEF IngestInv, JobsAreJobs, Jobs, WorkIsSound
<1>2. capture' = [capture EXCEPT ![c] = Told(@, claims)]
  BY DEF Takes
<1>3. claims \in Seq(Claims)
  BY <1>1, MergingRepeatsNothing
<1>4. Long(capture[c].text) => IsInjective(claims) /\ (capture[c].whole => Len(claims) <= Budget)
  <2> SUFFICES ASSUME Long(capture[c].text)
               PROVE  IsInjective(claims) /\ (capture[c].whole => Len(claims) <= Budget)
    OBVIOUS
  <2>1. IsInjective(before)
    BY <1>1 DEF Fresh
  <2>2. CASE capture[c].whole
    BY <2>2
  <2>3. CASE ~capture[c].whole
    BY <1>1, <2>1, <2>3, MergingRepeatsNothing
  <2> QED BY <2>2, <2>3
<1> QED BY <1>2, <1>3, <1>4, TellingKeeps

(* What the model may say are claims.                                      *)
LEMMA ModelKeeps ==
    ASSUME IngestInv, NEW c \in Ingesters, NEW pace, capture[c].stage = "extracting",
           NEW found \in Lists(InView(capture[c]), LimitOf(capture[c])), ModelFinds(c, found, pace)
    PROVE  IngestInv'
<1>1. Stored(c) /\ Fresh(c) /\ AtWork(c)
  BY DEF IngestInv, WorkIsSound, AtWork
<1>2. InView(capture[c]) \subseteq Claims
  BY <1>1, ViewsAreFinite DEF Stored
<1>3. found \in Seq(Claims)
  <2>1. PICK V, n : V = InView(capture[c]) /\ n = LimitOf(capture[c])
    OBVIOUS
  <2>2. PICK k \in 0..n : found \in [1..k -> V]
    BY <2>1 DEF Lists
  <2>3. k \in Nat /\ V \subseteq Claims
    BY <1>2, <2>1, <2>2
  <2>4. found \in [1..k -> Claims]
    BY <2>2, <2>3
  <2> QED BY <2>3, <2>4
<1>4. ~(Long(capture[c].text) /\ capture[c].whole)
  BY <1>1 DEF ModelFinds, Fresh
<1> QED BY <1>3, <1>4, TakingKeeps DEF ModelFinds, StillStored

(* What the floor finds is told once, and is no more than was asked for.   *)
LEMMA FloorKeeps ==
    ASSUME IngestInv, NEW c \in Ingesters, NEW cutOff, FloorFinds(c, cutOff)
    PROVE  IngestInv'
<1>1. capture[c].stage = "extracting" /\ source' = source /\ proposed' = proposed
  BY DEF FloorFinds, StillStored
<1>2. Stored(c) /\ Fresh(c) /\ AtWork(c)
  BY <1>1 DEF IngestInv, WorkIsSound, AtWork
<1> PICK V, all, limit, k : /\ V = InView(capture[c]) /\ all = SetToSeq(V)
                            /\ limit = LimitOf(capture[c]) /\ k = Min({Len(all), limit})
  OBVIOUS
<1>3. V \subseteq Claims /\ IsFiniteSet(V)
  BY <1>2, ViewsAreFinite DEF Stored
<1>4. all \in Seq(Claims) /\ IsInjective(all) /\ Len(all) \in Nat
  <2>1. PICK n : n = Cardinality(V)
    OBVIOUS
  <2>2. n \in Nat /\ all \in [1..n -> V] /\ IsInjective(all)
    BY <1>3, <2>1, FS_CardinalityType, ToldOnce
  <2>3. all \in [1..n -> Claims]
    BY <1>3, <2>2
  <2> QED BY <2>2, <2>3
<1>5. limit \in Nat /\ (capture[c].whole => limit = Budget)
  BY <1>2, LimitsAreNumbers DEF Stored
<1>6. k \in Nat /\ k <= Len(all) /\ k <= limit
  BY <1>4, <1>5, LesserOfTwo
<1> PICK found : found = SubSeq(all, 1, k)
  OBVIOUS
<1>7. found \in Seq(Claims) /\ IsInjective(found) /\ Len(found) = k
  BY <1>4, <1>6, BeginningsRepeatNothing
<1>8. Takes(c, found)
  BY DEF FloorFinds
<1>9. capture[c].whole => Len(found) <= Budget
  BY <1>5, <1>6, <1>7
<1> QED BY <1>1, <1>7, <1>8, <1>9, TakingKeeps

(* Every step keeps the invariant.                                         *)
LEMMA IngestSteps == IngestInv /\ [IngestNext]_ingestVars => IngestInv'
<1> SUFFICES ASSUME IngestInv, [IngestNext]_ingestVars PROVE IngestInv'
  OBVIOUS
<1>0. /\ capture \in [Ingesters -> Jobs]
      /\ AtRest \in Jobs /\ Resting(AtRest)
      /\ \A c \in Ingesters : capture[c] \in Jobs /\ capture[c].left \in Seq(Papers)
  <2>1. <<>> \in Seq(Papers)
    OBVIOUS
  <2>2. AtRest.left = <<>>
    BY DEF AtRest
  <2>3. Resting(AtRest)
    BY <2>1, <2>2, OnwardRests
  <2>4. \A j \in Jobs : j.left \in Seq(Papers)
    BY DEF Jobs
  <2> QED BY <2>3, <2>4 DEF Resting, IngestInv, JobsAreJobs
<1>1. ASSUME NEW c \in Ingesters, NEW name \in Papers \cup Spoken, IngestOne(c, name)
      PROVE  IngestInv'
  <2>1. CASE name \in Spoken
    <3> PICK j : j = [AtRest EXCEPT !.stage = "reading", !.name = name]
      OBVIOUS
    <3>1. j \in Jobs /\ j.stage = "reading"
      BY <1>0, <2>1 DEF Jobs
    <3>2. capture' = [capture EXCEPT ![c] = j] /\ source' = source /\ proposed' = proposed
      BY <1>1, <2>1 DEF IngestOne, storedVars
    <3>3. Resting(j)
      BY <1>0, <2>1, <3>1 DEF Resting, Awaited, Jobs
    <3> QED BY <3>2, <3>3, AddingNothing, RestingKeeps
  <2>2. CASE name \notin Spoken
    <3>1. name \in Papers /\ name \in DOMAIN PiecesOf \cup {NoText} /\ Store(c, AtRest, name, name)
      BY <1>1, <2>2, TextAssumption DEF IngestOne
    <3> QED BY <1>0, <3>1, StoringKeeps
  <2> QED BY <2>1, <2>2
<1>2. ASSUME NEW c \in Ingesters, NEW disk \in Disks, NEW limit, NEW recursive,
             IngestFolder(c, disk, limit, recursive)
      PROVE  IngestInv'
  <2> PICK left, j : /\ left = LET files == PlanFolder(disk, limit, recursive).files
                               IN  [n \in DOMAIN files |-> Entries[files[n]].name]
                     /\ j = [AtRest EXCEPT !.left = left]
    OBVIOUS
  <2>1. left \in Seq(Papers)
    BY PlansArePapers
  <2>2. j.left = left
    BY DEF AtRest
  <2>3. Resting(Onward(j))
    BY <2>1, <2>2, OnwardRests
  <2>4. capture' = [capture EXCEPT ![c] = Onward(j)] /\ source' = source /\ proposed' = proposed
    BY <1>2 DEF IngestFolder, storedVars
  <2> QED BY <2>3, <2>4, AddingNothing, RestingKeeps
<1>3. ASSUME NEW c \in Ingesters, NEW text \in Heard \cup {NoText}, ReadingEnds(c, text)
      PROVE  IngestInv'
  <2>1. capture[c].stage = "reading" /\ Store(c, AtRest, capture[c].name, text)
    BY <1>3 DEF ReadingEnds
  <2>2. text \in DOMAIN PiecesOf \cup {NoText}
    BY TextAssumption
  <2>3. capture[c].name \in Papers \cup Spoken
    BY <2>1 DEF IngestInv, WorkIsSound, Awaited
  <2> PICK name : name = capture[c].name
    OBVIOUS
  <2> QED BY <1>0, <2>1, <2>2, <2>3, StoringKeeps
<1>4. ASSUME NEW c \in Ingesters, NextFile(c)
      PROVE  IngestInv'
  <2> PICK left, name, job : /\ left = capture[c].left /\ name = Head(left)
                             /\ job = [capture[c] EXCEPT !.left = Tail(@)]
    OBVIOUS
  <2>1. left \in Seq(Papers) /\ left # <<>>
    BY <1>0, <1>4 DEF NextFile, IngestInv, WorkIsSound, Awaited
  <2>2. name \in Papers /\ Tail(left) \in Seq(Papers)
    BY <2>1
  <2>3. job \in Jobs
    BY <1>0, <2>2 DEF Jobs
  <2>4. Store(c, job, name, name)
    BY <1>4 DEF NextFile
  <2>5. name \in Papers \cup Spoken /\ name \in DOMAIN PiecesOf \cup {NoText}
    BY <2>2, TextAssumption
  <2> QED BY <2>3, <2>4, <2>5, StoringKeeps
<1>5. ASSUME NEW c \in Ingesters, NobodyFinds(c)
      PROVE  IngestInv'
  <2>1. <<>> \in Seq(Claims) /\ Budget \in Nat /\ IsInjective(<<>>) /\ Len(<<>>) <= Budget
    BY NumbersAssumption DEF IsInjective
  <2>2. capture[c].stage = "extracting" /\ Takes(c, <<>>) /\ source' = source /\ proposed' = proposed
    BY <1>5 DEF NobodyFinds, StillStored
  <2> QED BY <2>1, <2>2, TakingKeeps
<1>6. ASSUME NEW c \in Ingesters, CaptureEnds(c)
      PROVE  IngestInv'
  <2>1. capture' = [capture EXCEPT ![c] = Onward(capture[c])] /\ source' = source /\ proposed' = proposed
    BY <1>6 DEF CaptureEnds
  <2>2. Resting(Onward(capture[c]))
    BY <1>0, OnwardRests
  <2> QED BY <2>1, <2>2, AddingNothing, RestingKeeps
<1>7. ASSUME NEW c \in Ingesters, CaptureFails(c)
      PROVE  IngestInv'
  <2> PICK left, job : /\ left = IF capture[c].stage = "next" THEN Tail(capture[c].left) ELSE capture[c].left
                       /\ job = [capture[c] EXCEPT !.left = left]
    OBVIOUS
  <2>1. capture[c].stage = "next" => capture[c].left # <<>>
    BY DEF IngestInv, WorkIsSound, Awaited
  <2>2. job.left = left
    BY <1>0 DEF Jobs
  <2>21. job.left \in Seq(Papers)
    BY <1>0, <2>1, <2>2
  <2>3. Resting(Onward(job))
    BY <2>21, OnwardRests
  <2>4. capture' = [capture EXCEPT ![c] = Onward(job)] /\ source' = source /\ proposed' = proposed
    BY <1>7 DEF CaptureFails, storedVars
  <2> QED BY <2>3, <2>4, AddingNothing, RestingKeeps
<1>8. CASE Interrupted
  <2>1. capture' = [c \in Ingesters |-> AtRest] /\ source' = source /\ proposed' = proposed
    BY <1>8 DEF Interrupted, storedVars
  <2>2. Adding
    BY <2>1, AddingNothing
  <2>3. ClaimsAreClaims' /\ ClaimsAreProposedOnce'
    BY <2>2, AddingAddsNothing
  <2>4. \A c \in Ingesters : capture'[c].stage = "idle"
    BY <2>1 DEF AtRest
  <2>5. WorkIsSound' /\ NobodyShares'
    BY <2>4 DEF WorkIsSound, NobodyShares, AtWork, Stored, Fresh, WithinBudget, Awaited
  <2>6. JobsAreJobs'
    BY <1>0, <2>1 DEF JobsAreJobs
  <2> QED BY <2>3, <2>4, <2>5, <2>6 DEF IngestInv
<1>9. CASE UNCHANGED ingestVars
  <2>1. UNCHANGED <<source, proposed, capture>>
    BY <1>9 DEF ingestVars, storedVars
  <2>2. /\ JobsAreJobs' /\ ClaimsAreClaims' /\ NobodyShares' /\ ClaimsAreProposedOnce'
    BY <2>1 DEF IngestInv, JobsAreJobs, ClaimsAreClaims, NobodyShares, ClaimsAreProposedOnce, AtWork, About
  <2>3. WorkIsSound'
    BY <2>1 DEF IngestInv, WorkIsSound, Stored, Fresh, WithinBudget, Long, AtWork, About
  <2> QED BY <2>1, <2>2, <2>3 DEF IngestInv
<1> QED BY <1>1, <1>2, <1>3, <1>4, <1>5, <1>6, <1>7, <1>8, <1>9,
           ProposingKeeps, FloorKeeps, ModelKeeps DEF IngestNext

(* It holds at the beginning.                                              *)
LEMMA IngestBegins == IngestInit => IngestInv
<1> SUFFICES ASSUME IngestInit PROVE IngestInv
  OBVIOUS
<1>1. AtRest \in Jobs
  BY DEF AtRest, Jobs
<1>2. \A c \in Ingesters : capture[c].stage = "idle" /\ capture[c] \in Jobs
  BY <1>1 DEF IngestInit, AtRest
<1>3. WorkIsSound /\ NobodyShares
  BY <1>2 DEF WorkIsSound, NobodyShares, AtWork, Stored, Fresh, WithinBudget, Awaited
<1>4. JobsAreJobs
  BY <1>1 DEF IngestInit, JobsAreJobs
<1>5. ClaimsAreClaims
  <2>1. proposed = <<>> /\ source = {} /\ DOMAIN <<>> = {}
    BY DEF IngestInit
  <2> QED BY <2>1 DEF ClaimsAreClaims
<1>6. ClaimsAreProposedOnce
  BY DEF IngestInit, ClaimsAreProposedOnce
<1> QED BY <1>2, <1>3, <1>4, <1>5, <1>6 DEF IngestInv

(* #extractClaims(), ingest(): whatever folders and recordings are captured*)
(* at once, captured again, cut off or interrupted, a document that is read*)
(* in pieces gives each of its claims once and no more than its budget.    *)
THEOREM LongDocumentsAreToldOnce == IngestSpec => []ClaimsAreProposedOnce
<1>1. IngestInv => ClaimsAreProposedOnce
  BY DEF IngestInv
<1> QED BY <1>1, IngestBegins, IngestSteps, PTL DEF IngestSpec
=============================================================================
