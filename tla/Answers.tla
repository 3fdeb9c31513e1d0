------------------------------ MODULE Answers ------------------------------
(***************************************************************************)
(* ask() of src/chitraq.js with src/context/answer-cache.js and            *)
(* src/context/builder.js: a question is answered from the cache, by       *)
(* quoting (the floor), or by a model, in that order.                      *)
(*                                                                         *)
(* One question is modelled; what it retrieves is every object that is     *)
(* there.  The context and the key of the cache are taken from memory in   *)
(* one go, without an await between them.  Then the floor and perhaps a    *)
(* model are awaited while people go on writing, and the answer is stored  *)
(* under the key that was taken at the beginning.                          *)
(***************************************************************************)
EXTENDS Integers, FiniteSets

CONSTANTS Notes,        \* objects the question may retrieve
          Wordings,     \* what an object may say
          Askers,       \* calls of ask() that may be under way at once
          MaxCached,    \* bound: answers kept at once
          TtlDays,      \* DEFAULT_TTL_DAYS
          MaxAskDay     \* bound: the last day

ASSUME TtlAssumption == TtlDays \in Nat /\ MaxAskDay \in Nat /\ MaxCached \in Nat

VARIABLES memory,  \* the objects that are there, with what they say
          cache,   \* table answer_cache: key -> answer
          asking,  \* asker -> the call under way
          askDay

answerVars == <<memory, cache, asking, askDay>>

Material == UNION {[S -> Wordings] : S \in SUBSET Notes}
Rungs == {"auto", "escalated"}
Modes == {"never", "auto", "always"}

(* The mode of the call decides which rung of the ladder the key names.    *)
RungOf(mode) == IF mode = "always" THEN "escalated" ELSE "auto"

(* Mutant: the key covers which objects were found, not what they say. *)
KeyOfIds(material, rung) == <<DOMAIN material, rung>>

(* keyFor(): the ids with their content hashes, and the rung.  State,      *)
(* review marks and conflicts are not part of it.                          *)
KeyOf(material, rung) == <<material, rung>>

NoAsk == [stage |-> "idle"]
Answer == [from : Material, rung : Rungs, by : {"builtin", "model"}, made : 0..MaxAskDay]

AnswersTypeOK ==
    /\ memory \in Material
    /\ \A k \in DOMAIN cache : cache[k] \in Answer
    /\ \A a \in Askers : asking[a] = NoAsk \/
          asking[a] \in [stage : {"floor", "model"}, from : Material, mode : Modes,
                         floor : BOOLEAN]
    /\ askDay \in 0..MaxAskDay

AnswersInit ==
    /\ memory = <<>>
    /\ cache = <<>>
    /\ asking = [a \in Askers |-> NoAsk]
    /\ askDay = 0
-----------------------------------------------------------------------------
Without(f, k) == [j \in DOMAIN f \ {k} |-> f[j]]
With(f, k, v) == [j \in DOMAIN f \cup {k} |-> IF j = k THEN v ELSE f[j]]

Expired(answer) == askDay - answer.made > TtlDays
Served(k) == k \in DOMAIN cache /\ ~Expired(cache[k])

(* Serves: what ask() returns from the cache; that changes nothing but a   *)
(* count of hits.                                                          *)
Serves(mode) == cache[KeyOf(memory, RungOf(mode))]

(* Otherwise an expired row is deleted and the ladder is climbed.  Where   *)
(* nothing is retrieved, nobody is asked.  A call with "cache: false"      *)
(* neither reads nor writes any of this and is left out.                   *)
Ask(a, mode) ==
    /\ asking[a] = NoAsk /\ memory # <<>>
    /\ LET k == KeyOf(memory, RungOf(mode)) IN ~Served(k) /\ cache' = Without(cache, k)
    /\ asking' = [asking EXCEPT ![a] = [stage |-> "floor", from |-> memory, mode |-> mode,
                                        floor |-> FALSE]]
    /\ UNCHANGED <<memory, askDay>>

(* put(), when there is something to keep.                                 *)
Keep(a, by) ==
    /\ cache' = With(cache, KeyOf(asking[a].from, RungOf(asking[a].mode)),
                     [from |-> asking[a].from, rung |-> RungOf(asking[a].mode), by |-> by,
                      made |-> askDay])
    /\ Cardinality(DOMAIN cache') <= MaxCached

Done(a) == asking' = [asking EXCEPT ![a] = NoAsk]

(* shouldEscalate and the measured wait: whether a quoted answer is enough *)
(* in the "auto" mode is the provider's and the machine's to say.          *)
Escalates(a) == asking[a].mode # "never"
Stays(a) == asking[a].mode # "always"

FloorSuffices(a) ==
    /\ asking[a].stage = "floor" /\ Stays(a)
    /\ Keep(a, "builtin")
    /\ Done(a)
    /\ UNCHANGED <<memory, askDay>>

(* No floor, and nobody to escalate to either.                             *)
NothingAnswers(a) ==
    /\ \/ asking[a].stage = "floor" /\ Stays(a)
       \/ asking[a].stage = "model" /\ ~asking[a].floor
    /\ Done(a)
    /\ UNCHANGED <<memory, cache, askDay>>

Escalate(a, floor) ==
    /\ asking[a].stage = "floor" /\ Escalates(a)
    /\ asking' = [asking EXCEPT ![a].stage = "model", ![a].floor = floor]
    /\ UNCHANGED <<memory, cache, askDay>>

ModelAnswers(a) ==
    /\ asking[a].stage = "model"
    /\ Keep(a, "model")
    /\ Done(a)
    /\ UNCHANGED <<memory, askDay>>

(* The floor's answer stands in, and is kept under the key of the rung     *)
(* that was asked for.                                                     *)
ModelFails(a) ==
    /\ asking[a].stage = "model" /\ asking[a].floor
    /\ Keep(a, "builtin")
    /\ Done(a)
    /\ UNCHANGED <<memory, askDay>>
-----------------------------------------------------------------------------
(* People capture and correct, and erase.                                  *)
Write(o, w) ==
    /\ memory' = With(memory, o, w)
    /\ memory' # memory
    /\ UNCHANGED <<cache, asking, askDay>>

Erase(o) ==
    /\ o \in DOMAIN memory
    /\ memory' = Without(memory, o)
    /\ UNCHANGED <<cache, asking, askDay>>

(* clearAnswerCache, of everything or of what is older than a day.         *)
ClearOlderThan(days) ==
    /\ cache # <<>>
    /\ cache' = [k \in {j \in DOMAIN cache : askDay - cache[j].made <= days} |-> cache[k]]
    /\ UNCHANGED <<memory, asking, askDay>>

AskerDies(a) == /\ asking[a] # NoAsk /\ Done(a) /\ UNCHANGED <<memory, cache, askDay>>

AskTomorrow ==
    /\ askDay < MaxAskDay
    /\ askDay' = askDay + 1
    /\ UNCHANGED <<memory, cache, asking>>

AnswersNext ==
    \/ \E a \in Askers, mode \in Modes : Ask(a, mode)
    \/ \E a \in Askers, floor \in BOOLEAN : Escalate(a, floor)
    \/ \E a \in Askers : \/ FloorSuffices(a) \/ NothingAnswers(a)
                         \/ ModelAnswers(a) \/ ModelFails(a) \/ AskerDies(a)
    \/ \E o \in Notes, w \in Wordings : Write(o, w)
    \/ \E o \in Notes : Erase(o)
    \/ \E days \in {-1, 0} : ClearOlderThan(days)
    \/ AskTomorrow

AnswersSpec == AnswersInit /\ [][AnswersNext]_answerVars
-----------------------------------------------------------------------------
(* "A stale answer cannot be served: if it could be stale, the key already *)
(* moved", as far as wording goes: what the cache would serve now was made *)
(* from the very objects, saying the very words, that are found now, and   *)
(* on the rung of the ladder that is asked for; and that whatever was      *)
(* written while the answer was being made.                                *)
ServedAnswersAreCurrent ==
    \A mode \in Modes : Served(KeyOf(memory, RungOf(mode))) =>
        /\ Serves(mode).from = memory
        /\ Serves(mode).rung = RungOf(mode)
=============================================================================
