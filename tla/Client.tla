------------------------------- MODULE Client -------------------------------
(***************************************************************************)
(* src/client.js: a program that remembers things through a server which   *)
(* may be away.  A capture the server did not answer for is kept in memory *)
(* and sent again after the next call that gets through, or when asked.    *)
(*                                                                         *)
(* Calls run concurrently, as promises do, and each waits for one answer   *)
(* at a time.  Nobody tells a lost request from a lost answer: what was    *)
(* not answered for may be stored all the same.                            *)
(***************************************************************************)
EXTENDS Integers, Sequences, FiniteSets, SequencesExt

CONSTANTS Items,          \* what the program remembers, each in one call
          Callers,        \* calls under way at once
          MaxUnanswered   \* bound: flushes that leave an item unanswered

ASSUME ItemsAssumption == IsFiniteSet(Items)

VARIABLES outbox,       \* the queue, in memory and nowhere else
          caller,       \* where a call is
          replied,      \* items the server answered for, with yes or with no
          stored,       \* item -> how often the server stored it
          queued,       \* items the program was told are queued
          overwritten,  \* queued while a flush was out that came back with more
          silences      \* item -> how often it got no answer

clientVars == <<outbox, caller, replied, stored, queued, overwritten, silences>>

Quiet == [at |-> "rest"]
Calling == [at : {"remember"}, item : Items]
Flushing == [at : {"flush"}, waiting : Seq(Items), i : Nat]

ClientTypeOK ==
    /\ outbox \in Seq(Items)
    /\ \A c \in Callers : caller[c] \in {Quiet} \cup Calling \cup Flushing
    /\ replied \subseteq Items /\ queued \subseteq Items /\ overwritten \subseteq Items
    /\ stored \in [Items -> Nat] /\ silences \in [Items -> Nat]

Begun == replied \cup queued \cup {caller[c].item : c \in {d \in Callers : caller[d].at = "remember"}}

(* Mutant: a failure half way queues the copy again, from its beginning. *)
LeftOfAll(waiting, i) == waiting

(* What is left of the copy from the one that failed.                      *)
Left(waiting, i) == SubSeq(waiting, i, Len(waiting))
-----------------------------------------------------------------------------
(* remember(): while the call is out, other calls go on.                   *)
RememberItem(c, item) ==
    /\ caller[c] = Quiet /\ item \notin Begun
    /\ caller' = [caller EXCEPT ![c] = [at |-> "remember", item |-> item]]
    /\ UNCHANGED <<outbox, replied, stored, queued, overwritten, silences>>

(* #flush(): the queue is copied and emptied before anything is sent.      *)
BeginFlush(c) ==
    /\ caller' = [caller EXCEPT ![c] = IF outbox = <<>> THEN Quiet
                                       ELSE [at |-> "flush", waiting |-> outbox, i |-> 1]]
    /\ outbox' = <<>>

(* The server has answered: with yes, and the queue is sent as well, or    *)
(* with no, which the program gets to hear.                                *)
Answered(item, yes) ==
    /\ replied' = replied \cup {item}
    /\ stored' = IF yes THEN [stored EXCEPT ![item] = @ + 1] ELSE stored
    /\ UNCHANGED <<queued, overwritten, silences>>

RememberAnswered(c, yes) ==
    /\ caller[c].at = "remember"
    /\ Answered(caller[c].item, yes)
    /\ IF yes THEN BeginFlush(c)
              ELSE caller' = [caller EXCEPT ![c] = Quiet] /\ UNCHANGED outbox

(* No answer came, in time or at all; the item may be stored all the same. *)
Silence(item, yes) ==
    /\ stored' = IF yes THEN [stored EXCEPT ![item] = @ + 1] ELSE stored
    /\ silences' = [silences EXCEPT ![item] = @ + 1]
    /\ UNCHANGED replied

RememberUnanswered(c, yes) ==
    /\ caller[c].at = "remember"
    /\ Silence(caller[c].item, yes)
    /\ outbox' = Append(outbox, caller[c].item)
    /\ queued' = queued \cup {caller[c].item}
    /\ caller' = [caller EXCEPT ![c] = Quiet]
    /\ UNCHANGED overwritten

Flush(c) == /\ caller[c] = Quiet
            /\ BeginFlush(c)
            /\ UNCHANGED <<replied, stored, queued, overwritten, silences>>

(* What is refused is dropped like what is taken: it would be refused for  *)
(* ever.                                                                   *)
FlushAnswered(c, yes) ==
    /\ caller[c].at = "flush"
    /\ LET row == caller[c]
       IN /\ Answered(row.waiting[row.i], yes)
          /\ caller' = [caller EXCEPT ![c] = IF row.i = Len(row.waiting) THEN Quiet
                                             ELSE [row EXCEPT !.i = @ + 1]]
    /\ UNCHANGED outbox

(* The server is away again: what is left becomes the queue, in the place  *)
(* of what was queued since the copy was made.                             *)
FlushUnanswered(c, yes) ==
    /\ caller[c].at = "flush"
    /\ LET row == caller[c]
       IN /\ silences[row.waiting[row.i]] < MaxUnanswered
          /\ Silence(row.waiting[row.i], yes)
          /\ outbox' = Left(row.waiting, row.i)
          /\ overwritten' = overwritten \cup ToSet(outbox)
    /\ caller' = [caller EXCEPT ![c] = Quiet]
    /\ UNCHANGED queued

ClientInit == /\ outbox = <<>>
              /\ caller = [c \in Callers |-> Quiet]
              /\ replied = {} /\ queued = {} /\ overwritten = {}
              /\ stored = [item \in Items |-> 0]
              /\ silences = [item \in Items |-> 0]

ClientNext ==
    \E c \in Callers :
        \/ \E item \in Items : RememberItem(c, item)
        \/ Flush(c)
        \/ \E yes \in BOOLEAN : \/ RememberAnswered(c, yes) \/ RememberUnanswered(c, yes)
                                \/ FlushAnswered(c, yes) \/ FlushUnanswered(c, yes)

ClientSpec == ClientInit /\ [][ClientNext]_clientVars
-----------------------------------------------------------------------------
(* What a flush has still to send, and where an item waits to be sent.     *)
Sits(c, n, item) ==
    /\ caller[c].at = "flush"
    /\ n \in caller[c].i..Len(caller[c].waiting)
    /\ caller[c].waiting[n] = item

Waits(item) ==
    Cardinality({n \in DOMAIN outbox : outbox[n] = item})
      + Cardinality({w \in Callers \X (1..Cardinality(Items)) : Sits(w[1], w[2], item)})

(* "A copy, so a failure halfway leaves the rest queued rather than lost": *)
(* with calls and flushes overlapping in any way, what the program was     *)
(* told is queued waits in exactly one place until the server has answered *)
(* for it, and is never sent after that; so it is stored more often than   *)
(* once only if it went unanswered.  The one exception is what was queued  *)
(* while a flush was out that had to come back.                            *)
QueuedIsKeptUntilAnswered ==
    \A item \in Items :
        /\ Waits(item) = IF item \in queued \ (replied \cup overwritten) THEN 1 ELSE 0
        /\ stored[item] <= silences[item] + 1
=============================================================================
