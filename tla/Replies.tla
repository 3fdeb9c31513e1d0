------------------------------ MODULE Replies ------------------------------
(***************************************************************************)
(* What the adapters of src/intelligence/providers/ let through of what a  *)
(* model says: openai-compatible.js, anthropic.js and ollama.js ask,       *)
(* grounded.js and ollama.js read the reply.  The host may reply anything  *)
(* that parses; wording, prompts and schemas are left out.                 *)
(*                                                                         *)
(* `mode` is the schemaMode of one adapter, shared by the asks that        *)
(* overlap: a host that refuses a schema is asked for plain JSON at once.  *)
(***************************************************************************)
EXTENDS Integers, Sequences, FiniteSets
LOCAL INSTANCE SequencesExt
LOCAL INSTANCE FiniteSetsExt

CONSTANTS Hosts,       \* the adapters: "compatible", "claude", "ollama"
          Asks,        \* asks that may be under way at once
          Wanted,      \* how many texts are embedded at once
          Supplied,    \* the notes a search for ideas is given, by number
          Limit,       \* claims, and ideas, that are let through at most
          Replies      \* what a model may reply, by capability

ASSUME RepliesAssumption ==
    /\ Hosts \subseteq {"compatible", "claude", "ollama"}
    /\ Wanted \in Nat \ {0} /\ Supplied \in Nat /\ Limit \in Nat

VARIABLES host,  \* the adapter asked
          mode,  \* "unknown", "schema" or "object"
          ask,   \* ask -> what it waits for
          said   \* the reply being handed on: what was said, what it gives

replyVars == <<host, mode, ask, said>>

NothingSaid == [capability |-> "none"]
NotAsked == [at |-> "rest"]

Capabilities(h) == CASE h = "compatible" -> DOMAIN Replies
                     [] h = "claude"     -> DOMAIN Replies \ {"embedText"}
                     [] h = "ollama"     -> {"embedText", "answer", "extractClaims"}
-----------------------------------------------------------------------------
(* clamp(), in tenths: what is no number is none, and a default stands in. *)
Clamped(number, default) == IF number = <<>> THEN default ELSE Max({0, Min({10, number[1]})})

(* An answer a model does not call grounded is none; a local model's word  *)
(* on that is not taken, only its answer, and the brackets of its          *)
(* citations go.                                                           *)
GroundedAnswer(r) == [answer |-> r.grounded /\ r.answer, grounded |-> r.grounded, citations |-> r.citations]
LocalAnswer(r) == [answer |-> r.answer, grounded |-> r.answer,
                   citations |-> IF r.answer THEN SelectSeq(r.citations, LAMBDA c : c # "") ELSE <<>>]

(* What is no claim is dropped, and of the rest no more than asked for.    *)
Cut(sifted) == SubSeq(sifted, 1, Min({Limit, Len(sifted)}))
Claims(r) == Cut(SelectSeq(r, LAMBDA c : c.long))

Conflict(r) == [contradicts |-> r.contradicts, confidence |-> Clamped(r.confidence, 0)]

(* Types nobody knows are dropped; the place is looked up in the text, and *)
(* a name that is not there is placed at its beginning.                    *)
Entities(r) ==
    LET known == SelectSeq(r, LAMBDA e : e.known)
    IN [n \in DOMAIN known |-> [offset |-> Max({1, known[n].place}),
                                confidence |-> Clamped(known[n].confidence, 6)]]

(* Mutant: a note is taken as cited whether it was supplied or not. *)
SupportAsCited(idea) == idea.supports

(* The notes an idea is said to rest on, those that were supplied.         *)
Support(idea) == SelectSeq(idea.supports, LAMBDA n : n \in 1..Supplied)

(* Ideas with a name of some length that rest on two citations, if only of *)
(* one note, each name once; with fewer than three notes nobody is asked.                      *)
Backed(idea) == idea.phrase # "" /\ Len(Support(idea)) >= 2
Ideas(r) ==
    LET read == [n \in DOMAIN r |-> [phrase |-> r[n].phrase, supports |-> Support(r[n]),
                                     fresh |-> Backed(r[n]) /\ \A k \in 1..(n - 1) :
                                         Backed(r[k]) => r[k].phrase # r[n].phrase]]
    IN IF Supplied < 3 THEN <<>> ELSE Cut(SelectSeq(read, LAMBDA c : c.fresh))

(* Mutant: vectors are taken in the order they came. *)
AsTheyCame(rows) == rows

(* Vectors are put in the order of their index; a row without one counts   *)
(* as the first, and rows of one index keep their order.                   *)
InOrder(rows) ==
    LET Before(k, n) == \/ rows[k].index < rows[n].index
                        \/ rows[k].index = rows[n].index /\ k < n
        rank(n) == Cardinality({k \in DOMAIN rows : Before(k, n)}) + 1
    IN [place \in DOMAIN rows |-> rows[CHOOSE n \in DOMAIN rows : rank(n) = place]]

Vectors(rows) == SelectSeq(InOrder(rows), LAMBDA row : row.vector)

(* What a reply gives.  Ollama's vectors come in order and are not counted.*)
Read(capability, r) ==
    CASE capability = "answer"           -> IF host = "ollama" THEN LocalAnswer(r) ELSE GroundedAnswer(r)
      [] capability = "extractClaims"   -> Claims(r)
      [] capability = "detectConflict"  -> Conflict(r)
      [] capability = "extractEntities" -> Entities(r)
      [] capability = "proposeConcepts" -> Ideas(r)
      [] capability = "embedText"       -> IF host = "ollama" THEN r ELSE Vectors(r)

(* A reply that is an error of its own: nothing embedded, or not as many   *)
(* as there were texts.                                                    *)
Unusable(capability, r) ==
    /\ capability = "embedText"
    /\ IF host = "ollama" THEN r = <<>> ELSE Len(Vectors(r)) # Wanted
-----------------------------------------------------------------------------
RepliesInit ==
    /\ host \in Hosts
    /\ mode = "unknown"
    /\ ask = [a \in Asks |-> NotAsked]
    /\ said = NothingSaid

(* ask(): with a schema unless the host has refused one.  Vectors are not  *)
(* asked for through it.                                                   *)
Ask(a, capability) ==
    /\ ask[a] = NotAsked
    /\ capability \in Capabilities(host)
    /\ ask' = [ask EXCEPT ![a] = [at |-> "host", capability |-> capability,
                                  strict |-> mode # "object"]]
    /\ UNCHANGED <<host, mode, said>>

(* Only a compatible host is asked twice, and only for refusing the format.*)
Refusable(a) == host = "compatible" /\ ask[a].strict /\ ask[a].capability # "embedText"

HostRefusesFormat(a) ==
    /\ ask[a] # NotAsked /\ Refusable(a)
    /\ mode' = "object"
    /\ ask' = [ask EXCEPT ![a].strict = FALSE]
    /\ UNCHANGED <<host, said>>

(* A reply arrives that parses.  One given to a schema says that schemas   *)
(* are understood, whatever another ask has found out since.               *)
HostReplies(a, r) ==
    /\ ask[a] # NotAsked
    /\ r \in Replies[ask[a].capability]
    /\ mode' = IF Refusable(a) THEN "schema" ELSE mode
    /\ ask' = [ask EXCEPT ![a] = NotAsked]
    /\ said' = IF Unusable(ask[a].capability, r) THEN NothingSaid
               ELSE [capability |-> ask[a].capability, reply |-> r, gives |-> Read(ask[a].capability, r)]
    /\ UNCHANGED host

(* No host, a wrong key, a refusal, too many tokens, or no JSON: the ask   *)
(* fails, and the router goes on to another provider.                      *)
HostFails(a) ==
    /\ ask[a] # NotAsked
    /\ ask' = [ask EXCEPT ![a] = NotAsked]
    /\ UNCHANGED <<host, mode, said>>

(* Whoever asked has it, before anything else happens.                     *)
HandedOn == said' = NothingSaid /\ UNCHANGED <<host, mode, ask>>

RepliesNext ==
    \/ /\ said = NothingSaid
       /\ \E a \in Asks :
             \/ \E capability \in DOMAIN Replies : Ask(a, capability)
             \/ HostRefusesFormat(a)
             \/ ask[a] # NotAsked /\ \E r \in Replies[ask[a].capability] : HostReplies(a, r)
             \/ HostFails(a)
    \/ said # NothingSaid /\ HandedOn

RepliesSpec == RepliesInit /\ [][RepliesNext]_replyVars

RepliesTypeOK ==
    /\ host \in Hosts
    /\ mode \in {"unknown", "schema", "object"}
    /\ \A a \in Asks : ask[a] = NotAsked \/ ask[a].capability \in Capabilities(host)
    /\ said = NothingSaid \/ said.capability \in Capabilities(host)
-----------------------------------------------------------------------------
(* A host that says which text a vector is of may answer in any order: no  *)
(* text ever gets the vector of another ("silently worse search forever"). *)
VectorsAreOfTheirTexts ==
    /\ host = "compatible" /\ said.capability = "embedText"
    /\ \A n \in DOMAIN said.reply : said.reply[n].index = said.reply[n].of
    => \A n \in DOMAIN said.gives : said.gives[n].of = n

(* "A citation that does not point at a supplied note is the failure that  *)
(* matters here": an idea rests on two citations of supplied notes and on  *)
(* no others, and is told once.  They may be of one note, which is counted *)
(* twice though "one mention is a remark".                                 *)
IdeasRestOnSupplied ==
    said.capability = "proposeConcepts" =>
        \A n \in DOMAIN said.gives :
            /\ Len(said.gives[n].supports) >= 2
            /\ ToSet(said.gives[n].supports) \subseteq 1..Supplied
            /\ \A k \in 1..(n - 1) : said.gives[k].phrase # said.gives[n].phrase

(* What is no claim never takes the place of one: as many claims are let   *)
(* through as there are, or as were asked for.                             *)
ClaimsAreNotCrowdedOut ==
    said.capability = "extractClaims" =>
        Len(said.gives) = Min({Limit, Cardinality({n \in DOMAIN said.reply : said.reply[n].long})})

(* Of what a model says, what gets through rests on what it was given.     *)
RepliesRestOnWhatWasGiven == VectorsAreOfTheirTexts /\ IdeasRestOnSupplied /\ ClaimsAreNotCrowdedOut
=============================================================================
