------------------------------ MODULE Concepts ------------------------------
(***************************************************************************)
(* proposeConcepts() of src/chitraq.js over src/core/concepts.js: phrases  *)
(* that recur in what is remembered, and those a model names, are put to a *)
(* person as proposals, through the gateway and never accepted for them.   *)
(*                                                                         *)
(* What recurs is looked up before the model is waited for, so searches    *)
(* overlap each other and everything a person does meanwhile.              *)
(***************************************************************************)
EXTENDS Integers, Sequences, FiniteSets

CONSTANTS Phrases,       \* phrases somebody may use
          Texts,         \* objects they may be mentions in
          Searches,      \* searches that may run at once
          MinDocuments,  \* objects a phrase has to recur in
          MaxTurns       \* bound: what people do meanwhile

ASSUME ConceptsAssumption == MinDocuments \in Nat \ {0} /\ MaxTurns \in Nat

VARIABLES mentions,     \* phrase -> the active objects, none rejected, it is mentions in
          idea,     \* phrase -> the statuses of its proposals, in order
          concept,  \* phrase -> the entity made of it
          search,   \* where a search is
          turns     \* how much people have done

conceptVars == <<mentions, idea, concept, search, turns>>

Unasked == [at |-> "rest"]
Asking == [at : {"asking"}, found : SUBSET Phrases]

ConceptsTypeOK ==
    /\ mentions \in [Phrases -> SUBSET Texts]
    /\ \A ph \in Phrases : idea[ph] \in Seq({"pending", "accepted", "rejected", "expired"})
    /\ concept \in [Phrases -> {"none", "active", "renamed", "deleted"}]
    /\ \A s \in Searches : search[s] \in {Unasked} \cup Asking
    /\ turns \in 0..MaxTurns
-----------------------------------------------------------------------------
(* candidates(): what recurs in enough objects, unless an entity is called *)
(* that, in whatever state the entity is.                                  *)
Candidates == {ph \in Phrases : /\ Cardinality(mentions[ph]) >= MinDocuments
                                /\ concept[ph] \notin {"active", "deleted"}}

(* Mutant: only an entity that is there counts. *)
KnownByName(ph) == concept[ph] \in {"active"}

(* #conceptAlreadyKnown(): an entity that is there, or a proposal that     *)
(* waits or was declined.  One that was accepted or expired does not count.*)
AlreadyKnown(ph) == \/ concept[ph] = "active"
                    \/ \E n \in DOMAIN idea[ph] : idea[ph][n] \in {"pending", "rejected"}

BeginConcepts(s) ==
    /\ search[s] = Unasked
    /\ search' = [search EXCEPT ![s] = [at |-> "asking", found |-> Candidates]]
    /\ UNCHANGED <<mentions, idea, concept, turns>>

(* The model has answered, or there is none; of what recurred and what it  *)
(* names, each phrase not known by now is proposed.                        *)
ConceptsAnswered(s, named) ==
    /\ search[s] # Unasked
    /\ idea' = [ph \in Phrases |->
                   IF ph \in search[s].found \cup named /\ ~AlreadyKnown(ph)
                   THEN Append(idea[ph], "pending") ELSE idea[ph]]
    /\ search' = [search EXCEPT ![s] = Unasked]
    /\ UNCHANGED <<mentions, concept, turns>>
-----------------------------------------------------------------------------
Turn == turns < MaxTurns /\ turns' = turns + 1 /\ UNCHANGED search

(* What is remembered comes to use a phrase, or does so no longer.         *)
Use(ph, texts) == /\ Turn
                  /\ texts # mentions[ph]
                  /\ mentions' = [mentions EXCEPT ![ph] = texts]
                  /\ UNCHANGED <<idea, concept>>

(* A concept is accepted, declined, or left for so long that it expires.   *)
DecideConcept(ph, status) ==
    /\ Turn
    /\ \E n \in DOMAIN idea[ph] : /\ idea[ph][n] = "pending"
                                  /\ idea' = [idea EXCEPT ![ph][n] = status]
    /\ concept' = IF status = "accepted" THEN [concept EXCEPT ![ph] = "active"] ELSE concept
    /\ UNCHANGED mentions

(* The entity is given another name, forgotten, or brought back.           *)
AlterConcept(ph, state) == /\ Turn
                           /\ concept[ph] \notin {"none", state}
                           /\ concept' = [concept EXCEPT ![ph] = state]
                           /\ UNCHANGED <<mentions, idea>>

ConceptsInit == /\ mentions = [ph \in Phrases |-> {}]
                /\ idea = [ph \in Phrases |-> <<>>]
                /\ concept = [ph \in Phrases |-> "none"]
                /\ search = [s \in Searches |-> Unasked]
                /\ turns = 0

ConceptsNext ==
    \/ \E s \in Searches : \/ BeginConcepts(s)
                           \/ \E named \in SUBSET Phrases : ConceptsAnswered(s, named)
    \/ \E ph \in Phrases :
          \/ \E texts \in SUBSET Texts : Use(ph, texts)
          \/ \E status \in {"accepted", "rejected", "expired"} : DecideConcept(ph, status)
          \/ \E state \in {"active", "renamed", "deleted"} : AlterConcept(ph, state)

ConceptsSpec == ConceptsInit /\ [][ConceptsNext]_conceptVars
-----------------------------------------------------------------------------
(* "Already suggested and already declined stays declined": whatever runs  *)
(* overlap while a model is waited for, a phrase is put to a person once   *)
(* at a time, and not again after a no.                                    *)
ConceptsAreDecidedOnce ==
    \A ph \in Phrases :
        \A m, n \in DOMAIN idea[ph] : m < n => idea[ph][m] \notin {"pending", "rejected"}
=============================================================================
