----------------------------- MODULE MCServices -----------------------------
(* TLC instance of the services around the memory, each with state of its  *)
(* own.  They share nothing, so one run takes them one at a time: the      *)
(* first state names the part that moves and the others rest, which makes  *)
(* the state space the sum of the parts' and not their product.            *)
EXTENDS Vault, Sessions, Routing, Answers, Watch, Daemon, Transfer, Entities,
        Client, MCIngest, Concepts

MCRanking == <<"x", "y", "z">>
MCCost == [x |-> 2, y |-> 5, z |-> 0]
MCCanon == [s1 |-> "ann", s2 |-> "anna", s3 |-> "ann lee"]

VARIABLE part  \* the service this behaviour is about

Parts == {"vault", "sessions", "routing", "answers", "watch", "daemon", "transfer", "entities",
          "client", "ingest", "concepts"}

ServicesInit ==
    /\ part \in Parts
    /\ VaultInit /\ SessionsInit /\ RoutingInit /\ AnswersInit
    /\ WatchInit /\ DaemonInit /\ TransferInit /\ EntitiesInit
    /\ ClientInit /\ IngestInit
    /\ ConceptsInit

RestOf == <<routingVars, answerVars, watchVars>>
RestTwo == <<daemonVars, transferVars, entityVars, clientVars, ingestVars, conceptVars>>

ServicesNext ==
    /\ UNCHANGED part
    /\ \/ /\ part = "vault" /\ VaultNext
          /\ UNCHANGED <<sessionVars, RestOf, RestTwo>>
       \/ /\ part = "sessions" /\ SessionsNext
          /\ UNCHANGED <<vaultVars, RestOf, RestTwo>>
       \/ /\ part = "routing" /\ RoutingNext
          /\ UNCHANGED <<vaultVars, sessionVars, answerVars, watchVars, RestTwo>>
       \/ /\ part = "answers" /\ AnswersNext
          /\ UNCHANGED <<vaultVars, sessionVars, routingVars, watchVars, RestTwo>>
       \/ /\ part = "watch" /\ WatchNext
          /\ UNCHANGED <<vaultVars, sessionVars, routingVars, answerVars, RestTwo>>
       \/ /\ part = "daemon" /\ DaemonNext
          /\ UNCHANGED <<vaultVars, sessionVars, RestOf, transferVars, entityVars,
                         clientVars, ingestVars, conceptVars>>
       \/ /\ part = "transfer" /\ TransferNext
          /\ UNCHANGED <<vaultVars, sessionVars, RestOf, daemonVars, entityVars,
                         clientVars, ingestVars, conceptVars>>
       \/ /\ part = "entities" /\ EntitiesNext
          /\ UNCHANGED <<vaultVars, sessionVars, RestOf, daemonVars, transferVars,
                         clientVars, ingestVars, conceptVars>>
       \/ /\ part = "client" /\ ClientNext
          /\ UNCHANGED <<vaultVars, sessionVars, RestOf, daemonVars, transferVars, entityVars,
                         ingestVars, conceptVars>>
       \/ /\ part = "ingest" /\ IngestNext
          /\ UNCHANGED <<vaultVars, sessionVars, RestOf, daemonVars, transferVars, entityVars,
                         clientVars, conceptVars>>
       \/ /\ part = "concepts" /\ ConceptsNext
          /\ UNCHANGED <<vaultVars, sessionVars, RestOf, daemonVars, transferVars, entityVars,
                         clientVars, ingestVars>>

servicesVars == <<part, vaultVars, sessionVars, RestOf, RestTwo>>

ServicesSpec == ServicesInit /\ [][ServicesNext]_servicesVars /\ DaemonFairness

(* The part that moves keeps to the values its variables are meant to have. *)
ServicesTypeOK ==
    \/ part = "vault" /\ VaultTypeOK
    \/ part = "sessions" /\ SessionsTypeOK
    \/ part = "routing" /\ RoutingTypeOK
    \/ part = "answers" /\ AnswersTypeOK
    \/ part = "watch" /\ WatchTypeOK
    \/ part = "daemon" /\ DaemonTypeOK
    \/ part = "transfer" /\ TransferTypeOK
    \/ part = "entities" /\ EntitiesTypeOK
    \/ part = "client" /\ ClientTypeOK
    \/ part = "ingest" /\ IngestTypeOK
    \/ part = "concepts" /\ ConceptsTypeOK
=============================================================================
