------------------------ MODULE MCKnowledgeObjects ------------------------
(* TLC instance of what is remembered: the objects with their versions and *)
(* events, and the gateway through which capabilities write them.  The     *)
(* first state names the part that moves and the rest is still, so the     *)
(* state space is the sum of the two.                                      *)
EXTENDS Gateway, TLC

ObjectSymmetry == Permutations(ObjectIds) \cup Permutations(Contents) \cup Permutations(Notes)

VARIABLE part  \* what this behaviour is about

RememberedInit == part \in {"objects", "gateway"} /\ Init

(* Writing through the gateway stops an event earlier than without it.     *)
FewerEvents == LogSize + 1 >= MaxEvents => \A i \in Present' : event'[i] = event[i]

RememberedNext ==
    /\ UNCHANGED part
    /\ \/ part = "objects" /\ ObjectNext /\ UNCHANGED <<relationVars, gatewayVars>>
       \/ part = "gateway" /\ Next /\ FewerEvents

RememberedSpec == RememberedInit /\ [][RememberedNext]_<<part, vars>>
=============================================================================
