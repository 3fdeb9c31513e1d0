------------------------------ MODULE Gateway ------------------------------
(***************************************************************************)
(* src/intelligence/gateway.js: the one doorway from a capability to       *)
(* memory.  A capability proposes; the gateway validates, and applies only *)
(* what is accepted, with a derivation row that says where it came from.   *)
(*                                                                         *)
(* Several processes (the server and a command line) may open the same     *)
(* database: core/db.js waits five seconds for a busy one.  propose() and  *)
(* reject() are one transaction each.  accept() reads the proposal and     *)
(* validates it again outside any transaction, and writes in another one,  *)
(* so it is two steps: BeginAccept and then RefuseAccept, FinishAccept or  *)
(* AbandonAccept.  JavaScript runs both without a break, so the process    *)
(* itself does nothing in between; others may.                             *)
(***************************************************************************)
EXTENDS Relations

CONSTANTS ProposalIds, Processes, Idle

(* What accept() holds between its two steps. *)
Held == [id : ProposalIds, valid : BOOLEAN]

ASSUME IdleAssumption == Idle \notin Held

(* An identifier says what it is of: obj_... or rel_... (core/ids.js). *)
ASSUME IdsAssumption == ObjectIds \cap RelationIds = {}

(* A person writes as "user", or captures as "source". *)
ASSUME OriginsAssumption == {"user", "source"} \subseteq Origins

VARIABLES proposal,    \* table proposal: id -> its row, for the ids recorded
          derivation,  \* derivation rows of capabilities: <<subject, version>>
          evidence,    \* table evidence: <<target_kind, target_id, what it cites>>
          conflict,    \* table conflict: the pairs with an open one; the second may be missing
          effects,     \* ghost: how often each proposal was applied
          accepting    \* process -> what its accept() holds, or Idle

gatewayVars == <<proposal, derivation, evidence, conflict, effects, accepting>>
vars == <<memoryVars, gatewayVars>>

Ops == {"create_object", "update_object", "set_attributes", "create_relation",
        "link_evidence", "flag_conflict"}
Statuses == {"pending", "accepted", "rejected", "invalid", "expired"}

(* Evidence cites another object or a source, which nothing ever erases. *)
Cited == ObjectIds \cup {NoObject}
TargetKinds == {"object", "relation"}

(* What a capability may ask for.  A patch or a set of attributes is the   *)
(* content it leads to; a patch of any field outside UPDATABLE_FIELDS is   *)
(* refused by its name alone and is left out.  Evidence says what kind of  *)
(* thing it is about, though validate() only lets an object be named; a    *)
(* conflict may have one side only (other is then NoObject).               *)
Payloads ==
         [op : {"create_object"}, content : Contents, origin : Origins, cites : BOOLEAN]
    \cup [op : {"update_object", "set_attributes"}, target : ObjectIds, content : Contents]
    \cup [op : {"create_relation"}, target : ObjectIds, other : ObjectIds, type : Types,
           origin : Origins, note : Notes]
    \cup [op : {"link_evidence"}, kind : TargetKinds, target : ObjectIds, cites : Cited]
    \cup [op : {"flag_conflict"}, target : ObjectIds, other : Cited]

Recorded == DOMAIN proposal
(* Mutant: whatever was ever valid may be decided again. *)
EverValid == {q \in Recorded : proposal[q].status # "invalid"}

Pending == {q \in Recorded : proposal[q].status = "pending"}
-----------------------------------------------------------------------------
(* Mutant: nobody asks whether a human confirmed the target. *)
ConfirmationIgnored(i) == FALSE

HumanConfirmed(i) == object[i].origin = "user" /\ object[i].review = "confirmed"

(* Mutant: nobody asks whether a human asserted the edge. *)
AssertionIgnored(src, type, dst) == FALSE

HumanAsserted(src, type, dst) ==
    \E r \in ActiveEdges(src, type, dst) : relation[r].origin = "user"

(* Mutant: the second side of a conflict is taken on trust. *)
FirstPresent(i, j) == i \in Present

BothPresent(i, j) == i \in Present /\ j \in Present \cup {NoObject}

(* validate(): the gate, evaluated on memory as it is now. *)
Valid(p) ==
    \/ p.op = "create_object" /\ p.origin # "user"
    \/ /\ p.op = "update_object" /\ p.target \in Present
       /\ ~HumanConfirmed(p.target)
       /\ object[p.target].state # "deleted"
    \/ /\ p.op = "set_attributes" /\ p.target \in Present
       /\ ~HumanConfirmed(p.target)
    \/ /\ p.op = "create_relation" /\ CanRelate(p.target, p.other)
       /\ ~HumanAsserted(p.target, p.type, p.other)
    \/ p.op = "link_evidence" /\ p.target \in Present /\ p.cites \in Present \cup {NoObject}
    \/ p.op = "flag_conflict" /\ BothPresent(p.target, p.other)

(* applyOp() throws, and the transaction around it is rolled back.  What   *)
(* evidence is about, and the two sides of a conflict, have no foreign key.*)
Throws(p) ==
    \/ /\ p.op \in {"update_object", "set_attributes"}
       /\ p.target \in Present => object[p.target].state = "deleted"
    \/ /\ p.op = "create_relation"
       /\ \/ ~CanRelate(p.target, p.other)
          \/ Blocked(p.target, p.type, p.other, p.origin)
    \/ p.op = "link_evidence" /\ p.cites \notin Present \cup {NoObject}

(* applyOp(), by operation. *)
ApplyCreate(p) ==
    /\ p.op = "create_object"
    /\ \E i \in ObjectIds :
          /\ Create(i, p.content, p.origin)
          /\ derivation' = derivation \cup {<<i, 1>>}
          /\ evidence' = IF p.cites THEN evidence \cup {<<"object", i, NoObject>>} ELSE evidence
    /\ UNCHANGED <<relationVars, conflict>>

ApplyEdit(p) ==
    /\ p.op \in {"update_object", "set_attributes"}
    /\ p.target \in Present
    /\ LET next == [object[p.target] EXCEPT !.content = p.content]
       IN /\ Update(p.target, next, "edit", <<>>)
          /\ derivation' = IF Differs(object[p.target], next)
                             THEN derivation \cup {<<p.target, next.head_version + 1>>}
                             ELSE derivation
    /\ UNCHANGED <<relationVars, evidence, conflict>>

(* Only a new edge gets a derivation row: a reinforcement goes through     *)
(* relations.update, which records none.                                   *)
ApplyRelation(p) ==
    /\ p.op = "create_relation"
    /\ \E r \in RelationIds :
          \/ /\ Relate(r, p.target, p.type, p.other, p.origin, p.note, "capability")
             /\ derivation' = derivation \cup {<<r, 1>>}
          \/ /\ Reinforce(r, p.target, p.type, p.other, p.origin, p.note, "capability")
             /\ UNCHANGED derivation
    /\ UNCHANGED <<objectVars, evidence, conflict>>

ApplyEvidence(p) == /\ p.op = "link_evidence"
                    /\ p.cites \in Present \cup {NoObject}
                    /\ evidence' = evidence \cup {<<p.kind, p.target, p.cites>>}
                    /\ UNCHANGED <<memoryVars, derivation, conflict>>

(* recordConflict() finds the open conflict of the pair or opens one. *)
ApplyConflict(p) == /\ p.op = "flag_conflict"
                    /\ conflict' = conflict \cup {<<p.target, p.other>>}
                    /\ UNCHANGED <<memoryVars, derivation, evidence>>

ApplyOp(p) == \/ ApplyCreate(p) \/ ApplyEdit(p) \/ ApplyRelation(p)
              \/ ApplyEvidence(p) \/ ApplyConflict(p)

Decide(q, status) == proposal' = [proposal EXCEPT ![q].status = status]

Apply(q) == /\ ApplyOp(proposal[q].payload)
            /\ Decide(q, "accepted")
            /\ effects' = [effects EXCEPT ![q] = @ + 1]
-----------------------------------------------------------------------------
AutoAccepted(p, sure) == sure /\ p.op \in {"link_evidence", "flag_conflict", "set_attributes"}

Insert(q, p, status) ==
    proposal' = [r \in Recorded \cup {q} |->
                    IF r = q THEN [payload |-> p, status |-> status] ELSE proposal[r]]

(* propose(): recorded as pending or invalid ... *)
Propose(a, q, p, sure) ==
    /\ accepting[a] = Idle
    /\ q \notin Recorded
    /\ ~(Valid(p) /\ AutoAccepted(p, sure))
    /\ Insert(q, p, IF Valid(p) THEN "pending" ELSE "invalid")
    /\ UNCHANGED <<memoryVars, derivation, evidence, conflict, effects, accepting>>

(* ... or accepted by policy in the same transaction; were applyOp to      *)
(* throw there, the proposal would not be recorded either.                 *)
ProposeAccepted(a, q, p) ==
    /\ accepting[a] = Idle
    /\ q \notin Recorded
    /\ Valid(p) /\ AutoAccepted(p, TRUE) /\ ~Throws(p)
    /\ ApplyOp(p)
    /\ Insert(q, p, "accepted")
    /\ effects' = [effects EXCEPT ![q] = @ + 1]
    /\ UNCHANGED accepting

(* accept(), up to its first write. *)
BeginAccept(a, q) ==
    /\ accepting[a] = Idle
    /\ q \in Pending
    /\ accepting' = [accepting EXCEPT ![a] =
                        [id |-> q, valid |-> Valid(proposal[q].payload)]]
    /\ UNCHANGED <<memoryVars, proposal, derivation, evidence, conflict, effects>>

Accepting(a) == accepting[a] # Idle /\ accepting' = [accepting EXCEPT ![a] = Idle]

(* A proposal gone stale is marked invalid, outside any transaction. *)
RefuseAccept(a) ==
    /\ Accepting(a)
    /\ ~accepting[a].valid
    /\ Decide(accepting[a].id, "invalid")
    /\ UNCHANGED <<memoryVars, derivation, evidence, conflict, effects>>

(* The transaction of accept() does not look at the status again. *)
FinishAccept(a) ==
    /\ Accepting(a)
    /\ accepting[a].valid
    /\ ~Throws(proposal[accepting[a].id].payload)
    /\ Apply(accepting[a].id)

(* applyOp() threw: everything is as before, and the proposal is pending.  *)
AbandonAccept(a) ==
    /\ Accepting(a)
    /\ accepting[a].valid
    /\ Throws(proposal[accepting[a].id].payload)
    /\ UNCHANGED <<memoryVars, proposal, derivation, evidence, conflict, effects>>

(* Mutant: the word of the facade in the column of the gateway. *)
DeclineAsDeclined(a, q) ==
    /\ accepting[a] = Idle
    /\ q \in Pending
    /\ Decide(q, "declined")
    /\ UNCHANGED <<memoryVars, derivation, evidence, conflict, effects, accepting>>

(* reject() *)
Decline(a, q) ==
    /\ accepting[a] = Idle
    /\ q \in Pending
    /\ Decide(q, "rejected")
    /\ UNCHANGED <<memoryVars, derivation, evidence, conflict, effects, accepting>>

(* expireStale(): the pending proposals older than a cut-off, in one go. *)
ExpireStale(a) ==
    /\ accepting[a] = Idle
    /\ \E stale \in SUBSET Pending \ {{}} :
          proposal' = [q \in Recorded |-> IF q \in stale
                                           THEN [proposal[q] EXCEPT !.status = "expired"]
                                           ELSE proposal[q]]
    /\ UNCHANGED <<memoryVars, derivation, evidence, conflict, effects, accepting>>

ResolveConflict(a, c) ==
    /\ accepting[a] = Idle
    /\ c \in conflict
    /\ conflict' = conflict \ {c}
    /\ UNCHANGED <<memoryVars, proposal, derivation, evidence, effects, accepting>>

(* What a person does to memory meanwhile, through the facade: write down, *)
(* capture a source, and whatever else objects.js offers.                  *)
PersonWrites(i) ==
    /\ \/ \E c \in Contents, o \in {"user", "source"} : Create(i, c, o)
       \/ Edit(i) \/ Confirm(i) \/ Reject(i) \/ Archive(i) \/ Restore(i) \/ Remove(i)
       \/ \E new \in ObjectIds : Supersede(i, new)
    /\ UNCHANGED <<relationVars, derivation, evidence, conflict>>

PersonConnects(r) ==
    /\ \/ \E src, dst \in ObjectIds, t \in Types, n \in Notes :
             \/ Relate(r, src, t, dst, "user", n, "user")
             \/ Reinforce(r, src, t, dst, "user", n, "user")
       \/ Retract(r, "user")
       \/ ConfirmRelation(r, "user")
    /\ UNCHANGED <<objectVars, derivation, evidence, conflict>>

(* purge(), in all the tables it empties.  Evidence filed under another    *)
(* kind than "object" stays, though it names the object.                   *)
PersonErases(i) ==
    /\ Purge(i)
    /\ PurgeEdges(i)
    /\ derivation' = {d \in derivation : d[1] # i}
    /\ evidence' = {e \in evidence : <<e[1], e[2]>> # <<"object", i>> /\ e[3] # i}
    /\ conflict' = {c \in conflict : i \notin {c[1], c[2]}}

Person(a) == /\ accepting[a] = Idle
             /\ \/ \E i \in ObjectIds : PersonWrites(i) \/ PersonErases(i)
                \/ \E r \in RelationIds : PersonConnects(r)
             /\ UNCHANGED <<proposal, effects, accepting>>

Init == /\ ObjectInit /\ RelationInit
        /\ proposal = [q \in {} |-> Idle]
        /\ derivation = {} /\ evidence = {} /\ conflict = {}
        /\ effects = [q \in ProposalIds |-> 0]
        /\ accepting = [a \in Processes |-> Idle]

(* The clock stands still here: nothing the gateway does depends on it.    *)
Next == \E a \in Processes :
           \/ Person(a)
           \/ \E q \in ProposalIds, p \in Payloads :
                 \/ \E sure \in BOOLEAN : Propose(a, q, p, sure)
                 \/ ProposeAccepted(a, q, p)
           \/ \E q \in ProposalIds : BeginAccept(a, q) \/ Decline(a, q)
           \/ RefuseAccept(a) \/ FinishAccept(a) \/ AbandonAccept(a)
           \/ ExpireStale(a)
           \/ \E c \in conflict : ResolveConflict(a, c)

Spec == Init /\ [][Next]_vars
-----------------------------------------------------------------------------
(* The tables of the gateway, on top of those of objects and relations. *)
GatewayTypeOK ==
    /\ ObjectTypeOK /\ RelationTypeOK
    /\ Recorded \subseteq ProposalIds
    /\ \A q \in Recorded : /\ proposal[q].payload \in Payloads
                            /\ proposal[q].status \in Statuses
    /\ derivation \subseteq (ObjectIds \cup RelationIds) \X Nat
    /\ evidence \subseteq TargetKinds \X ObjectIds \X Cited
    /\ conflict \subseteq ObjectIds \X Cited
    /\ effects \in [ProposalIds -> Nat]
    /\ accepting \in [Processes -> Held \cup {Idle}]

(* INVARIANT 6: what a human asserted about two objects is never           *)
(* overwritten or retracted by anything but a human.                       *)
HumanEdgesStand ==
    \A r \in Edges : \A n \in 2..Len(relation_version[r]) :
        relation_version[r][n-1].origin = "user" =>
            relation_version[r][n].actor_kind = "user"

(* INVARIANT 4: no version a capability wrote follows one that a human     *)
(* wrote and confirmed; whatever a stale proposal says, the human's words  *)
(* are rewritten by the human only.                                        *)
HumanWordStands ==
    \A i \in Present : \A n \in 2..object[i].head_version :
        <<i, n>> \in derivation =>
            ~(/\ object_version[i][n-1].origin = "user"
              /\ object_version[i][n-1].review = "confirmed")

(* Whatever went stale between a proposal and its acceptance, what humans  *)
(* asserted and what they confirmed stays theirs to change.                *)
HumanWorkStands == HumanEdgesStand /\ HumanWordStands

(* A proposal is applied exactly when it is accepted, and never twice. *)
AppliedIffAccepted ==
    \A q \in ProposalIds :
        effects[q] = IF q \in Recorded /\ proposal[q].status = "accepted" THEN 1 ELSE 0

(* Provenance, evidence about objects and open conflicts are about objects *)
(* that exist, and nothing cites one that is gone, though no foreign key   *)
(* says so of what they are about: only validate() and purge() see to it.  *)
(* (Neither evidence filed under "relation" nor the derivations of edges   *)
(* that go with an object are kept so: see PersonErases.)                  *)
NothingIsOrphaned ==
    /\ \A d \in derivation : d[1] \in ObjectIds =>
          d[1] \in Present /\ d[2] <= object[d[1]].head_version
    /\ \A e \in evidence : /\ e[1] = "object" => e[2] \in Present
                          /\ e[3] \in Present \cup {NoObject}
    /\ conflict \subseteq Present \X (Present \cup {NoObject})

(* A decision is final: what was accepted, rejected, expired or found      *)
(* invalid is never anything else again.                                   *)
Final == \A q \in Recorded : /\ q \in Recorded'
                              /\ proposal[q].status # "pending" => proposal'[q] = proposal[q]
                              /\ proposal'[q].payload = proposal[q].payload

DecisionsAreFinal == [][Final]_vars
=============================================================================
