------------------------------ MODULE Entities ------------------------------
(***************************************************************************)
(* src/core/entities.js: names found in notes resolve to entities, and     *)
(* people merge the entities that turn out to be one.                      *)
(*                                                                         *)
(* Every operation is one transaction; what is hard is a long sequence of  *)
(* them.  Recognising a name is the extractor's business: a spelling comes *)
(* in with a type and is canonicalised.  Of the relations the active       *)
(* mentions are kept; how often an entity was mentioned is counted for     *)
(* show and left out, and so is the confidence that decides what is worth  *)
(* resolving.  Purging, and superseding an entity by anything but a merge, *)
(* are left out.                                                           *)
(***************************************************************************)
EXTENDS Naturals, FiniteSets, Sequences

CONSTANTS Notepads,     \* objects that mention names
          Spellings,    \* names as they are written
          Canon,        \* canonicalise: spelling -> name
          EntityTypes,  \* types an extractor gives
          MaxEntities,  \* bound: entities ever made
          MaxDeeds      \* bound: what people do with entities

ASSUME EntitiesAssumption == MaxEntities \in Nat /\ MaxDeeds \in Nat
ASSUME CanonAssumption == DOMAIN Canon = Spellings

VARIABLES entity,    \* objects of kind "entity", in the order they were created
          mention,   \* <<note, entity>>: the active relations of type "mentions"
          deeds,     \* how much people have done
          answered,  \* ghost: entity -> its names when it was merged, its title included
          forgotten, \* ghost: entity -> names that a merge of it left out, as it was renamed
          astray     \* ghost: entities of a merge into one put away

entityVars == <<entity, mention, deeds, answered, forgotten, astray>>

EntityIds == 1..MaxEntities
Made == DOMAIN entity
NoOne == 0
EntityNames == {Canon[s] : s \in Spellings}

EntityRow == [state : {"active", "archived", "superseded", "deleted"}, title : Spellings,
              type : EntityTypes, canonical : EntityNames, aliases : SUBSET Spellings,
              by : EntityIds \cup {NoOne}]

EntitiesTypeOK ==
    /\ entity \in Seq(EntityRow) /\ Made \subseteq EntityIds
    /\ mention \subseteq Notepads \X Made
    /\ deeds \in 0..MaxDeeds
    /\ answered \in [EntityIds -> SUBSET EntityNames]
    /\ forgotten \in [EntityIds -> SUBSET EntityNames]
    /\ astray \subseteq Made

EntitiesInit ==
    /\ entity = <<>> /\ mention = {}
    /\ deeds = 0
    /\ answered = [e \in EntityIds |-> {}] /\ forgotten = [e \in EntityIds |-> {}]
    /\ astray = {}
-----------------------------------------------------------------------------
InUse(e) == entity[e].state \in {"active", "archived"}

(* The names that find() knows an entity by.                               *)
NamesOf(e) == {entity[e].canonical} \cup {Canon[s] : s \in entity[e].aliases}

(* find(): those that are not put away and go by the name; the oldest wins. *)
FoundUnder(name, type) ==
    {e \in Made : InUse(e) /\ entity[e].type = type /\ name \in NamesOf(e)}
OldestEntity(S) == CHOOSE e \in S : \A d \in S : e <= d

NewEntity(spelling, type) ==
    [state |-> "active", title |-> spelling, type |-> type, canonical |-> Canon[spelling],
     aliases |-> {}, by |-> NoOne]

(* linkMentions() for one name of a note: resolve(), then relate.          *)
LinkMention(note, spelling, type) ==
    LET found == FoundUnder(Canon[spelling], type)
        made == Len(entity) + 1
    IN /\ \/ /\ found # {}
             /\ mention' = mention \cup {<<note, OldestEntity(found)>>}
             /\ UNCHANGED entity
          \/ /\ found = {} /\ made <= MaxEntities
             /\ mention' = mention \cup {<<note, made>>}
             /\ entity' = Append(entity, NewEntity(spelling, type))
       /\ UNCHANGED <<deeds, answered, forgotten, astray>>
-----------------------------------------------------------------------------
Deed == deeds < MaxDeeds /\ deeds' = deeds + 1

(* Mutant: a merge keeps the name of what it drops, not the other names that had. *)
AliasesWithoutTheirs(k, d) ==
    {s \in entity[k].aliases \cup {entity[d].title} : Canon[s] # Canon[entity[k].title]}

(* The aliases of k once d is merged into it.                              *)
AliasesWith(k, d) ==
    {s \in entity[k].aliases \cup {entity[d].title} \cup entity[d].aliases :
        Canon[s] # Canon[entity[k].title]}

(* A corrected title leaves the canonical name alone.                      *)
TitleOf(e) == Canon[entity[e].title]
IsRenamed(e) == TitleOf(e) # entity[e].canonical

(* merge(k, d): what mentioned d mentions k (once), the title and the      *)
(* aliases of d become aliases of k, and d is superseded.  Two names are   *)
(* left out when there was a renaming: the canonical name of d, which is   *)
(* not among those handed over, and the title of k, under which k is not   *)
(* found and which is not kept as an alias.  Updating a deleted object     *)
(* throws.                                                                 *)
Merge(k, d) ==
    /\ k # d /\ entity[k].state # "deleted" /\ entity[d].state # "deleted"
    /\ Deed
    /\ mention' = {<<m[1], IF m[2] = d THEN k ELSE m[2]>> : m \in mention}
    /\ entity' = [entity EXCEPT ![k].aliases = AliasesWith(k, d),
                                ![d].state = "superseded", ![d].by = k]
    /\ answered' = [answered EXCEPT ![d] = NamesOf(d) \cup {TitleOf(d)}]
    /\ forgotten' = [forgotten EXCEPT
                        ![d] = IF IsRenamed(d) THEN @ \cup {entity[d].canonical} ELSE @,
                        ![k] = IF IsRenamed(k) THEN @ \cup {TitleOf(k)} ELSE @]
    /\ astray' = IF InUse(k) THEN astray ELSE astray \cup {k, d}

AddAlias(e, spelling) ==
    /\ entity[e].state # "deleted" /\ spelling \notin entity[e].aliases
    /\ Deed
    /\ entity' = [entity EXCEPT ![e].aliases = @ \cup {spelling}]
    /\ UNCHANGED <<mention, answered, forgotten, astray>>

(* correct(): the title changes, the canonical name in attrs does not.     *)
RenameEntity(e, spelling) ==
    /\ entity[e].state # "deleted" /\ spelling # entity[e].title
    /\ Deed
    /\ entity' = [entity EXCEPT ![e].title = spelling]
    /\ UNCHANGED <<mention, answered, forgotten, astray>>

(* archive() and remove().                                                 *)
PutAway(e, state) ==
    /\ entity[e].state \notin {"deleted", state}
    /\ Deed
    /\ entity' = [entity EXCEPT ![e].state = state]
    /\ UNCHANGED <<mention, answered, forgotten, astray>>

(* restore(): back in use, though `by` stays.                              *)
BringBack(e) ==
    /\ entity[e].state # "active"
    /\ Deed
    /\ entity' = [entity EXCEPT ![e].state = "active"]
    /\ UNCHANGED <<mention, answered, forgotten, astray>>

(* unrelate().                                                             *)
Unmention(m) ==
    /\ Deed
    /\ mention' = mention \ {m}
    /\ UNCHANGED <<entity, answered, forgotten, astray>>

EntitiesNext ==
    \/ \E note \in Notepads, spelling \in Spellings, type \in EntityTypes :
           LinkMention(note, spelling, type)
    \/ \E k, d \in Made : Merge(k, d)
    \/ \E e \in Made, spelling \in Spellings : AddAlias(e, spelling) \/ RenameEntity(e, spelling)
    \/ \E e \in Made : PutAway(e, "archived") \/ PutAway(e, "deleted") \/ BringBack(e)
    \/ \E m \in mention : Unmention(m)

EntitiesSpec == EntitiesInit /\ [][EntitiesNext]_entityVars
-----------------------------------------------------------------------------
(* Who stands for e: what it was merged into, followed n times.            *)
Line(e) ==
    LET after[n \in 0..MaxEntities] ==
            IF n = 0 THEN e
            ELSE LET d == after[n - 1]
                 IN IF entity[d].state = "superseded" /\ d \notin astray THEN entity[d].by ELSE d
    IN after

ForgottenAlong(line) == UNION {forgotten[line[n]] : n \in DOMAIN line}

(* An entity that was merged into one in use is replaced for good: nothing *)
(* mentions it any more, and as long as the entity it ended up in is in    *)
(* use, through whatever merges followed, that one answers to every name   *)
(* it had and to its title.  Not to all of them where somebody on the way  *)
(* was renamed: merge() says that "its names become aliases", but leaves   *)
(* out the two that Merge tells, and only those may be lost.               *)
MergedEntitiesAreReplaced ==
    \A e \in Made \ astray : entity[e].state = "superseded" =>
        /\ \A m \in mention : m[2] # e
        /\ LET k == Line(e)[MaxEntities]
           IN InUse(k) /\ k \notin astray =>
                 answered[e] \ ForgottenAlong(Line(e)) \subseteq NamesOf(k)
=============================================================================
