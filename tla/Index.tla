------------------------------- MODULE Index -------------------------------
(***************************************************************************)
(* src/retrieval/indexer.js and the calls src/chitraq.js makes of it: the  *)
(* search index, derived from the objects, and what happens to it while an *)
(* embedder is awaited.                                                    *)
(*                                                                         *)
(* One process.  An operation of the facade runs without a break up to its *)
(* first await: it changes the object and writes its chunks, and only then *)
(* waits for the embedder, while other operations run.  What is waited for *)
(* is a job.  reviewAll() and rebuild() are loops with such a wait in each *)
(* round, and run on from one wait to the next.                            *)
(*                                                                         *)
(* An object's text is its title and body cut into pieces by chunk(); each *)
(* piece stands for one term of term_stat.  A chunk stands for its row of  *)
(* chunk_fts as well, which the same transactions write.  A chunk          *)
(* identifier nothing refers to any more is as good as a fresh one.        *)
(***************************************************************************)
EXTENDS Naturals, Sequences, FiniteSets, SequencesExt

CONSTANTS ObjectIds, Texts,
          States,      \* the object states in play
          MaxPieces,   \* bound: pieces of one object
          MaxCount,    \* bound: what term_stat counts of one term
          MaxJobs,     \* bound: embeddings awaited at once
          ChunkIds,    \* bound: the chunk identifiers in use at once
          NoRebuild, NoAnn,
          WorthFitting, \* whether the memory is large enough for an approximate index
          Faults       \* subset of {"embedder", "restart", "overlap"}: embedders
                       \* that fail, restarts, operations during a rebuild

ASSUME PiecesAssumption == MaxPieces \in Nat \ {0}
ASSUME ChunkIdsAssumption == IsFiniteSet(ChunkIds)
ASSUME WorthFittingAssumption == WorthFitting \in BOOLEAN
ASSUME StatesAssumption ==
    /\ States \subseteq {"active", "archived", "superseded", "deleted"}
    /\ {"active", "archived", "deleted"} \subseteq States

VARIABLES memory,    \* table object: id -> [pieces, state], for the ids present
          erased,    \* the identifiers of erased objects, never issued again
          chunk,     \* tables chunk and chunk_fts: id -> [object, text]
          vector,    \* table embedding: the chunks that have one
          doc_freq,  \* table term_stat: text -> how many chunks hold it
          ann,       \* the approximate index in memory: its chunks, or NoAnn
          jobs,      \* the embeddings awaited, each [object, needing, loop]
          queue,     \* what reviewAll() has accepted and not indexed yet
          todo,      \* what rebuild() has read and not indexed yet, or NoRebuild
          behind,    \* ghost: objects a loop has yet to index, or was kept from
          outdated   \* ghost: objects a rebuild indexed as they were when it began

vars == <<memory, erased, chunk, vector, doc_freq, ann, jobs, queue, todo,
          behind, outdated>>

Pieces == UNION {[1..n -> Texts] : n \in 1..MaxPieces}
Row == [pieces : Pieces, state : States]
Job == [object : ObjectIds, needing : SUBSET ChunkIds,
        loop : {"none", "review", "rebuild"}]

ASSUME NoRebuildAssumption == \A os \in SUBSET ObjectIds : NoRebuild \notin [os -> Row]

Present == DOMAIN memory
Indexable(row) == row.state \in {"active", "superseded"}

ChunksOf(o) == {c \in DOMAIN chunk : chunk[c].object = o}
Holding(cs, t) == {c \in cs : chunk[c].text = t}
Occurrences(s, t) == Cardinality({n \in DOMAIN s : s[n] = t})
-----------------------------------------------------------------------------
(* updateTermStats() *)

Less(a, b) == IF a > b THEN a - b ELSE 0

(* Mutant: what was there is taken away and what is there now forgotten. *)
RecountedDown(o, pieces) ==
    [t \in Texts |-> Less(doc_freq[t], Cardinality(Holding(ChunksOf(o), t)))]

Recounted(o, pieces) ==
    [t \in Texts |-> Less(doc_freq[t] + Occurrences(pieces, t),
                          Cardinality(Holding(ChunksOf(o), t)))]

(* Mutant: chunks that kept their identifier are taken to have a vector. *)
NeedingNew(kept, fresh) == fresh

(* The new chunks and those that have no vector yet. *)
Needing(kept, fresh) == fresh \cup (kept \ vector)

(* Mutant: what the object said before stays. *)
KeptAll(o, pieces) == ChunksOf(o)

(* One chunk for each text the object already had. *)
Kept(o, pieces) ==
    {CHOOSE c \in Holding(ChunksOf(o), t) : TRUE :
        t \in {u \in Range(pieces) : Holding(ChunksOf(o), u) # {}}}

(* indexObject(), up to its wait.  A piece whose text the object had keeps *)
(* a chunk that held it, one for all pieces of that text; every other      *)
(* piece gets a new chunk, whether or not another says the same.           *)
WriteChunks(o, pieces, loop) ==
    LET kept  == Kept(o, pieces)
        new   == {n \in DOMAIN pieces : Holding(ChunksOf(o), pieces[n]) = {}}
        free  == ChunkIds \ (DOMAIN chunk \cup UNION {j.needing : j \in Range(jobs)}
                                \cup (IF ann = NoAnn THEN {} ELSE ann))
    IN /\ Cardinality(free) >= Cardinality(new)
       /\ LET id == CHOOSE f \in [new -> free] : IsInjective(f)
              fresh == Range(id)
              needing == Needing(kept, fresh)
          IN /\ chunk' = [c \in (DOMAIN chunk \ ChunksOf(o)) \cup kept \cup fresh |->
                             IF c \in fresh
                             THEN [object |-> o, text |-> pieces[CHOOSE n \in new : id[n] = c]]
                             ELSE chunk[c]]
             /\ vector' = vector \ (ChunksOf(o) \ kept)
             /\ jobs' = IF needing = {} THEN jobs
                        ELSE Append(jobs, [object |-> o, needing |-> needing, loop |-> loop])
    /\ Len(jobs') <= MaxJobs
    /\ doc_freq' = Recounted(o, pieces)
    /\ \A t \in Texts : doc_freq'[t] <= MaxCount

RemoveFromIndex(o) ==
    /\ chunk' = [c \in DOMAIN chunk \ ChunksOf(o) |-> chunk[c]]
    /\ vector' = vector \ ChunksOf(o)
    /\ doc_freq' = Recounted(o, <<>>)
    /\ UNCHANGED jobs

(* The end of #index(): a live approximate index is told of every vector   *)
(* the object has.  rebuild() calls indexObject() itself, without this.    *)
Told(o, loop) ==
    IF ann = NoAnn \/ loop = "rebuild" THEN ann
    ELSE ann \cup {c \in vector' : chunk'[c].object = o}

IndexObject(o, row, loop) ==
    /\ IF Indexable(row) THEN WriteChunks(o, row.pieces, loop) ELSE RemoveFromIndex(o)
    /\ ann' = IF jobs' = jobs THEN Told(o, loop) ELSE ann
    /\ behind' = behind \ {o}
    /\ outdated' = IF o \in DOMAIN memory' /\ row # memory'[o]
                   THEN outdated \cup {o}
                   ELSE outdated \ {o}
-----------------------------------------------------------------------------
Waits(loop) == \E n \in DOMAIN jobs : jobs[n].loop = loop

(* A loop that is not waiting runs on, and nothing else does. *)
LoopRuns ==
    \/ queue # {} /\ ~Waits("review")
    \/ todo # NoRebuild /\ ~Waits("rebuild")

Free == ~LoopRuns

(* Without overlap nobody calls anything before a rebuild is through. *)
MayCall == Free /\ (todo = NoRebuild \/ "overlap" \in Faults)

Stored(o, row) == [p \in Present \cup {o} |-> IF p = o THEN row ELSE memory[p]]

(* remember() and every other creation that is indexed at once *)
Remember(o, pieces) ==
    /\ MayCall
    /\ o \notin Present \cup erased
    /\ memory' = Stored(o, [pieces |-> pieces, state |-> "active"])
    /\ IndexObject(o, memory'[o], "none")
    /\ UNCHANGED <<erased, queue, todo>>

(* correct(), accept() and the second half of supersede(): an update of a  *)
(* row that is not deleted, and its index again even if nothing changed.   *)
Correct(o, row) ==
    /\ MayCall
    /\ o \in Present
    /\ memory[o].state # "deleted"
    /\ memory' = Stored(o, row)
    /\ IndexObject(o, row, "none")
    /\ UNCHANGED <<erased, queue, todo>>

(* archive() and forget(), which have no wait in them. *)
PutAway(o, state) ==
    /\ MayCall
    /\ o \in Present
    /\ memory[o].state # "deleted"
    /\ memory' = [memory EXCEPT ![o].state = state]
    /\ RemoveFromIndex(o)
    /\ behind' = behind \ {o}
    /\ outdated' = outdated \ {o}
    /\ UNCHANGED <<erased, ann, queue, todo>>

(* purge() deletes the chunks but leaves term_stat alone. *)
Erase(o) ==
    /\ MayCall
    /\ o \in Present
    /\ memory' = [p \in Present \ {o} |-> memory[p]]
    /\ erased' = erased \cup {o}
    /\ chunk' = [c \in DOMAIN chunk \ ChunksOf(o) |-> chunk[c]]
    /\ vector' = vector \ ChunksOf(o)
    /\ behind' = behind \ {o}
    /\ outdated' = outdated \ {o}
    /\ UNCHANGED <<doc_freq, ann, jobs, queue, todo>>

(* bulk(): each of the proposals that can still be applied is, a new       *)
(* object or the new content of one that is there; one that fails does not *)
(* hold up the rest.                                                       *)
Applies(o) == o \notin erased /\ (o \in Present => memory[o].state # "deleted")
Bulk(accepted) ==
    [p \in Present \cup DOMAIN accepted |->
        IF p \notin DOMAIN accepted THEN memory[p]
        ELSE [pieces |-> accepted[p],
              state |-> IF p \in Present THEN memory[p].state ELSE "active"]]

(* reviewAll() decides everything first ... *)
ReviewAll(accepted) ==
    /\ MayCall
    /\ queue = {}
    /\ \A o \in DOMAIN accepted : Applies(o)
    /\ memory' = Bulk(accepted)
    /\ queue' = DOMAIN accepted
    /\ behind' = behind \cup DOMAIN accepted
    /\ UNCHANGED <<erased, chunk, vector, doc_freq, ann, jobs, todo, outdated>>

(* ... and indexes it in turn, as it is when its turn comes. *)
IndexNext(o) ==
    /\ o \in queue
    /\ ~Waits("review")
    /\ queue' = queue \ {o}
    /\ UNCHANGED <<memory, erased, todo>>
    /\ IF o \in Present THEN IndexObject(o, memory[o], "review")
       ELSE UNCHANGED <<chunk, vector, doc_freq, ann, jobs, behind, outdated>>
-----------------------------------------------------------------------------
(* rebuild(): everything is dropped, and the rows are read once. *)
Wipe(rows) ==
    /\ chunk' = [c \in {} |-> NoAnn]
    /\ vector' = {}
    /\ doc_freq' = [t \in Texts |-> 0]
    /\ todo' = [o \in {p \in DOMAIN rows : rows[p].state # "deleted"} |-> rows[o]]
    /\ behind' = {p \in DOMAIN rows : Indexable(rows[p])}
    /\ outdated' = {}

Reindex ==
    /\ MayCall
    /\ todo = NoRebuild
    /\ Wipe(memory)
    /\ UNCHANGED <<memory, erased, ann, jobs, queue>>

(* import() and applyChanges(): rows arrive and a rebuild follows at once. *)
Arrive(o, row) ==
    /\ MayCall
    /\ todo = NoRebuild
    /\ o \notin erased
    /\ memory' = Stored(o, row)
    /\ Wipe(memory')
    /\ UNCHANGED <<erased, ann, jobs, queue>>

(* Mutant: chunks do not refer to their object. *)
AlwaysWritable(o, row) == TRUE

(* chunk.object_id REFERENCES object(id) *)
Writable(o, row) == Indexable(row) => o \in Present

(* One round, on the row as it was read.  An erased object fails the       *)
(* foreign key of its chunks and the rebuild ends there.                   *)
RebuildNext(o) ==
    /\ todo # NoRebuild
    /\ o \in DOMAIN todo
    /\ ~Waits("rebuild")
    /\ UNCHANGED <<memory, erased, queue>>
    /\ \/ /\ Writable(o, todo[o])
          /\ IndexObject(o, todo[o], "rebuild")
          /\ todo' = [p \in DOMAIN todo \ {o} |-> todo[p]]
       \/ /\ ~Writable(o, todo[o])
          /\ todo' = NoRebuild
          /\ UNCHANGED <<chunk, vector, doc_freq, ann, jobs, behind, outdated>>

(* Mutant: the old approximate index survives the rebuild. *)
AnnKept == ann

(* The approximate index starts over and is fitted again if that pays.     *)
AnnAfterRebuild == IF WorthFitting /\ vector # {} THEN vector ELSE NoAnn

RebuildDone ==
    /\ todo # NoRebuild
    /\ DOMAIN todo = {}
    /\ ~Waits("rebuild")
    /\ todo' = NoRebuild
    /\ ann' = AnnAfterRebuild
    /\ UNCHANGED <<memory, erased, chunk, vector, doc_freq, jobs, queue, behind, outdated>>

(* buildVectorIndex() *)
BuildVectorIndex ==
    /\ MayCall
    /\ WorthFitting
    /\ vector # {}
    /\ ann' = vector
    /\ UNCHANGED <<memory, erased, chunk, vector, doc_freq, jobs, queue, todo, behind, outdated>>

(* embedding.chunk_id REFERENCES chunk(id): all are stored or none. *)
StoredVectors(needing) ==
    IF needing \subseteq DOMAIN chunk THEN vector \cup needing ELSE vector

(* The embedder answers: all its vectors are stored, or none, if one of    *)
(* the chunks is gone.                                                     *)
Embedded(n) ==
    /\ Free
    /\ jobs' = RemoveAt(jobs, n)
    /\ vector' = StoredVectors(jobs[n].needing)
    /\ UNCHANGED <<memory, erased, chunk, doc_freq, queue, todo, behind, outdated>>
    /\ ann' = Told(jobs[n].object, jobs[n].loop)

EmbedderFails(n) ==
    /\ "embedder" \in Faults
    /\ Free
    /\ jobs' = RemoveAt(jobs, n)
    /\ UNCHANGED <<memory, erased, chunk, vector, doc_freq, queue, todo, behind, outdated>>
    /\ ann' = Told(jobs[n].object, jobs[n].loop)

(* A new process: what was held in memory is gone. *)
Restart ==
    /\ "restart" \in Faults
    /\ jobs' = <<>> /\ queue' = {} /\ todo' = NoRebuild /\ ann' = NoAnn
    /\ UNCHANGED <<memory, erased, chunk, vector, doc_freq, behind, outdated>>

Init ==
    /\ memory = [o \in {} |-> NoAnn] /\ chunk = [c \in {} |-> NoAnn]
    /\ erased = {} /\ vector = {} /\ jobs = <<>> /\ queue = {} /\ behind = {}
    /\ outdated = {}
    /\ doc_freq = [t \in Texts |-> 0]
    /\ todo = NoRebuild /\ ann = NoAnn

Next ==
    \/ \E o \in ObjectIds :
          \/ \E pieces \in Pieces : Remember(o, pieces)
          \/ \E row \in Row : Correct(o, row) \/ Arrive(o, row)
          \/ \E state \in {"archived", "deleted"} : PutAway(o, state)
          \/ Erase(o) \/ IndexNext(o) \/ RebuildNext(o)
    \/ \E os \in SUBSET ObjectIds \ {{}} :
          \E accepted \in [os -> Pieces] : ReviewAll(accepted)
    \/ Reindex \/ RebuildDone \/ BuildVectorIndex \/ Restart
    \/ \E n \in DOMAIN jobs : Embedded(n) \/ EmbedderFails(n)

Spec == Init /\ [][Next]_vars
-----------------------------------------------------------------------------
(* Every table and every wait is well formed. *)
IndexTypeOK ==
    /\ Present \subseteq ObjectIds \ erased
    /\ \A o \in Present : memory[o] \in Row
    /\ DOMAIN chunk \subseteq ChunkIds
    /\ \A c \in DOMAIN chunk : chunk[c] \in [object : ObjectIds, text : Texts]
    /\ vector \subseteq DOMAIN chunk
    /\ doc_freq \in [Texts -> Nat]
    /\ ann = NoAnn \/ ann \subseteq ChunkIds
    /\ jobs \in Seq(Job) /\ Len(jobs) <= MaxJobs
    /\ queue \subseteq ObjectIds
    /\ behind \subseteq Present /\ outdated \subseteq Present

(* The object is found by exactly the text it has now if it may be found,  *)
(* and not at all otherwise.                                               *)
FoundByItsText(o) ==
    {chunk[c].text : c \in ChunksOf(o)} =
        IF o \in Present /\ Indexable(memory[o]) THEN Range(memory[o].pieces) ELSE {}

(* Whatever is awaited and whatever failed, an object that no loop has yet *)
(* to index and no rebuild indexed as it was is found by what it says now. *)
LexicalMatchesMemory == \A o \in ObjectIds \ (behind \cup outdated) : FoundByItsText(o)

(* rebuild(): "this restores full retrieval from memory".  INVARIANT 24.   *)
RebuildRestoresRetrieval == \A o \in ObjectIds \ behind : FoundByItsText(o)

(* INVARIANT 28: no table holds anything of an erased object, not even by  *)
(* a vector that came back after the erasure or a rebuild begun before it. *)
ErasedIsGone == \A c \in DOMAIN chunk : chunk[c].object \in Present

(* term_stat never counts less than there is: a term the memory holds is   *)
(* never taken for one it does not.                                        *)
TermsAreCounted ==
    \A t \in Texts : doc_freq[t] >= Cardinality(Holding(DOMAIN chunk, t))

(* Full text says what the memory says: each object is found by its text,  *)
(* and the weight of a term is never too low.                              *)
TextIndexIsTrue == LexicalMatchesMemory /\ TermsAreCounted

(* A chunk without a vector is awaited by a job that will succeed, however *)
(* its object was edited while earlier ones were on their way.             *)
VectorsAreOnTheirWay ==
    \A c \in DOMAIN chunk \ vector :
        \E j \in Range(jobs) : c \in j.needing /\ j.needing \subseteq DOMAIN chunk

(* A live approximate index misses no vector that the exact scan has, once *)
(* no rebuild is running.                                                  *)
AnnMissesNothing == ann # NoAnn /\ todo = NoRebuild => vector \subseteq ann

(* Every piece has its vector or will have it, and whoever searches by     *)
(* vector, exactly or approximately, searches all there are.               *)
VectorIndexIsTrue == VectorsAreOnTheirWay /\ AnnMissesNothing
=============================================================================
