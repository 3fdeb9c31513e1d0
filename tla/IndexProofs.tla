---------------------------- MODULE IndexProofs ----------------------------
(***************************************************************************)
(* Proofs about Index, for any objects, texts, bounds and faults.          *)
(*                                                                         *)
(* ErasedIsGone is inductive as it stands: whatever writes chunks of an    *)
(* object has it in hand, and only erase() takes an object away.           *)
(*                                                                         *)
(* TextIndexIsTrue is too, but for the rows that are indexed being rows.   *)
(* That no term is counted too low rests on how many chunks an object gets *)
(* of one text: never more than it has pieces that say it.                 *)
(*                                                                         *)
(* VectorIndexIsTrue needs to know whose chunks a job awaits: an edit of   *)
(* another object then takes nothing from it, and an edit of its own       *)
(* object issues a job for all that is left without a vector.  It needs    *)
(* the embedder, the process and a rebuild to be left alone.               *)
(***************************************************************************)
EXTENDS Index, FiniteSetTheorems, FunctionTheorems, TLAPS

(* Indexing an object leaves its own chunks and those of others that had   *)
(* some before, whichever way it goes and whoever asked for it.            *)
LEMMA IndexWritesItsObject ==
  ASSUME NEW o, NEW row, NEW loop, IndexObject(o, row, loop)
  PROVE  \A c \in DOMAIN chunk' :
            \/ Indexable(row) /\ chunk'[c].object = o
            \/ c \in DOMAIN chunk /\ chunk'[c] = chunk[c]
<1>1. CASE Indexable(row)
  <2>1. WriteChunks(o, row.pieces, loop) BY <1>1 DEF IndexObject
  <2> DEFINE pieces == row.pieces
             kept  == Kept(o, pieces)
             new   == {n \in DOMAIN pieces : Holding(ChunksOf(o), pieces[n]) = {}}
             free  == ChunkIds \ (DOMAIN chunk \cup UNION {j.needing : j \in Range(jobs)}
                                     \cup (IF ann = NoAnn THEN {} ELSE ann))
             id    == CHOOSE f \in [new -> free] : IsInjective(f)
             fresh == Range(id)
             said(c) == pieces[CHOOSE n \in new : id[n] = c]
  <2>2. chunk' = [c \in (DOMAIN chunk \ ChunksOf(o)) \cup kept \cup fresh |->
                     IF c \in fresh THEN [object |-> o, text |-> said(c)] ELSE chunk[c]]
    BY <2>1 DEF WriteChunks
  <2>3. kept \subseteq DOMAIN chunk BY DEF Kept, Holding, ChunksOf
  <2> HIDE DEF kept, fresh, said
  <2> QED BY <1>1, <2>2, <2>3
<1>2. CASE ~Indexable(row)
  <2>1. chunk' = [c \in DOMAIN chunk \ ChunksOf(o) |-> chunk[c]]
    BY <1>2 DEF IndexObject, RemoveFromIndex
  <2> QED BY <2>1
<1> QED BY <1>1, <1>2

(* Indexing an object that is present, or removing any from the index,     *)
(* leaves no chunk without its object, as long as no object goes.          *)
LEMMA IndexKeepsErasedGone ==
  ASSUME ErasedIsGone, NEW o, NEW row, NEW loop, IndexObject(o, row, loop),
         Present \subseteq Present', Indexable(row) => o \in Present'
  PROVE  ErasedIsGone'
BY IndexWritesItsObject DEF ErasedIsGone

(* Nothing is erased yet.                                                  *)
LEMMA ErasedIsGoneInit == Init => ErasedIsGone
BY DEF Init, ErasedIsGone

(* No step indexes an object that is gone.                                 *)
LEMMA ErasedIsGoneStep == ErasedIsGone /\ [Next]_vars => ErasedIsGone'
<1> SUFFICES ASSUME ErasedIsGone, [Next]_vars PROVE ErasedIsGone'
  OBVIOUS
<1>1. ASSUME NEW o \in ObjectIds, NEW pieces \in Pieces, Remember(o, pieces)
      PROVE  ErasedIsGone'
  <2>1. memory' = Stored(o, [pieces |-> pieces, state |-> "active"])
    BY <1>1 DEF Remember
  <2>2. Present \subseteq Present' /\ o \in Present' BY <2>1 DEF Stored, Present
  <2>3. IndexObject(o, memory'[o], "none") BY <1>1 DEF Remember
  <2> QED BY <2>2, <2>3, IndexKeepsErasedGone
<1>2. ASSUME NEW o \in ObjectIds, NEW row \in Row, Correct(o, row)
      PROVE  ErasedIsGone'
  <2>1. memory' = Stored(o, row) /\ IndexObject(o, row, "none") BY <1>2 DEF Correct
  <2>2. Present \subseteq Present' /\ o \in Present' BY <2>1 DEF Stored, Present
  <2> QED BY <2>1, <2>2, IndexKeepsErasedGone
<1>3. ASSUME NEW o \in ObjectIds, NEW row \in Row, Arrive(o, row)
      PROVE  ErasedIsGone'
  <2>1. chunk' = [c \in {} |-> NoAnn] BY <1>3 DEF Arrive, Wipe
  <2> QED BY <2>1 DEF ErasedIsGone
<1>4. ASSUME NEW o \in ObjectIds, NEW state, PutAway(o, state)
      PROVE  ErasedIsGone'
  <2>1. chunk' = [c \in DOMAIN chunk \ ChunksOf(o) |-> chunk[c]]
    BY <1>4 DEF PutAway, RemoveFromIndex
  <2>2. Present' = Present BY <1>4 DEF PutAway, Present
  <2> QED BY <2>1, <2>2 DEF ErasedIsGone
<1>5. ASSUME NEW o \in ObjectIds, Erase(o)
      PROVE  ErasedIsGone'
  <2>1. chunk' = [c \in DOMAIN chunk \ ChunksOf(o) |-> chunk[c]] BY <1>5 DEF Erase
  <2>2. memory' = [p \in Present \ {o} |-> memory[p]] BY <1>5 DEF Erase
  <2>3. Present' = Present \ {o} BY <2>2 DEF Present
  <2>4. \A c \in DOMAIN chunk' : c \in DOMAIN chunk /\ chunk'[c] = chunk[c]
                                    /\ chunk[c].object # o
    BY <2>1 DEF ChunksOf
  <2> QED BY <2>3, <2>4 DEF ErasedIsGone
<1>6. ASSUME NEW o \in ObjectIds, IndexNext(o)
      PROVE  ErasedIsGone'
  <2>1. Present' = Present BY <1>6 DEF IndexNext, Present
  <2>2. CASE o \in Present
    <3>1. IndexObject(o, memory[o], "review") BY <1>6, <2>2 DEF IndexNext
    <3> QED BY <2>1, <2>2, <3>1, IndexKeepsErasedGone
  <2>3. CASE o \notin Present
    <3>1. chunk' = chunk BY <1>6, <2>3 DEF IndexNext
    <3> QED BY <2>1, <3>1 DEF ErasedIsGone
  <2> QED BY <2>2, <2>3
<1>7. ASSUME NEW o \in ObjectIds, RebuildNext(o)
      PROVE  ErasedIsGone'
  <2>1. Present' = Present BY <1>7 DEF RebuildNext, Present
  <2>2. CASE Writable(o, todo[o]) /\ IndexObject(o, todo[o], "rebuild")
    BY <2>1, <2>2, IndexKeepsErasedGone DEF Writable
  <2>3. CASE chunk' = chunk
    BY <2>1, <2>3 DEF ErasedIsGone
  <2> QED BY <1>7, <2>2, <2>3 DEF RebuildNext
<1>8. ASSUME NEW os \in SUBSET ObjectIds, NEW accepted \in [os -> Pieces],
             ReviewAll(accepted)
      PROVE  ErasedIsGone'
  <2>1. Present \subseteq Present' /\ chunk' = chunk BY <1>8 DEF ReviewAll, Bulk, Present
  <2> QED BY <2>1 DEF ErasedIsGone
<1>9. CASE Reindex
  <2>1. chunk' = [c \in {} |-> NoAnn] BY <1>9 DEF Reindex, Wipe
  <2> QED BY <2>1 DEF ErasedIsGone
<1>10. CASE RebuildDone \/ BuildVectorIndex \/ Restart \/ UNCHANGED vars
  <2>1. memory' = memory /\ chunk' = chunk
    BY <1>10 DEF RebuildDone, BuildVectorIndex, Restart, vars
  <2> QED BY <2>1 DEF ErasedIsGone, Present
<1>11. ASSUME NEW n \in DOMAIN jobs, Embedded(n) \/ EmbedderFails(n)
       PROVE  ErasedIsGone'
  <2>1. memory' = memory /\ chunk' = chunk BY <1>11 DEF Embedded, EmbedderFails
  <2> QED BY <2>1 DEF ErasedIsGone, Present
<1> QED BY <1>1, <1>2, <1>3, <1>4, <1>5, <1>6, <1>7, <1>8, <1>9, <1>10, <1>11 DEF Next

(* INVARIANT 28: no chunk, and so no full-text row, is about an object that *)
(* is not there, whoever erases what while embeddings and rebuilds go on.   *)
THEOREM NothingErasedIsIndexed == Spec => []ErasedIsGone
BY ErasedIsGoneInit, ErasedIsGoneStep, PTL DEF Spec
-----------------------------------------------------------------------------

(* What writing the chunks of an object comes to: which pieces get a new   *)
(* chunk, and under which identifier.                                      *)
New(o, pieces) == {n \in DOMAIN pieces : Holding(ChunksOf(o), pieces[n]) = {}}
Taken == DOMAIN chunk \cup UNION {j.needing : j \in Range(jobs)}
            \cup (IF ann = NoAnn THEN {} ELSE ann)

WroteAs(o, pieces, loop, id) ==
    /\ id \in [New(o, pieces) -> ChunkIds \ Taken]
    /\ \A m, n \in New(o, pieces) : id[m] = id[n] => m = n
    /\ DOMAIN chunk' = (DOMAIN chunk \ ChunksOf(o)) \cup Kept(o, pieces) \cup Range(id)
    /\ \A n \in New(o, pieces) : chunk'[id[n]].object = o /\ chunk'[id[n]].text = pieces[n]
    /\ \A c \in (DOMAIN chunk \ ChunksOf(o)) \cup Kept(o, pieces) : chunk'[c] = chunk[c]
    /\ vector' = vector \ (ChunksOf(o) \ Kept(o, pieces))
    /\ LET needing == Range(id) \cup (Kept(o, pieces) \ vector)
       IN jobs' = IF needing = {} THEN jobs
                  ELSE Append(jobs, [object |-> o, needing |-> needing, loop |-> loop])

(* A set no larger than another goes into it one to one.                   *)
LEMMA SmallerFits ==
  ASSUME NEW S, NEW T, IsFiniteSet(S), IsFiniteSet(T), Cardinality(T) >= Cardinality(S)
  PROVE  \E f \in [S -> T] : IsInjective(f)
<1>1. /\ Cardinality(S) \in Nat /\ Cardinality(T) \in Nat
      /\ ExistsBijection(1..Cardinality(S), S) /\ ExistsBijection(1..Cardinality(T), T)
  BY FS_CardinalityType
<1>2. PICK g \in Bijection(S, 1..Cardinality(S)) : TRUE
  BY <1>1, Fun_ExistsBijSymmetric DEF ExistsBijection
<1>3. PICK h \in Bijection(1..Cardinality(T), T) : TRUE
  BY <1>1 DEF ExistsBijection
<1>4. /\ g \in [S -> 1..Cardinality(S)] /\ \A a, b \in S : g[a] = g[b] => a = b
      /\ h \in [1..Cardinality(T) -> T]
      /\ \A a, b \in 1..Cardinality(T) : h[a] = h[b] => a = b
  BY DEF Bijection, Injection, IsInjective
<1> DEFINE f == [x \in S |-> h[g[x]]]
<1>5. \A x \in S : g[x] \in 1..Cardinality(T)
  BY <1>1, <1>4
<1>6. f \in [S -> T] /\ \A a, b \in S : f[a] = f[b] => a = b
  BY <1>4, <1>5
<1> QED BY <1>6 DEF IsInjective

(* A text is cut into finitely many pieces.                                *)
LEMMA PiecesAreFinite ==
  ASSUME NEW pieces \in Pieces
  PROVE  IsFiniteSet(DOMAIN pieces)
<1>1. PICK n \in 1..MaxPieces : pieces \in [1..n -> Texts]
  BY DEF Pieces
<1>2. n \in Int
  BY PiecesAssumption
<1> QED BY <1>1, <1>2, FS_Interval

(* What writing the chunks of an object comes to, for one choice of new    *)
(* ids.                                                                    *)
LEMMA WritingIs ==
  ASSUME NEW o, NEW pieces \in Pieces, NEW loop, WriteChunks(o, pieces, loop)
  PROVE  \E id : WroteAs(o, pieces, loop, id)
<1> DEFINE kept == Kept(o, pieces)
           new == New(o, pieces)
           free == ChunkIds \ Taken
           id == CHOOSE f \in [new -> free] : IsInjective(f)
<1>1. /\ Cardinality(free) >= Cardinality(new)
      /\ chunk' = [c \in (DOMAIN chunk \ ChunksOf(o)) \cup kept \cup Range(id) |->
                     IF c \in Range(id)
                     THEN [object |-> o, text |-> pieces[CHOOSE n \in new : id[n] = c]]
                     ELSE chunk[c]]
      /\ vector' = vector \ (ChunksOf(o) \ kept)
      /\ LET needing == Range(id) \cup (kept \ vector)
         IN jobs' = IF needing = {} THEN jobs
                    ELSE Append(jobs, [object |-> o, needing |-> needing, loop |-> loop])
  BY DEF WriteChunks, New, Taken, Needing
<1>2. IsFiniteSet(new) /\ IsFiniteSet(free)
  BY PiecesAreFinite, ChunkIdsAssumption, FS_Subset, FS_Difference DEF New
<1>3. \E f \in [new -> free] : IsInjective(f)
  BY <1>1, <1>2, SmallerFits
<1>4. id \in [new -> free] /\ IsInjective(id)
  BY <1>3
<1> HIDE DEF id
<1>5. \A m, n \in new : id[m] = id[n] => m = n
  BY <1>4 DEF IsInjective
<1>6. Range(id) \subseteq free /\ free \cap DOMAIN chunk = {} /\ kept \subseteq DOMAIN chunk
  BY <1>4 DEF Range, Taken, Kept, Holding, ChunksOf
<1>7. ASSUME NEW n \in new
      PROVE  chunk'[id[n]].object = o /\ chunk'[id[n]].text = pieces[n]
  <2>1. id[n] \in Range(id)
    BY <1>4 DEF Range
  <2>2. (CHOOSE m \in new : id[m] = id[n]) = n
    BY <1>5
  <2> QED BY <1>1, <2>1, <2>2
<1>8. \A c \in (DOMAIN chunk \ ChunksOf(o)) \cup kept : chunk'[c] = chunk[c]
  BY <1>1, <1>6
<1> QED BY <1>1, <1>4, <1>5, <1>7, <1>8 DEF WroteAs

(* Only the chunks of o change.                                            *)
OthersStay(o) ==
    /\ \A c \in DOMAIN chunk' : chunk'[c].object # o => c \in DOMAIN chunk /\ chunk'[c] = chunk[c]
    /\ \A c \in DOMAIN chunk : chunk[c].object # o => c \in DOMAIN chunk' /\ chunk'[c] = chunk[c]

(* After its chunks are written an object holds each of its texts, no      *)
(* other, and none in more chunks than it has pieces that say it.          *)
LEMMA WrittenTexts ==
  ASSUME NEW o, NEW pieces \in Pieces, NEW loop, NEW id, WroteAs(o, pieces, loop, id)
  PROVE  /\ OthersStay(o)
         /\ {chunk'[c].text : c \in ChunksOf(o)'} = Range(pieces)
         /\ \A t : Cardinality(Holding(ChunksOf(o), t)') <= Occurrences(pieces, t)
<1> DEFINE kept == Kept(o, pieces)
           new == New(o, pieces)
<1>1. /\ id \in [new -> ChunkIds \ Taken]
      /\ \A m, n \in new : id[m] = id[n] => m = n
      /\ DOMAIN chunk' = (DOMAIN chunk \ ChunksOf(o)) \cup kept \cup Range(id)
      /\ \A n \in new : chunk'[id[n]].object = o /\ chunk'[id[n]].text = pieces[n]
      /\ \A c \in (DOMAIN chunk \ ChunksOf(o)) \cup kept : chunk'[c] = chunk[c]
  BY DEF WroteAs
<1>2. \A t : Holding(ChunksOf(o), t) # {} =>
          (CHOOSE c \in Holding(ChunksOf(o), t) : TRUE) \in Holding(ChunksOf(o), t)
  OBVIOUS
<1>3. /\ \A c \in kept : c \in ChunksOf(o) /\ chunk[c].text \in Range(pieces)
      /\ \A c, d \in kept : chunk[c].text = chunk[d].text => c = d
      /\ \A t \in Range(pieces) : Holding(ChunksOf(o), t) # {} =>
            \E c \in kept : chunk[c].text = t
      /\ \A c \in kept : Holding(ChunksOf(o), chunk[c].text) # {}
  <2> DEFINE one(t) == CHOOSE d \in Holding(ChunksOf(o), t) : TRUE
  <2>1. \A c \in kept : \E t \in Range(pieces) :
            Holding(ChunksOf(o), t) # {} /\ c = one(t)
    BY DEF Kept
  <2>2. \A t \in Range(pieces) : Holding(ChunksOf(o), t) # {} => one(t) \in kept
    BY DEF Kept
  <2>3. \A t, c : c \in Holding(ChunksOf(o), t) <=> c \in ChunksOf(o) /\ chunk[c].text = t
    BY DEF Holding
  <2>4. \A t : Holding(ChunksOf(o), t) # {} => one(t) \in Holding(ChunksOf(o), t)
    BY <1>2
  <2> HIDE DEF kept, one
  <2>5. \A c \in kept : \E t \in Range(pieces) :
            c = one(t) /\ c \in ChunksOf(o) /\ chunk[c].text = t
    BY <2>1, <2>3, <2>4
  <2>6. \A c \in kept : Holding(ChunksOf(o), chunk[c].text) # {}
    BY <2>3, <2>5
  <2>7. \A c, d \in kept : chunk[c].text = chunk[d].text => c = d
    BY <2>5
  <2>8. \A t \in Range(pieces) : Holding(ChunksOf(o), t) # {} =>
            \E c \in kept : chunk[c].text = t
    BY <2>2, <2>3, <2>4
  <2> QED BY <2>5, <2>6, <2>7, <2>8
<1>4. /\ \A c \in Range(id) : \E n \in new : c = id[n]
      /\ \A n \in new : id[n] \in Range(id)
      /\ \A c \in Range(id) : c \notin DOMAIN chunk
  BY <1>1 DEF Range, Taken
<1>5. /\ \A c \in ChunksOf(o) : c \in DOMAIN chunk /\ chunk[c].object = o
      /\ \A c \in DOMAIN chunk : chunk[c].object = o => c \in ChunksOf(o)
  BY DEF ChunksOf
<1> HIDE DEF kept, new
<1>41. \A c \in Range(id) : chunk'[c].object = o
  BY <1>1, <1>4
<1>6. OthersStay(o)
  <2>1. \A c \in DOMAIN chunk' : chunk'[c].object # o => c \in DOMAIN chunk /\ chunk'[c] = chunk[c]
    BY <1>1, <1>3, <1>41, <1>5
  <2>2. \A c \in DOMAIN chunk : chunk[c].object # o => c \in DOMAIN chunk' /\ chunk'[c] = chunk[c]
    BY <1>1, <1>5
  <2> QED BY <2>1, <2>2 DEF OthersStay
<1>7. ChunksOf(o)' = kept \cup Range(id)
  <2>1. ChunksOf(o)' = {c \in DOMAIN chunk' : chunk'[c].object = o}
    BY DEF ChunksOf
  <2> QED BY <1>1, <1>3, <1>4, <1>41, <1>5, <2>1
<1>8. /\ \A n \in DOMAIN pieces : pieces[n] \in Range(pieces)
      /\ \A t \in Range(pieces) : \E n \in DOMAIN pieces : pieces[n] = t
  BY DEF Range
<1>9. {chunk'[c].text : c \in ChunksOf(o)'} = Range(pieces)
  <2>1. \A c \in kept \cup Range(id) : chunk'[c].text \in Range(pieces)
    <3>1. \A n \in new : n \in DOMAIN pieces
      BY DEF New, new
    <3> QED BY <1>1, <1>3, <1>4, <1>8, <3>1
  <2>2. \A t \in Range(pieces) : \E c \in kept \cup Range(id) : chunk'[c].text = t
    <3> SUFFICES ASSUME NEW t \in Range(pieces)
                 PROVE  \E c \in kept \cup Range(id) : chunk'[c].text = t
      OBVIOUS
    <3>1. PICK n \in DOMAIN pieces : pieces[n] = t
      BY <1>8
    <3>2. n \in new \/ Holding(ChunksOf(o), t) # {}
      BY <3>1 DEF New, new
    <3> QED BY <1>1, <1>3, <1>4, <3>1, <3>2
  <2> QED BY <1>7, <2>1, <2>2
<1>10. ASSUME NEW t PROVE Cardinality(Holding(ChunksOf(o), t)') <= Occurrences(pieces, t)
  <2> DEFINE Says == {n \in DOMAIN pieces : pieces[n] = t}
             after == {c \in kept \cup Range(id) : chunk'[c].text = t}
  <2>1. Holding(ChunksOf(o), t)' = after
    BY <1>7 DEF Holding
  <2>2. IsFiniteSet(Says) /\ Cardinality(Says) \in Nat /\ Occurrences(pieces, t) = Cardinality(Says)
    BY PiecesAreFinite, FS_Subset, FS_CardinalityType DEF Occurrences
  <2>3. CASE Holding(ChunksOf(o), t) = {}
    <3>1. Says \subseteq new
      BY <2>3 DEF New, new
    <3>2. \A c \in kept : chunk'[c].text # t
      BY <1>1, <1>3, <2>3
    <3>3. after = {id[n] : n \in Says}
      <4>1. \A n \in new : n \in DOMAIN pieces
        BY DEF New, new
      <4> QED BY <1>1, <1>4, <3>1, <3>2, <4>1
    <3> DEFINE f == [n \in Says |-> id[n]]
    <3> HIDE DEF Says, after
    <3>4. f \in Surjection(Says, after)
      BY <3>3 DEF Surjection
    <3>5. Cardinality(after) <= Cardinality(Says)
      BY <2>2, <3>4, FS_Surjection
    <3> QED BY <2>1, <2>2, <3>5
  <2>4. CASE Holding(ChunksOf(o), t) # {}
    <3>1. \A n \in new : pieces[n] # t
      BY <2>4 DEF New, new
    <3>2. \A c \in after : c \in kept /\ chunk[c].text = t
      <4> QED BY <1>1, <1>4, <3>1
    <3>3. CASE after = {}
      BY <2>1, <2>2, <3>3, FS_EmptySet
    <3>4. ASSUME NEW c \in after PROVE Cardinality(Holding(ChunksOf(o), t)') <= Occurrences(pieces, t)
      <4>1. after = {c}
        BY <1>3, <3>2
      <4>2. t \in Range(pieces)
        BY <1>3, <3>2
      <4>3. PICK n \in Says : TRUE
        BY <1>8, <4>2
      <4>4. Cardinality(after) = 1
        BY <4>1, FS_Singleton
      <4>5. Cardinality(Says) # 0
        BY <2>2, <4>3, FS_EmptySet
      <4> HIDE DEF Says, after
      <4> QED BY <2>1, <2>2, <4>4, <4>5
    <3> QED BY <3>3, <3>4
  <2> QED BY <2>3, <2>4
<1> QED BY <1>6, <1>9, <1>10

(* What indexing an object does to its chunks, whether it is written or    *)
(* taken out, and what it counts.                                          *)
Counting(o, pieces) ==
    /\ doc_freq' = Recounted(o, pieces)
    /\ \A t : Occurrences(pieces, t) \in Nat
    /\ \A t : Cardinality(Holding(ChunksOf(o), t)') <= Occurrences(pieces, t)

(* An object whose chunks are removed has none, and the others keep        *)
(* theirs.                                                                 *)
LEMMA RemovedTexts ==
  ASSUME NEW o, chunk' = [c \in DOMAIN chunk \ ChunksOf(o) |-> chunk[c]]
  PROVE  OthersStay(o) /\ ChunksOf(o)' = {}
<1>1. \A c \in DOMAIN chunk : c \in ChunksOf(o) <=> chunk[c].object = o
  BY DEF ChunksOf
<1>2. ChunksOf(o)' = {c \in DOMAIN chunk' : chunk'[c].object = o}
  BY DEF ChunksOf
<1> QED BY <1>1, <1>2 DEF OthersStay

(* No pieces, no occurrences.                                              *)
LEMMA NothingSaid == \A t : Occurrences(<<>>, t) = 0
<1>1. ASSUME NEW t PROVE {n \in DOMAIN <<>> : <<>>[n] = t} = {}
  OBVIOUS
<1> QED BY <1>1, FS_EmptySet DEF Occurrences

(* How often a text occurs among the pieces is a number.                   *)
LEMMA OccurrencesAreCounted ==
  ASSUME NEW pieces \in Pieces
  PROVE  \A t : Occurrences(pieces, t) \in Nat
<1>1. ASSUME NEW t PROVE IsFiniteSet({n \in DOMAIN pieces : pieces[n] = t})
  BY PiecesAreFinite, FS_Subset
<1> QED BY <1>1, FS_CardinalityType DEF Occurrences

(* What an object has in the text index after it was indexed.              *)
LEMMA IndexingIs ==
  ASSUME NEW o, NEW row \in Row, NEW loop, IndexObject(o, row, loop)
  PROVE  /\ OthersStay(o)
         /\ {chunk'[c].text : c \in ChunksOf(o)'} =
               IF Indexable(row) THEN Range(row.pieces) ELSE {}
         /\ \E pieces : Counting(o, pieces)
<1>1. CASE Indexable(row)
  <2>1. WriteChunks(o, row.pieces, loop) /\ row.pieces \in Pieces
    BY <1>1 DEF IndexObject, Row
  <2>2. PICK id : WroteAs(o, row.pieces, loop, id)
    BY <2>1, WritingIs
  <2>3. doc_freq' = Recounted(o, row.pieces)
    BY <2>1 DEF WriteChunks
  <2> QED BY <1>1, <2>1, <2>2, <2>3, WrittenTexts, OccurrencesAreCounted DEF Counting
<1>2. CASE ~Indexable(row)
  <2>1. /\ chunk' = [c \in DOMAIN chunk \ ChunksOf(o) |-> chunk[c]]
        /\ doc_freq' = Recounted(o, <<>>)
    BY <1>2 DEF IndexObject, RemoveFromIndex
  <2>2. OthersStay(o) /\ ChunksOf(o)' = {}
    BY <2>1, RemovedTexts
  <2>3. \A t : Holding(ChunksOf(o), t)' = {}
    BY <2>2 DEF Holding
  <2>4. \A t : Cardinality(Holding(ChunksOf(o), t)') = 0
    BY <2>3, FS_EmptySet
  <2>5. Counting(o, <<>>)
    BY <2>1, <2>4, NothingSaid DEF Counting
  <2> QED BY <1>2, <2>2, <2>5
<1> QED BY <1>1, <1>2

(* Counting keeps the count of a term from falling below the chunks that   *)
(* hold it.                                                                *)
LEMMA CountsHold ==
  ASSUME NEW o, NEW pieces, Counting(o, pieces), OthersStay(o), TermsAreCounted,
         doc_freq \in [Texts -> Nat], IsFiniteSet(DOMAIN chunk), IsFiniteSet(DOMAIN chunk')
  PROVE  TermsAreCounted' /\ doc_freq' \in [Texts -> Nat]
<1>1. ASSUME NEW t \in Texts
      PROVE  doc_freq'[t] \in Nat /\ doc_freq'[t] >= Cardinality(Holding(DOMAIN chunk, t)')
  <2> DEFINE A == Holding(DOMAIN chunk, t)
             B == Holding(ChunksOf(o), t)
             after == Holding(DOMAIN chunk, t)'
             mine == Holding(ChunksOf(o), t)'
  <2>1. /\ A = {c \in DOMAIN chunk : chunk[c].text = t}
        /\ B = {c \in A : chunk[c].object = o}
        /\ after = {c \in DOMAIN chunk' : chunk'[c].text = t}
        /\ mine = {c \in after : chunk'[c].object = o}
    BY DEF Holding, ChunksOf
  <2>2. after \ mine = A \ B
    BY <2>1 DEF OthersStay
  <2>3. mine \subseteq after /\ B \subseteq A /\ IsFiniteSet(A) /\ IsFiniteSet(after)
    BY <2>1, FS_Subset
  <2>4. /\ doc_freq[t] \in Nat /\ doc_freq[t] >= Cardinality(A)
        /\ Occurrences(pieces, t) \in Nat /\ Cardinality(mine) <= Occurrences(pieces, t)
        /\ doc_freq'[t] = Less(doc_freq[t] + Occurrences(pieces, t), Cardinality(B))
    BY DEF TermsAreCounted, Counting, Recounted
  <2> HIDE DEF A, B, after, mine
  <2>5. A \cap B = B /\ after \cap mine = mine /\ IsFiniteSet(B) /\ IsFiniteSet(mine)
    BY <2>3, FS_Subset
  <2>6. /\ Cardinality(A) \in Nat /\ Cardinality(B) \in Nat
        /\ Cardinality(after) \in Nat /\ Cardinality(mine) \in Nat
    BY <2>3, <2>5, FS_CardinalityType
  <2>7. /\ Cardinality(A \ B) = Cardinality(A) - Cardinality(B)
        /\ Cardinality(after \ mine) = Cardinality(after) - Cardinality(mine)
    <3>1. Cardinality(A \ B) = Cardinality(A) - Cardinality(A \cap B)
      BY <2>3, FS_Difference
    <3>2. Cardinality(after \ mine) = Cardinality(after) - Cardinality(after \cap mine)
      BY <2>3, FS_Difference
    <3> QED BY <2>5, <3>1, <3>2
  <2>8. Cardinality(B) <= Cardinality(A)
    <3>1. B \in SUBSET A
      BY <2>3
    <3> QED BY <2>3, <3>1, FS_Subset
  <2>9. Cardinality(after) = Cardinality(A) - Cardinality(B) + Cardinality(mine)
    <3>1. Cardinality(after \ mine) = Cardinality(A \ B)
      BY <2>2
    <3>2. Cardinality(after) - Cardinality(mine) = Cardinality(A) - Cardinality(B)
      BY <2>7, <3>1
    <3> QED BY <2>6, <3>2
  <2>10. doc_freq'[t] \in Nat /\ doc_freq'[t] >= Cardinality(after)
    BY <2>4, <2>6, <2>8, <2>9 DEF Less
  <2> QED BY <2>10 DEF after
<1>2. doc_freq' = [t \in Texts |-> doc_freq'[t]]
  BY DEF Counting, Recounted
<1> QED BY <1>1, <1>2 DEF TermsAreCounted

(* The text index says what the memory says, and everything it is made     *)
(* from is a row.                                                          *)
TextInv ==
    /\ \A o \in Present : memory[o] \in Row
    /\ todo # NoRebuild => \A o \in DOMAIN todo : todo[o] \in Row
    /\ DOMAIN chunk \subseteq ChunkIds
    /\ doc_freq \in [Texts -> Nat]
    /\ TextIndexIsTrue

(* Who is neither changed nor indexed is found as before.                  *)
LEMMA FoundAsBefore ==
  ASSUME NEW o, NEW p, p # o, OthersStay(o), FoundByItsText(p),
         p \in Present' <=> p \in Present,
         p \in Present => memory'[p] = memory[p]
  PROVE  FoundByItsText(p)'
<1>1. /\ ChunksOf(p) = {c \in DOMAIN chunk : chunk[c].object = p}
      /\ ChunksOf(p)' = {c \in DOMAIN chunk' : chunk'[c].object = p}
  BY DEF ChunksOf
<1>2. ChunksOf(p)' = ChunksOf(p) /\ \A c \in ChunksOf(p) : chunk'[c] = chunk[c]
  BY <1>1 DEF OthersStay
<1>3. {chunk'[c].text : c \in ChunksOf(p)'} = {chunk[c].text : c \in ChunksOf(p)}
  BY <1>2
<1> QED BY <1>3 DEF FoundByItsText, Indexable

(* Indexing an object as it is now, or as it was when a rebuild read it,   *)
(* keeps the text index true, as long as only that object's row changed    *)
(* and a row that may be found is of an object that is present.            *)
LEMMA IndexingKeepsText ==
  ASSUME TextInv, NEW o, NEW row \in Row, NEW loop, IndexObject(o, row, loop),
         Indexable(row) => o \in Present',
         \A p \in ObjectIds \ {o} : /\ p \in Present' <=> p \in Present
                                    /\ p \in Present => memory'[p] = memory[p],
         DOMAIN chunk' \subseteq ChunkIds
  PROVE  TextIndexIsTrue' /\ doc_freq' \in [Texts -> Nat]
<1>1. /\ OthersStay(o)
      /\ {chunk'[c].text : c \in ChunksOf(o)'} =
               IF Indexable(row) THEN Range(row.pieces) ELSE {}
      /\ \E pieces : Counting(o, pieces)
  BY IndexingIs
<1>2. TermsAreCounted' /\ doc_freq' \in [Texts -> Nat]
  BY <1>1, CountsHold, ChunkIdsAssumption, FS_Subset DEF TextInv, TextIndexIsTrue
<1>3. /\ behind' = behind \ {o}
      /\ outdated' = IF o \in Present' /\ row # memory'[o]
                     THEN outdated \cup {o} ELSE outdated \ {o}
  BY DEF IndexObject, Present
<1>4. ASSUME NEW p \in ObjectIds \ (behind' \cup outdated') PROVE FoundByItsText(p)'
  <2>1. CASE p = o
    <3>1. o \in Present' => row = memory'[o]
      BY <1>3, <1>4, <2>1
    <3>2. Indexable(row) <=> o \in Present' /\ Indexable(memory'[o])
      BY <3>1 DEF Indexable
    <3> QED BY <1>1, <2>1, <3>1, <3>2 DEF FoundByItsText, Indexable
  <2>2. CASE p # o
    <3>1. p \in ObjectIds \ (behind \cup outdated)
      BY <1>3, <1>4, <2>2
    <3>2. FoundByItsText(p)
      BY <3>1 DEF TextInv, TextIndexIsTrue, LexicalMatchesMemory
    <3>3. /\ p \in Present' <=> p \in Present
          /\ p \in Present => memory'[p] = memory[p]
      BY <2>2, <3>1
    <3> QED BY <1>1, <2>2, <3>2, <3>3, FoundAsBefore
  <2> QED BY <2>1, <2>2
<1> QED BY <1>2, <1>4 DEF TextIndexIsTrue, LexicalMatchesMemory

(* Indexing issues identifiers from those there are.                       *)
LEMMA IndexingStaysInBounds ==
  ASSUME NEW o, NEW row \in Row, NEW loop, IndexObject(o, row, loop),
         DOMAIN chunk \subseteq ChunkIds
  PROVE  DOMAIN chunk' \subseteq ChunkIds
<1>1. CASE Indexable(row)
  <2>1. WriteChunks(o, row.pieces, loop) /\ row.pieces \in Pieces
    BY <1>1 DEF IndexObject, Row
  <2>2. PICK id : WroteAs(o, row.pieces, loop, id)
    BY <2>1, WritingIs
  <2>3. Range(id) \subseteq ChunkIds
    BY <2>2 DEF WroteAs, Range
  <2>4. DOMAIN chunk' \subseteq DOMAIN chunk \cup Kept(o, row.pieces) \cup Range(id)
    BY <2>2 DEF WroteAs
  <2>5. Kept(o, row.pieces) \subseteq DOMAIN chunk
    BY DEF Kept, Holding, ChunksOf
  <2> QED BY <2>3, <2>4, <2>5
<1>2. CASE ~Indexable(row)
  BY <1>2 DEF IndexObject, RemoveFromIndex
<1> QED BY <1>1, <1>2

(* A row of the memory is replaced by another, or added.                   *)
LEMMA StoredRows ==
  ASSUME NEW o, NEW row \in Row, memory' = Stored(o, row), \A p \in Present : memory[p] \in Row
  PROVE  /\ Present' = Present \cup {o} /\ memory'[o] = row
         /\ \A p \in Present' : memory'[p] \in Row
         /\ \A p \in ObjectIds \ {o} : /\ p \in Present' <=> p \in Present
                                       /\ p \in Present => memory'[p] = memory[p]
BY DEF Stored, Present

(* A rebuild begins with no chunk, nothing counted, and everything that    *)
(* may be found still to be indexed.                                       *)
LEMMA WipingKeepsText ==
  ASSUME Wipe(memory'), \A o \in Present' : memory'[o] \in Row
  PROVE  TextInv'
<1>1. /\ DOMAIN chunk' = {} /\ doc_freq' = [t \in Texts |-> 0] /\ outdated' = {}
      /\ \A o \in DOMAIN todo' : o \in Present' /\ todo'[o] = memory'[o]
      /\ behind' = {p \in Present' : Indexable(memory'[p])}
  BY DEF Wipe, Present
<1>2. ASSUME NEW o \in ObjectIds \ (behind' \cup outdated') PROVE FoundByItsText(o)'
  <2>1. ChunksOf(o)' = {}
    BY <1>1 DEF ChunksOf
  <2> QED BY <1>1, <1>2, <2>1 DEF FoundByItsText, Indexable
<1>3. ASSUME NEW t \in Texts PROVE doc_freq'[t] >= Cardinality(Holding(DOMAIN chunk, t)')
  <2>1. Holding(DOMAIN chunk, t)' = {}
    BY <1>1 DEF Holding
  <2> QED BY <1>1, <2>1, FS_EmptySet
<1> QED BY <1>1, <1>2, <1>3 DEF TextInv, TextIndexIsTrue, LexicalMatchesMemory, TermsAreCounted

(* An empty index of an empty memory.                                      *)
LEMMA TextInit == Init => TextInv
<1> SUFFICES ASSUME Init PROVE TextInv
  OBVIOUS
<1>1. /\ DOMAIN chunk = {} /\ doc_freq = [t \in Texts |-> 0] /\ Present = {}
      /\ todo = NoRebuild
  BY DEF Init, Present
<1>2. \A o : FoundByItsText(o)
  BY <1>1 DEF FoundByItsText, ChunksOf
<1>3. \A t : Holding(DOMAIN chunk, t) = {}
  BY <1>1 DEF Holding
<1>4. \A t : Cardinality(Holding(DOMAIN chunk, t)) = 0
  BY <1>3, FS_EmptySet
<1> QED BY <1>1, <1>2, <1>4 DEF TextInv, TextIndexIsTrue, LexicalMatchesMemory, TermsAreCounted

(* Taking an object out of the index leaves the others as they are.        *)
LEMMA RemovingKeepsText ==
  ASSUME TextInv, NEW o,
         chunk' = [c \in DOMAIN chunk \ ChunksOf(o) |-> chunk[c]],
         \/ doc_freq' = Recounted(o, <<>>)
         \/ doc_freq' = doc_freq,
         behind' = behind \ {o}, outdated' = outdated \ {o},
         ~(o \in Present' /\ Indexable(memory'[o])),
         \A p \in ObjectIds \ {o} : /\ p \in Present' <=> p \in Present
                                    /\ p \in Present => memory'[p] = memory[p]
  PROVE  DOMAIN chunk' \subseteq ChunkIds /\ doc_freq' \in [Texts -> Nat] /\ TextIndexIsTrue'
<1>1. OthersStay(o) /\ ChunksOf(o)' = {} /\ DOMAIN chunk' \subseteq DOMAIN chunk
  BY RemovedTexts
<1>2. IsFiniteSet(DOMAIN chunk) /\ IsFiniteSet(DOMAIN chunk') /\ DOMAIN chunk' \subseteq ChunkIds
  BY <1>1, ChunkIdsAssumption, FS_Subset DEF TextInv
<1>3. doc_freq' \in [Texts -> Nat] /\ TermsAreCounted'
  <2>1. CASE doc_freq' = Recounted(o, <<>>)
    <3>1. \A t : Holding(ChunksOf(o), t)' = {}
      BY <1>1 DEF Holding
    <3>2. \A t : Cardinality(Holding(ChunksOf(o), t)') = 0
      BY <3>1, FS_EmptySet
    <3>3. Counting(o, <<>>)
      BY <2>1, <3>2, NothingSaid DEF Counting
    <3> QED BY <1>1, <1>2, <3>3, CountsHold DEF TextInv, TextIndexIsTrue
  <2>2. CASE doc_freq' = doc_freq
    <3>1. ASSUME NEW t \in Texts
          PROVE  doc_freq[t] >= Cardinality(Holding(DOMAIN chunk, t)')
      <4> DEFINE A == Holding(DOMAIN chunk, t)
                 after == Holding(DOMAIN chunk, t)'
      <4>1. after \in SUBSET A
        BY DEF Holding
      <4>2. IsFiniteSet(A)
        BY <1>2, FS_Subset DEF Holding
      <4>3. doc_freq[t] >= Cardinality(A) /\ doc_freq[t] \in Nat
        BY DEF TextInv, TextIndexIsTrue, TermsAreCounted
      <4> HIDE DEF A, after
      <4>4. Cardinality(after) <= Cardinality(A) /\ Cardinality(after) \in Nat /\ Cardinality(A) \in Nat
        BY <4>1, <4>2, FS_Subset, FS_CardinalityType
      <4>5. doc_freq[t] >= Cardinality(after)
        BY <4>3, <4>4
      <4> QED BY <4>5 DEF after
    <3> QED BY <2>2, <3>1 DEF TextInv, TermsAreCounted
  <2> QED BY <2>1, <2>2
<1>4. ASSUME NEW p \in ObjectIds \ (behind' \cup outdated') PROVE FoundByItsText(p)'
  <2>1. CASE p = o
    <3>1. {chunk'[c].text : c \in ChunksOf(o)'} = {}
      BY <1>1
    <3> QED BY <2>1, <3>1 DEF FoundByItsText, Indexable
  <2>2. CASE p # o
    BY <1>1, <2>2, FoundAsBefore DEF TextInv, TextIndexIsTrue, LexicalMatchesMemory
  <2> QED BY <2>1, <2>2
<1> QED BY <1>2, <1>3, <1>4 DEF TextIndexIsTrue, LexicalMatchesMemory

(* Steps that write neither chunks nor counts.                             *)
LEMMA UntouchedText ==
  ASSUME TextInv, chunk' = chunk, doc_freq' = doc_freq,
         NEW os, behind' = behind \cup os, outdated' = outdated,
         \A o \in Present' : memory'[o] \in Row,
         todo' # NoRebuild => \A o \in DOMAIN todo' : todo'[o] \in Row,
         \A p \in ObjectIds \ os : /\ p \in Present' <=> p \in Present
                                   /\ p \in Present => memory'[p] = memory[p]
  PROVE  TextInv'
<1>1. ASSUME NEW p \in ObjectIds \ (behind' \cup outdated') PROVE FoundByItsText(p)'
  <2>1. FoundByItsText(p) /\ p \in ObjectIds \ os
    BY <1>1 DEF TextInv, TextIndexIsTrue, LexicalMatchesMemory
  <2>2. ChunksOf(p)' = ChunksOf(p)
    BY DEF ChunksOf
  <2> QED BY <2>1, <2>2 DEF FoundByItsText, Indexable
<1>2. TermsAreCounted'
  BY DEF TextInv, TextIndexIsTrue, TermsAreCounted, Holding
<1> QED BY <1>1, <1>2 DEF TextInv, TextIndexIsTrue, LexicalMatchesMemory

(* Every step keeps the text index true.                                   *)
LEMMA TextStep == TextInv /\ [Next]_vars => TextInv'
<1> SUFFICES ASSUME TextInv, [Next]_vars PROVE TextInv'
  OBVIOUS
<1>0. /\ \A o \in Present : memory[o] \in Row
      /\ todo # NoRebuild => \A o \in DOMAIN todo : todo[o] \in Row
      /\ DOMAIN chunk \subseteq ChunkIds
  BY DEF TextInv
<1>1. ASSUME NEW o \in ObjectIds, NEW pieces \in Pieces, Remember(o, pieces)
      PROVE  TextInv'
  <2> DEFINE row == [pieces |-> pieces, state |-> "active"]
  <2>1. row \in Row /\ memory' = Stored(o, row) /\ todo' = todo
    BY <1>1, StatesAssumption DEF Remember, Row
  <2>2. IndexObject(o, memory'[o], "none")
    BY <1>1 DEF Remember
  <2> HIDE DEF row
  <2> QED BY <1>0, <2>1, <2>2, StoredRows, IndexingKeepsText, IndexingStaysInBounds DEF TextInv
<1>2. ASSUME NEW o \in ObjectIds, NEW row \in Row, Correct(o, row)
      PROVE  TextInv'
  <2>1. memory' = Stored(o, row) /\ todo' = todo /\ IndexObject(o, row, "none")
    BY <1>2 DEF Correct
  <2> QED BY <1>0, <2>1, StoredRows, IndexingKeepsText, IndexingStaysInBounds DEF TextInv
<1>3. ASSUME NEW o \in ObjectIds, NEW row \in Row, Arrive(o, row)
      PROVE  TextInv'
  <2>1. memory' = Stored(o, row) /\ Wipe(memory')
    BY <1>3 DEF Arrive
  <2> QED BY <1>0, <2>1, StoredRows, WipingKeepsText
<1>4. ASSUME NEW o \in ObjectIds, NEW state \in {"archived", "deleted"}, PutAway(o, state)
      PROVE  TextInv'
  <2>1. /\ memory' = [memory EXCEPT ![o].state = state] /\ todo' = todo /\ o \in Present
        /\ chunk' = [c \in DOMAIN chunk \ ChunksOf(o) |-> chunk[c]]
        /\ doc_freq' = Recounted(o, <<>>)
        /\ behind' = behind \ {o} /\ outdated' = outdated \ {o}
    BY <1>4 DEF PutAway, RemoveFromIndex
  <2>2. Present' = Present
    BY <2>1 DEF Present
  <2>3. memory[o] \in Row /\ memory'[o] = [memory[o] EXCEPT !.state = state]
    BY <1>0, <2>1 DEF Present
  <2>4. memory'[o] \in Row /\ memory'[o].state = state
    BY <2>3, StatesAssumption DEF Row
  <2>5. \A p \in ObjectIds \ {o} : p \in Present => memory'[p] = memory[p]
    BY <2>1 DEF Present
  <2>6. \A p \in Present' : memory'[p] \in Row
    BY <1>0, <2>1, <2>2, <2>4 DEF Present
  <2>7. ~Indexable(memory'[o])
    BY <2>4 DEF Indexable
  <2>8. DOMAIN chunk' \subseteq ChunkIds /\ doc_freq' \in [Texts -> Nat] /\ TextIndexIsTrue'
    BY <2>1, <2>2, <2>5, <2>7, RemovingKeepsText
  <2> QED BY <1>0, <2>1, <2>6, <2>8 DEF TextInv
<1>5. ASSUME NEW o \in ObjectIds, Erase(o)
      PROVE  TextInv'
  <2>1. /\ memory' = [p \in Present \ {o} |-> memory[p]] /\ todo' = todo
        /\ chunk' = [c \in DOMAIN chunk \ ChunksOf(o) |-> chunk[c]]
        /\ doc_freq' = doc_freq
        /\ behind' = behind \ {o} /\ outdated' = outdated \ {o}
    BY <1>5 DEF Erase
  <2>2. Present' = Present \ {o} /\ \A p \in Present' : memory'[p] = memory[p]
    BY <2>1 DEF Present
  <2>3. \A p \in ObjectIds \ {o} : /\ p \in Present' <=> p \in Present
                                   /\ p \in Present => memory'[p] = memory[p]
    BY <2>2
  <2>4. DOMAIN chunk' \subseteq ChunkIds /\ doc_freq' \in [Texts -> Nat] /\ TextIndexIsTrue'
    BY <2>1, <2>2, <2>3, RemovingKeepsText
  <2> QED BY <1>0, <2>1, <2>2, <2>4 DEF TextInv
<1>6. ASSUME NEW o \in ObjectIds, IndexNext(o)
      PROVE  TextInv'
  <2>1. memory' = memory /\ Present' = Present /\ todo' = todo
    BY <1>6 DEF IndexNext, Present
  <2>2. CASE o \in Present
    <3>1. IndexObject(o, memory[o], "review")
      BY <1>6, <2>2 DEF IndexNext
    <3>2. memory[o] \in Row
      BY <1>0, <2>2
    <3> QED BY <1>0, <2>1, <2>2, <3>1, <3>2, IndexingKeepsText, IndexingStaysInBounds DEF TextInv
  <2>3. CASE o \notin Present
    <3>1. UNCHANGED <<chunk, doc_freq, behind, outdated>>
      BY <1>6, <2>3 DEF IndexNext
    <3>2. behind' = behind \cup {}
      BY <3>1
    <3> QED BY <1>0, <2>1, <3>1, <3>2, UntouchedText
  <2> QED BY <2>2, <2>3
<1>7. ASSUME NEW o \in ObjectIds, RebuildNext(o)
      PROVE  TextInv'
  <2>1. memory' = memory /\ Present' = Present /\ todo # NoRebuild /\ o \in DOMAIN todo
    BY <1>7 DEF RebuildNext, Present
  <2>2. CASE /\ Writable(o, todo[o])
             /\ IndexObject(o, todo[o], "rebuild")
             /\ todo' = [p \in DOMAIN todo \ {o} |-> todo[p]]
    <3>1. todo[o] \in Row
      BY <1>0, <2>1
    <3>2. \A p \in DOMAIN todo' : todo'[p] \in Row
      BY <1>0, <2>1, <2>2
    <3>3. Indexable(todo[o]) => o \in Present'
      BY <2>1, <2>2 DEF Writable
    <3> QED BY <1>0, <2>1, <2>2, <3>1, <3>2, <3>3, IndexingKeepsText, IndexingStaysInBounds
            DEF TextInv
  <2>3. CASE todo' = NoRebuild /\ UNCHANGED <<chunk, doc_freq, behind, outdated>>
    <3>1. behind' = behind \cup {}
      BY <2>3
    <3> QED BY <1>0, <2>1, <2>3, <3>1, UntouchedText
  <2> QED BY <1>7, <2>2, <2>3 DEF RebuildNext
<1>8. ASSUME NEW os \in SUBSET ObjectIds, NEW accepted \in [os -> Pieces], ReviewAll(accepted)
      PROVE  TextInv'
  <2>1. /\ memory' = Bulk(accepted) /\ behind' = behind \cup os
        /\ UNCHANGED <<chunk, doc_freq, todo, outdated>>
        /\ \A o \in os : Applies(o)
    BY <1>8 DEF ReviewAll
  <2>2. Present' = Present \cup os
    BY <2>1 DEF Bulk, Present
  <2>3. \A p \in Present' : memory'[p] = IF p \notin os THEN memory[p]
                                         ELSE [pieces |-> accepted[p],
                                               state |-> IF p \in Present THEN memory[p].state
                                                         ELSE "active"]
    BY <2>1, <2>2 DEF Bulk, Present
  <2>4. \A p \in Present' : memory'[p] \in Row
    <3>1. "active" \in States
      BY StatesAssumption
    <3>2. ASSUME NEW p \in os PROVE memory'[p] \in Row
      <4>1. accepted[p] \in Pieces
        OBVIOUS
      <4>2. (IF p \in Present THEN memory[p].state ELSE "active") \in States
        BY <1>0, <3>1 DEF Row
      <4> DEFINE was == IF p \in Present THEN memory[p].state ELSE "active"
      <4>3. memory'[p] = [pieces |-> accepted[p], state |-> was]
        BY <2>2, <2>3
      <4> HIDE DEF was
      <4> QED BY <4>1, <4>2, <4>3 DEF Row, was
    <3> QED BY <1>0, <2>2, <2>3, <3>2
  <2>5. \A p \in ObjectIds \ os : /\ p \in Present' <=> p \in Present
                                  /\ p \in Present => memory'[p] = memory[p]
    BY <2>2, <2>3
  <2> QED BY <1>0, <2>1, <2>4, <2>5, UntouchedText
<1>9. CASE Reindex
  BY <1>0, <1>9, WipingKeepsText DEF Reindex, Present
<1>10. ASSUME \/ RebuildDone \/ BuildVectorIndex \/ Restart \/ UNCHANGED vars
              \/ \E n \in DOMAIN jobs : Embedded(n) \/ EmbedderFails(n)
       PROVE  TextInv'
  <2>1. /\ UNCHANGED <<memory, chunk, doc_freq, behind, outdated>>
        /\ todo' = todo \/ todo' = NoRebuild
    BY <1>10 DEF RebuildDone, BuildVectorIndex, Restart, Embedded, EmbedderFails, vars
  <2>2. behind' = behind \cup {} /\ Present' = Present
    BY <2>1 DEF Present
  <2> QED BY <1>0, <2>1, <2>2, UntouchedText
<1> QED BY <1>1, <1>2, <1>3, <1>4, <1>5, <1>6, <1>7, <1>8, <1>9, <1>10 DEF Next

(* Full text says what the memory says, whatever is awaited, fails or is   *)
(* begun again: an object that no loop has yet to index is found by what   *)
(* it says now and by nothing else, and no term is counted too low.        *)
THEOREM TextIsFoundAsItStands == Spec => []TextIndexIsTrue
<1>1. TextInv => TextIndexIsTrue
  BY DEF TextInv
<1> QED BY TextInit, TextStep, <1>1, PTL DEF Spec

(* What is awaited is of chunks of one object, and a rebuild waits only    *)
(* while it runs, on objects that are there.                               *)
Owned == \A j \in Range(jobs) : \A c \in j.needing \cap DOMAIN chunk : chunk[c].object = j.object
VectorInv ==
    /\ jobs \in Seq(Job)
    /\ Owned
    /\ \A j \in Range(jobs) : j.loop = "rebuild" => todo # NoRebuild
    /\ Present \subseteq ObjectIds
    /\ todo # NoRebuild => DOMAIN todo \subseteq Present
    /\ VectorIndexIsTrue

(* The embedder answers, the process lives and nobody calls anything       *)
(* before a rebuild is through.                                            *)
Undisturbed == "embedder" \notin Faults /\ "restart" \notin Faults /\ "overlap" \notin Faults

(* What indexing an object adds to what is awaited.                        *)
Awaits(o, loop, job) ==
    /\ job.object = o /\ job.loop = loop /\ job.needing \subseteq ChunksOf(o)'
    /\ job \in Job
    /\ \A c \in ChunksOf(o)' \ vector' : c \in job.needing

(* What is still to be embedded after an object was indexed.               *)
LEMMA IndexingAwaits ==
  ASSUME NEW o \in ObjectIds, NEW row \in Row, NEW loop \in {"none", "review", "rebuild"},
         IndexObject(o, row, loop), DOMAIN chunk \subseteq ChunkIds
  PROVE  /\ OthersStay(o)
         /\ vector' \subseteq vector
         /\ \A c \in vector : c \in DOMAIN chunk' /\ chunk'[c].object # o => c \in vector'
         /\ \/ jobs' = jobs /\ ChunksOf(o)' \subseteq vector'
            \/ \E job \in Job : jobs' = Append(jobs, job) /\ Awaits(o, loop, job)
         /\ \A j \in Range(jobs) : j.needing \cap DOMAIN chunk' \subseteq DOMAIN chunk
         /\ \A c \in DOMAIN chunk \cap DOMAIN chunk' : chunk'[c] = chunk[c]
         /\ ann' = ann \/ (ann # NoAnn /\ \E more : ann' = ann \cup more)
<1>1. ann' = ann \/ (ann # NoAnn /\ \E more : ann' = ann \cup more)
  BY DEF IndexObject, Told
<1>2. OthersStay(o)
  BY IndexingIs
<1>3. /\ ChunksOf(o) = {c \in DOMAIN chunk : chunk[c].object = o}
      /\ ChunksOf(o)' = {c \in DOMAIN chunk' : chunk'[c].object = o}
  BY DEF ChunksOf
<1>4. CASE Indexable(row)
  <2> DEFINE pieces == row.pieces
             kept == Kept(o, pieces)
  <2>1. WriteChunks(o, pieces, loop) /\ pieces \in Pieces
    BY <1>4 DEF IndexObject, Row
  <2>2. PICK id : WroteAs(o, pieces, loop, id)
    BY <2>1, WritingIs
  <2>3. kept \subseteq ChunksOf(o)
    BY DEF Kept, Holding
  <2> DEFINE needing == Range(id) \cup (kept \ vector)
             job == [object |-> o, needing |-> needing, loop |-> loop]
  <2>4. /\ id \in [New(o, pieces) -> ChunkIds \ Taken]
        /\ DOMAIN chunk' = (DOMAIN chunk \ ChunksOf(o)) \cup kept \cup Range(id)
        /\ \A n \in New(o, pieces) : chunk'[id[n]].object = o
        /\ \A c \in (DOMAIN chunk \ ChunksOf(o)) \cup kept : chunk'[c] = chunk[c]
        /\ vector' = vector \ (ChunksOf(o) \ kept)
        /\ jobs' = IF needing = {} THEN jobs ELSE Append(jobs, job)
    BY <2>2 DEF WroteAs
  <2> HIDE DEF kept, pieces
  <2>5. /\ Range(id) \cap DOMAIN chunk = {} /\ Range(id) \subseteq ChunkIds
        /\ \A j \in Range(jobs) : Range(id) \cap j.needing = {}
        /\ \A c \in Range(id) : chunk'[c].object = o
    BY <2>4 DEF Range, Taken
  <2>6. ChunksOf(o)' = kept \cup Range(id)
    BY <1>3, <2>3, <2>4, <2>5
  <2>7. needing \subseteq ChunksOf(o)' /\ needing \subseteq ChunkIds
    BY <1>3, <2>3, <2>5, <2>6
  <2>8. job \in Job /\ job.object = o /\ job.loop = loop /\ job.needing = needing
    BY <2>7 DEF Job
  <2>9. \A c \in ChunksOf(o)' \ vector' : c \in needing
    BY <2>4, <2>6
  <2>10. Awaits(o, loop, job)
    BY <2>7, <2>8, <2>9 DEF Awaits
  <2>11. needing = {} => jobs' = jobs /\ ChunksOf(o)' \subseteq vector'
    BY <2>4, <2>9
  <2>12. needing # {} => jobs' = Append(jobs, job)
    BY <2>4
  <2>13. \A c \in vector : c \in DOMAIN chunk' /\ chunk'[c].object # o => c \in vector'
    BY <1>3, <2>3, <2>4, <2>5, <2>6
  <2>14. \A j \in Range(jobs) : j.needing \cap DOMAIN chunk' \subseteq DOMAIN chunk
    BY <1>3, <2>3, <2>4, <2>5
  <2>15. \A c \in DOMAIN chunk \cap DOMAIN chunk' : chunk'[c] = chunk[c]
    BY <2>4, <2>5
  <2>16. vector' \subseteq vector
    BY <2>4
  <2> HIDE DEF job, needing
  <2> QED BY <1>1, <1>2, <2>8, <2>10, <2>11, <2>12, <2>13, <2>14, <2>15, <2>16
<1>5. CASE ~Indexable(row)
  <2>1. /\ chunk' = [c \in DOMAIN chunk \ ChunksOf(o) |-> chunk[c]]
        /\ vector' = vector \ ChunksOf(o) /\ jobs' = jobs
    BY <1>5 DEF IndexObject, RemoveFromIndex
  <2>2. ChunksOf(o)' = {}
    BY <2>1, RemovedTexts
  <2>3. \A c \in vector : c \in DOMAIN chunk' => c \in vector'
    BY <2>1
  <2> QED BY <1>1, <1>2, <2>1, <2>2, <2>3
<1> QED BY <1>4, <1>5

(* What is waited for is taken from one end or from the middle.            *)
LEMMA AppendedTo ==
  ASSUME NEW S, NEW s \in Seq(S), NEW x \in S
  PROVE  Append(s, x) \in Seq(S) /\ Range(Append(s, x)) = Range(s) \cup {x}
<1>1. /\ Append(s, x) \in Seq(S) /\ Len(Append(s, x)) = Len(s) + 1
      /\ \A n \in 1..Len(s) : Append(s, x)[n] = s[n]
      /\ Append(s, x)[Len(s) + 1] = x
  OBVIOUS
<1>2. DOMAIN s = 1..Len(s) /\ DOMAIN Append(s, x) = 1..(Len(s) + 1) /\ Len(s) \in Nat
  BY <1>1
<1>3. \A n \in DOMAIN Append(s, x) : n \in DOMAIN s \/ n = Len(s) + 1
  BY <1>2
<1>4. \A n \in DOMAIN s : n \in DOMAIN Append(s, x)
  BY <1>2
<1> QED BY <1>1, <1>2, <1>3, <1>4 DEF Range

(* A job that is taken leaves the others.                                  *)
LEMMA RemovedFrom ==
  ASSUME NEW S, NEW s \in Seq(S), NEW n \in DOMAIN s
  PROVE  /\ RemoveAt(s, n) \in Seq(S)
         /\ Range(RemoveAt(s, n)) \subseteq Range(s)
         /\ \A m \in DOMAIN s : m # n => s[m] \in Range(RemoveAt(s, n))
<1>1. n \in 1..Len(s) /\ Len(s) \in Nat
  OBVIOUS
<1> DEFINE A == SubSeq(s, 1, n - 1)
           B == SubSeq(s, n + 1, Len(s))
<1>2. /\ A \in Seq(S) /\ Len(A) = n - 1 /\ \A i \in 1..(n - 1) : A[i] = s[i]
      /\ B \in Seq(S) /\ Len(B) = Len(s) - n
      /\ \A i \in 1..(Len(s) - n) : B[i] = s[n + i]
  <2>1. /\ n - 1 <= Len(s) /\ 1 \in Int /\ n - 1 \in Int
        /\ \A i \in 1..(n - 1) : i \in 1..Len(s)
        /\ \A i \in (n + 1)..Len(s) : i \in 1..Len(s)
    BY <1>1
  <2>2. A \in Seq(S) /\ Len(A) = n - 1 /\ \A i \in 1..(n - 1) : A[i] = s[i]
    BY <1>1, <2>1
  <2>3. B \in Seq(S) /\ Len(B) = Len(s) - n
    BY <1>1, <2>1
  <2>4. \A i \in 1..(Len(s) - n) : B[i] = s[n + i]
    BY <1>1, <2>1
  <2> QED BY <2>2, <2>3, <2>4
<1>3. /\ RemoveAt(s, n) \in Seq(S) /\ Len(RemoveAt(s, n)) = Len(s) - 1
      /\ \A i \in 1..(Len(s) - 1) : RemoveAt(s, n)[i] = IF i < n THEN s[i] ELSE s[i + 1]
  <2>1. RemoveAt(s, n) = A \o B
    BY DEF RemoveAt
  <2> HIDE DEF A, B
  <2>2. /\ A \o B \in Seq(S) /\ Len(A \o B) = Len(s) - 1
        /\ \A i \in 1..(Len(s) - 1) : (A \o B)[i] = IF i <= n - 1 THEN A[i] ELSE B[i - (n - 1)]
    <3>1. /\ A \in Seq(S) /\ B \in Seq(S)
          /\ A \o B \in Seq(S) /\ Len(A \o B) = Len(A) + Len(B)
          /\ \A i \in 1..(Len(A) + Len(B)) : (A \o B)[i] = IF i <= Len(A) THEN A[i] ELSE B[i - Len(A)]
      BY <1>2
    <3>2. Len(A) + Len(B) = Len(s) - 1 /\ Len(A) = n - 1
      BY <1>1, <1>2
    <3> QED BY <3>1, <3>2
  <2>3. ASSUME NEW i \in 1..(Len(s) - 1) PROVE (A \o B)[i] = IF i < n THEN s[i] ELSE s[i + 1]
    <3>1. CASE i < n
      BY <1>1, <1>2, <2>2, <3>1
    <3>2. CASE ~(i < n)
      <4>1. i - (n - 1) \in 1..(Len(s) - n) /\ n + (i - (n - 1)) = i + 1
        BY <1>1, <3>2
      <4>2. B[i - (n - 1)] = s[n + (i - (n - 1))]
        BY <1>2, <4>1
      <4>3. (A \o B)[i] = B[i - (n - 1)]
        BY <1>1, <2>2, <3>2
      <4> QED BY <3>2, <4>1, <4>2, <4>3
    <3> QED BY <3>1, <3>2
  <2> QED BY <2>1, <2>2, <2>3
<1>4. DOMAIN RemoveAt(s, n) = 1..(Len(s) - 1)
  BY <1>1, <1>3
<1>5. Range(RemoveAt(s, n)) \subseteq Range(s)
  <2>1. \A i \in 1..(Len(s) - 1) : i \in 1..Len(s) /\ i + 1 \in 1..Len(s)
    BY <1>1
  <2> QED BY <1>3, <1>4, <2>1 DEF Range
<1>6. ASSUME NEW m \in DOMAIN s, m # n PROVE s[m] \in Range(RemoveAt(s, n))
  <2>1. CASE m < n
    <3>1. m \in 1..(Len(s) - 1) /\ RemoveAt(s, n)[m] = s[m]
      BY <1>1, <1>3, <2>1
    <3> QED BY <1>4, <3>1 DEF Range
  <2>2. CASE m > n
    <3>1. m - 1 \in 1..(Len(s) - 1) /\ RemoveAt(s, n)[m - 1] = s[m]
      BY <1>1, <1>3, <2>2
    <3> QED BY <1>4, <3>1 DEF Range
  <2> QED BY <1>1, <1>6, <2>1, <2>2
<1> QED BY <1>3, <1>5, <1>6

(* Indexing an object takes nothing from what others wait for.             *)
LEMMA IndexingKeepsVectors ==
  ASSUME TextInv, VectorInv, NEW o \in ObjectIds, NEW row \in Row,
         NEW loop \in {"none", "review", "rebuild"}, IndexObject(o, row, loop),
         todo # NoRebuild => todo' # NoRebuild,
         loop = "rebuild" => todo' # NoRebuild
  PROVE  /\ jobs' \in Seq(Job) /\ Owned' /\ VectorIndexIsTrue'
         /\ \A j \in Range(jobs') : j.loop = "rebuild" => todo' # NoRebuild
<1>1. /\ OthersStay(o)
      /\ vector' \subseteq vector
      /\ \A c \in vector : c \in DOMAIN chunk' /\ chunk'[c].object # o => c \in vector'
      /\ \/ jobs' = jobs /\ ChunksOf(o)' \subseteq vector'
         \/ \E job \in Job : jobs' = Append(jobs, job) /\ Awaits(o, loop, job)
      /\ \A j \in Range(jobs) : j.needing \cap DOMAIN chunk' \subseteq DOMAIN chunk
      /\ \A c \in DOMAIN chunk \cap DOMAIN chunk' : chunk'[c] = chunk[c]
      /\ ann' = ann \/ (ann # NoAnn /\ \E more : ann' = ann \cup more)
  BY IndexingAwaits DEF TextInv
<1>2. /\ jobs' \in Seq(Job) /\ Range(jobs) \subseteq Range(jobs')
      /\ \A j \in Range(jobs') : j \in Range(jobs) \/ Awaits(o, loop, j)
      /\ \/ ChunksOf(o)' \subseteq vector'
         \/ \E j \in Range(jobs') : Awaits(o, loop, j)
  <2>1. jobs \in Seq(Job)
    BY DEF VectorInv
  <2>2. CASE jobs' = jobs /\ ChunksOf(o)' \subseteq vector'
    BY <2>1, <2>2
  <2>3. ASSUME NEW job \in Job, jobs' = Append(jobs, job), Awaits(o, loop, job)
        PROVE  /\ jobs' \in Seq(Job) /\ Range(jobs') = Range(jobs) \cup {job}
               /\ Awaits(o, loop, job)
    BY <2>1, <2>3, AppendedTo
  <2> QED BY <1>1, <2>2, <2>3
<1>3. \A c : c \in ChunksOf(o)' <=> c \in DOMAIN chunk' /\ chunk'[c].object = o
  BY DEF ChunksOf
<1>4. Owned'
  BY <1>1, <1>2, <1>3 DEF VectorInv, Owned, Awaits
<1>5. \A j \in Range(jobs') : j.loop = "rebuild" => todo' # NoRebuild
  BY <1>2 DEF VectorInv, Awaits
<1>6. AnnMissesNothing'
  BY <1>1 DEF VectorInv, VectorIndexIsTrue, AnnMissesNothing
<1>7. ASSUME NEW c \in DOMAIN chunk' \ vector'
      PROVE  \E j \in Range(jobs') : c \in j.needing /\ j.needing \subseteq DOMAIN chunk'
  <2>1. CASE chunk'[c].object = o
    BY <1>2, <1>3, <1>7, <2>1 DEF Awaits
  <2>2. CASE chunk'[c].object # o
    <3>1. c \in DOMAIN chunk \ vector /\ chunk[c].object # o
      BY <1>1, <1>7, <2>2 DEF OthersStay
    <3>2. PICK j \in Range(jobs) : c \in j.needing /\ j.needing \subseteq DOMAIN chunk
      BY <3>1 DEF VectorInv, VectorIndexIsTrue, VectorsAreOnTheirWay
    <3>3. \A d \in j.needing : chunk[d].object # o
      BY <3>1, <3>2 DEF VectorInv, Owned
    <3>4. j.needing \subseteq DOMAIN chunk'
      BY <1>1, <3>2, <3>3 DEF OthersStay
    <3> QED BY <1>2, <3>2, <3>4
  <2> QED BY <2>1, <2>2
<1> QED BY <1>2, <1>4, <1>5, <1>6, <1>7 DEF VectorIndexIsTrue, VectorsAreOnTheirWay

(* The vectors of an object go with its chunks.                            *)
LEMMA RemovingKeepsVectors ==
  ASSUME VectorInv, NEW o, chunk' = [c \in DOMAIN chunk \ ChunksOf(o) |-> chunk[c]],
         vector' = vector \ ChunksOf(o), jobs' = jobs, ann' = ann, todo' = todo
  PROVE  Owned' /\ VectorIndexIsTrue'
<1>1. /\ \A c : c \in DOMAIN chunk' <=> c \in DOMAIN chunk /\ chunk[c].object # o
      /\ \A c \in DOMAIN chunk' : chunk'[c] = chunk[c]
      /\ \A c \in DOMAIN chunk' : c \in vector => c \in vector'
      /\ vector' \subseteq vector
  BY DEF ChunksOf
<1>2. Owned'
  BY <1>1 DEF VectorInv, Owned
<1>3. AnnMissesNothing'
  BY <1>1 DEF VectorInv, VectorIndexIsTrue, AnnMissesNothing
<1>4. ASSUME NEW c \in DOMAIN chunk' \ vector'
      PROVE  \E j \in Range(jobs) : c \in j.needing /\ j.needing \subseteq DOMAIN chunk'
  <2>1. c \in DOMAIN chunk \ vector /\ chunk[c].object # o
    BY <1>1, <1>4
  <2>2. PICK j \in Range(jobs) : c \in j.needing /\ j.needing \subseteq DOMAIN chunk
    BY <2>1 DEF VectorInv, VectorIndexIsTrue, VectorsAreOnTheirWay
  <2>3. \A d \in j.needing : chunk[d].object # o
    BY <2>1, <2>2 DEF VectorInv, Owned
  <2> QED BY <1>1, <2>2, <2>3
<1> QED BY <1>2, <1>3, <1>4 DEF VectorIndexIsTrue, VectorsAreOnTheirWay

(* An answer stores what it was asked for, unless some of it is gone: then *)
(* what is left of it is awaited by another job as well.                   *)
LEMMA AnswersAreStored ==
  ASSUME VectorInv, NEW n \in DOMAIN jobs, Embedded(n)
  PROVE  VectorInv'
<1>1. /\ jobs' = RemoveAt(jobs, n)
      /\ vector' = StoredVectors(jobs[n].needing)
      /\ UNCHANGED <<memory, chunk, todo>>
      /\ ann' = Told(jobs[n].object, jobs[n].loop)
  BY DEF Embedded
<1>2. /\ jobs' \in Seq(Job) /\ Range(jobs') \subseteq Range(jobs)
      /\ \A m \in DOMAIN jobs : m # n => jobs[m] \in Range(jobs')
  BY <1>1, RemovedFrom DEF VectorInv
<1>3. jobs[n] \in Range(jobs)
  BY DEF Range
<1>4. Owned' /\ \A j \in Range(jobs') : j.loop = "rebuild" => todo' # NoRebuild
  BY <1>1, <1>2 DEF VectorInv, Owned
<1>5. AnnMissesNothing'
  <2> SUFFICES ASSUME ann' # NoAnn, todo = NoRebuild PROVE vector' \subseteq ann'
    BY <1>1 DEF AnnMissesNothing
  <2>1. jobs[n].loop # "rebuild"
    BY <1>3 DEF VectorInv
  <2>2. ann # NoAnn /\ ann' = ann \cup {c \in vector' : chunk'[c].object = jobs[n].object}
    BY <1>1, <2>1 DEF Told
  <2>3. vector \subseteq ann
    BY <2>2 DEF VectorInv, VectorIndexIsTrue, AnnMissesNothing
  <2>4. \A c \in vector' : c \in vector \/ chunk'[c].object = jobs[n].object
    BY <1>1, <1>3 DEF StoredVectors, VectorInv, Owned
  <2> QED BY <2>2, <2>3, <2>4
<1>6. ASSUME NEW c \in DOMAIN chunk' \ vector'
      PROVE  \E j \in Range(jobs') : c \in j.needing /\ j.needing \subseteq DOMAIN chunk'
  <2>1. c \in DOMAIN chunk \ vector
    BY <1>1 DEF StoredVectors
  <2>2. PICK j \in Range(jobs) : c \in j.needing /\ j.needing \subseteq DOMAIN chunk
    BY <2>1 DEF VectorInv, VectorIndexIsTrue, VectorsAreOnTheirWay
  <2>3. PICK m \in DOMAIN jobs : j = jobs[m]
    BY <2>2 DEF Range
  <2>4. m # n
    BY <1>1, <2>2, <2>3 DEF StoredVectors
  <2> QED BY <1>1, <1>2, <2>2, <2>3, <2>4
<1> QED BY <1>1, <1>2, <1>4, <1>5, <1>6
        DEF VectorInv, VectorIndexIsTrue, VectorsAreOnTheirWay, Present

(* A step that touches none of it.                                         *)
LEMMA UntouchedVectors ==
  ASSUME VectorInv, UNCHANGED <<chunk, vector, ann, jobs, todo>>
  PROVE  jobs' \in Seq(Job) /\ Owned' /\ VectorIndexIsTrue'
         /\ \A j \in Range(jobs') : j.loop = "rebuild" => todo' # NoRebuild
BY DEF VectorInv, Owned, VectorIndexIsTrue, VectorsAreOnTheirWay, AnnMissesNothing

(* A rebuild begins with nothing to be awaited.                            *)
LEMMA WipingKeepsVectors ==
  ASSUME VectorInv, Wipe(memory'), todo = NoRebuild, jobs' = jobs,
         Present' \subseteq ObjectIds
  PROVE  VectorInv'
<1>1. DOMAIN chunk' = {} /\ vector' = {} /\ DOMAIN todo' \subseteq Present'
  BY DEF Wipe, Present
<1>2. \A j \in Range(jobs) : j.loop # "rebuild"
  BY DEF VectorInv
<1> QED BY <1>1, <1>2 DEF VectorInv, Owned, VectorIndexIsTrue, VectorsAreOnTheirWay, AnnMissesNothing

(* No vectors and no jobs.                                                 *)
LEMMA VectorInit == Init => VectorInv
<1> SUFFICES ASSUME Init PROVE VectorInv
  OBVIOUS
<1>1. /\ DOMAIN chunk = {} /\ vector = {} /\ jobs = <<>> /\ Present = {}
      /\ todo = NoRebuild /\ ann = NoAnn
  BY DEF Init, Present
<1>2. jobs \in Seq(Job) /\ Range(jobs) = {}
  BY <1>1 DEF Range
<1> QED BY <1>1, <1>2 DEF VectorInv, Owned, VectorIndexIsTrue, VectorsAreOnTheirWay, AnnMissesNothing

(* Every step of an undisturbed index keeps vectors true.                  *)
LEMMA VectorStep ==
  ASSUME Undisturbed, TextInv, VectorInv, [Next]_vars
  PROVE  VectorInv'
<1>0. /\ \A o \in Present : memory[o] \in Row
      /\ todo # NoRebuild => \A o \in DOMAIN todo : todo[o] \in Row
      /\ Present \subseteq ObjectIds
      /\ todo # NoRebuild => DOMAIN todo \subseteq Present
      /\ MayCall => todo = NoRebuild
  BY DEF TextInv, VectorInv, Undisturbed, MayCall
<1>1. ASSUME NEW o \in ObjectIds, NEW pieces \in Pieces, Remember(o, pieces)
      PROVE  VectorInv'
  <2> DEFINE row == [pieces |-> pieces, state |-> "active"]
  <2>1. row \in Row /\ memory' = Stored(o, row) /\ todo' = todo
    BY <1>1, StatesAssumption DEF Remember, Row
  <2>2. IndexObject(o, memory'[o], "none") /\ MayCall
    BY <1>1 DEF Remember
  <2> HIDE DEF row
  <2> QED BY <1>0, <2>1, <2>2, StoredRows, IndexingKeepsVectors DEF VectorInv
<1>2. ASSUME NEW o \in ObjectIds, NEW row \in Row, Correct(o, row)
      PROVE  VectorInv'
  <2>1. memory' = Stored(o, row) /\ todo' = todo /\ IndexObject(o, row, "none") /\ MayCall
    BY <1>2 DEF Correct
  <2> QED BY <1>0, <2>1, StoredRows, IndexingKeepsVectors DEF VectorInv
<1>3. ASSUME NEW o \in ObjectIds, NEW row \in Row, Arrive(o, row)
      PROVE  VectorInv'
  <2>1. memory' = Stored(o, row) /\ Wipe(memory') /\ todo = NoRebuild /\ jobs' = jobs
    BY <1>3 DEF Arrive
  <2> QED BY <1>0, <2>1, StoredRows, WipingKeepsVectors
<1>4. ASSUME NEW o \in ObjectIds, NEW state \in {"archived", "deleted"}, PutAway(o, state)
      PROVE  VectorInv'
  <2>1. /\ memory' = [memory EXCEPT ![o].state = state] /\ MayCall
        /\ chunk' = [c \in DOMAIN chunk \ ChunksOf(o) |-> chunk[c]]
        /\ vector' = vector \ ChunksOf(o) /\ jobs' = jobs /\ ann' = ann /\ todo' = todo
    BY <1>4 DEF PutAway, RemoveFromIndex
  <2>2. Present' = Present
    BY <2>1 DEF Present
  <2> QED BY <1>0, <2>1, <2>2, RemovingKeepsVectors DEF VectorInv
<1>5. ASSUME NEW o \in ObjectIds, Erase(o)
      PROVE  VectorInv'
  <2>1. /\ memory' = [p \in Present \ {o} |-> memory[p]] /\ MayCall
        /\ chunk' = [c \in DOMAIN chunk \ ChunksOf(o) |-> chunk[c]]
        /\ vector' = vector \ ChunksOf(o) /\ jobs' = jobs /\ ann' = ann /\ todo' = todo
    BY <1>5 DEF Erase
  <2>2. Present' = Present \ {o}
    BY <2>1 DEF Present
  <2> QED BY <1>0, <2>1, <2>2, RemovingKeepsVectors DEF VectorInv
<1>6. ASSUME NEW o \in ObjectIds, IndexNext(o)
      PROVE  VectorInv'
  <2>1. memory' = memory /\ Present' = Present /\ todo' = todo
    BY <1>6 DEF IndexNext, Present
  <2>2. CASE o \in Present
    <3>1. IndexObject(o, memory[o], "review") /\ memory[o] \in Row
      BY <1>0, <1>6, <2>2 DEF IndexNext
    <3> QED BY <2>1, <3>1, IndexingKeepsVectors DEF VectorInv
  <2>3. CASE o \notin Present
    <3>1. UNCHANGED <<chunk, vector, ann, jobs, todo>>
      BY <1>6, <2>3 DEF IndexNext
    <3> QED BY <2>1, <3>1, UntouchedVectors DEF VectorInv
  <2> QED BY <2>2, <2>3
<1>7. ASSUME NEW o \in ObjectIds, RebuildNext(o)
      PROVE  VectorInv'
  <2>1. /\ memory' = memory /\ Present' = Present /\ todo # NoRebuild /\ o \in DOMAIN todo
        /\ Writable(o, todo[o])
    BY <1>0, <1>7 DEF RebuildNext, Writable, Present
  <2>2. IndexObject(o, todo[o], "rebuild") /\ todo' = [p \in DOMAIN todo \ {o} |-> todo[p]]
    BY <1>7, <2>1 DEF RebuildNext
  <2>3. todo' \in [DOMAIN todo \ {o} -> Row] /\ todo[o] \in Row
    BY <1>0, <2>1, <2>2
  <2>4. todo' # NoRebuild
    BY <1>0, <2>1, <2>3, NoRebuildAssumption
  <2>5. DOMAIN todo' \subseteq Present'
    BY <1>0, <2>1, <2>2
  <2> QED BY <1>0, <2>1, <2>2, <2>3, <2>4, <2>5, IndexingKeepsVectors DEF VectorInv
<1>8. ASSUME NEW os \in SUBSET ObjectIds, NEW accepted \in [os -> Pieces], ReviewAll(accepted)
      PROVE  VectorInv'
  <2>1. /\ memory' = Bulk(accepted) /\ MayCall
        /\ UNCHANGED <<chunk, vector, ann, jobs, todo>>
    BY <1>8 DEF ReviewAll
  <2>2. Present' = Present \cup os
    BY <2>1 DEF Bulk, Present
  <2> QED BY <1>0, <2>1, <2>2, UntouchedVectors DEF VectorInv
<1>9. CASE Reindex
  BY <1>0, <1>9, WipingKeepsVectors DEF Reindex, Present
<1>10. CASE RebuildDone
  <2>1. /\ UNCHANGED <<memory, chunk, vector, jobs>> /\ todo' = NoRebuild
        /\ ann' = AnnAfterRebuild /\ ~Waits("rebuild")
    BY <1>10 DEF RebuildDone
  <2>2. \A j \in Range(jobs) : j.loop # "rebuild"
    BY <2>1 DEF Waits, Range
  <2>3. ann' # NoAnn => vector \subseteq ann'
    BY <2>1 DEF AnnAfterRebuild
  <2> QED BY <2>1, <2>2, <2>3
          DEF VectorInv, Owned, VectorIndexIsTrue, VectorsAreOnTheirWay, AnnMissesNothing, Present
<1>11. CASE BuildVectorIndex
  BY <1>11 DEF BuildVectorIndex, VectorInv, Owned, VectorIndexIsTrue, VectorsAreOnTheirWay,
               AnnMissesNothing, Present
<1>12. CASE UNCHANGED vars
  BY <1>12, UntouchedVectors DEF vars, VectorInv, Present
<1>13. ASSUME NEW n \in DOMAIN jobs, Embedded(n) PROVE VectorInv'
  BY <1>13, AnswersAreStored
<1>14. ~Restart /\ \A n : ~EmbedderFails(n)
  BY DEF Restart, EmbedderFails, Undisturbed
<1> QED BY <1>1, <1>2, <1>3, <1>4, <1>5, <1>6, <1>7, <1>8, <1>9, <1>10, <1>11, <1>12, <1>13,
           <1>14 DEF Next

(* While the embedder answers, the process lives and rebuilds are left     *)
(* alone, every piece of text has its vector or will have it, however the  *)
(* objects were edited, archived or erased while earlier ones were on      *)
(* their way, and a live approximate index misses none of them.            *)
THEOREM VectorsArrive ==
  ASSUME Undisturbed PROVE Spec => []VectorIndexIsTrue
<1>1. Init => TextInv /\ VectorInv
  BY TextInit, VectorInit
<1>2. TextInv /\ VectorInv /\ [Next]_vars => (TextInv /\ VectorInv)'
  BY TextStep, VectorStep
<1>3. VectorInv => VectorIndexIsTrue
  BY DEF VectorInv
<1> QED BY <1>1, <1>2, <1>3, PTL DEF Spec
=============================================================================
