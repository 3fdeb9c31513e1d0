-------------------------------- MODULE Ann --------------------------------
(***************************************************************************)
(* src/retrieval/ann.js: the approximate index over the vectors of a       *)
(* memory, how src/chitraq.js keeps it while chunks come and go, and the   *)
(* exact scan of src/retrieval/search.js that it stands in for.            *)
(*                                                                         *)
(* Vectors are of two dimensions and of a length that Radius divides, so   *)
(* that a unit vector is one of length Radius and all cosines are whole    *)
(* numbers out of Radius squared.  A centroid is kept as the sum of its    *)
(* members, of which only the direction counts.  All vectors are of one    *)
(* model.                                                                  *)
(***************************************************************************)
EXTENDS Integers, Sequences, FiniteSets
LOCAL INSTANCE SequencesExt

CONSTANTS Vectors,       \* what an embedder may return
          Radius,
          Owners,        \* the objects chunks belong to
          SampleSize,    \* vectors that clusters are fitted on; 2000 in ann.js
          LeastToFit,    \* MIN_VECTORS_FOR_ANN
          LeastProbes,   \* lists looked through at least; 4 in ann.js
          MaxEmbedded    \* bound: chunks ever embedded

ASSUME AnnAssumption ==
    /\ Radius \in Nat \ {0} /\ SampleSize \in Nat \ {0}
    /\ LeastToFit \in Nat /\ LeastProbes \in Nat \ {0} /\ MaxEmbedded \in Nat
    /\ Vectors \subseteq Int \X Int

VARIABLES embedding,  \* table embedding in the order of its rows: [chunk, object, vec]
          ivf,        \* the fitted index, [centroids, lists], or Unfitted
          embedded    \* how many chunks were ever embedded

annVars == <<embedding, ivf, embedded>>

Unfitted == [centroids |-> <<>>, lists |-> <<>>]
Fitted == ivf # Unfitted
-----------------------------------------------------------------------------
Dot(u, v) == u[1] * v[1] + u[2] * v[2]
Plus(u, v) == <<u[1] + v[1], u[2] + v[2]>>
Origin == <<0, 0>>

(* unit() *)
Length(v) == CHOOSE n \in 0..10 * Radius : n * n = Dot(v, v)
Unit(v) == IF v = Origin THEN v
           ELSE <<(v[1] * Radius) \div Length(v), (v[2] * Radius) \div Length(v)>>

(* Whether v is closer to the direction of c than to that of d: their      *)
(* cosines, compared without a root.                                       *)
Signed(n) == IF n < 0 THEN -(n * n) ELSE n * n
Weight(c) == IF c = Origin THEN 1 ELSE Dot(c, c)
Closer(v, c, d) == Signed(Dot(v, c)) * Weight(d) > Signed(Dot(v, d)) * Weight(c)
SameDirection(c, d) == Dot(c, d) >= 0 /\ c[1] * d[2] = c[2] * d[1]
                         /\ (c = Origin <=> d = Origin)

(* Mutant: of centroids equally near the last one is taken. *)
NearestOrLast(v, centroids) ==
    FoldLeft(LAMBDA best, i : IF Closer(v, centroids[best], centroids[i]) THEN best ELSE i,
             1, [i \in DOMAIN centroids |-> i])

(* nearestCentroid(): of those equally near the first.                     *)
NearestCentroid(v, centroids) ==
    FoldLeft(LAMBDA best, i : IF Closer(v, centroids[i], centroids[best]) THEN i ELSE best,
             1, [i \in DOMAIN centroids |-> i])

Sample(vectors) ==
    IF Len(vectors) <= SampleSize THEN vectors
    ELSE [i \in 1..SampleSize |-> vectors[((i - 1) * Len(vectors)) \div SampleSize + 1]]

(* One round of kmeans(): every centroid moves to the middle of what is    *)
(* nearest to it, and stays where it is if nothing is.                     *)
Refined(vectors, centroids) ==
    LET nearest == [i \in DOMAIN vectors |-> NearestCentroid(vectors[i], centroids)]
        Sum(c) == FoldLeft(LAMBDA sum, i : IF nearest[i] = c THEN Plus(sum, vectors[i]) ELSE sum,
                           Origin, [i \in DOMAIN vectors |-> i])
    IN [c \in DOMAIN centroids |->
          IF \E i \in DOMAIN vectors : nearest[i] = c THEN Sum(c) ELSE centroids[c]]

KMeans(vectors, k) ==
    LET stride == IF Len(vectors) < k THEN 1 ELSE Len(vectors) \div k
        Strided(i) == IF (i - 1) * stride < Len(vectors) THEN (i - 1) * stride + 1 ELSE Len(vectors)
        Round(s, n) == LET next == Refined(vectors, s.centroids)
                       IN IF s.settled THEN s
                          ELSE [centroids |-> next,
                                settled |-> \A c \in 1..k : SameDirection(next[c], s.centroids[c])]
    IN FoldLeft(Round, [centroids |-> [i \in 1..k |-> vectors[Strided(i)]], settled |-> FALSE],
                <<1, 2, 3, 4, 5, 6>>).centroids

(* The root of n, rounded. *)
Lists(n) == CHOOSE k \in 1..n : (2 * k - 1) * (2 * k - 1) <= 4 * n /\ 4 * n < (2 * k + 1) * (2 * k + 1)

(* build(): clusters are fitted on a sample, then every row is assigned.   *)
Points(rows) == [i \in DOMAIN rows |-> [rows[i] EXCEPT !.vec = Unit(@)]]
Centroids(points) == KMeans(Sample([i \in DOMAIN points |-> points[i].vec]), Lists(Len(points)))
Assigned(points, centroids) ==
    [centroids |-> centroids,
     lists |-> [c \in DOMAIN centroids |->
                  SelectSeq(points, LAMBDA p : NearestCentroid(p.vec, centroids) = c)]]

(* Mutant: what is told twice is listed twice. *)
ToldAgain(index, row) ==
    LET c == NearestCentroid(Unit(row.vec), index.centroids)
    IN [index EXCEPT !.lists[c] = Append(@, [row EXCEPT !.vec = Unit(@)])]

(* add(): a vector joins the nearest cluster, in the place it already has  *)
(* there if the chunk has one.  Nothing is fitted again.                   *)
Add(index, row) ==
    LET point == [row EXCEPT !.vec = Unit(@)]
        c == NearestCentroid(point.vec, index.centroids)
        at == SelectInSeq(index.lists[c], LAMBDA p : p.chunk = row.chunk)
    IN [index EXCEPT !.lists[c] = IF at > 0 THEN [@ EXCEPT ![at] = point] ELSE Append(@, point)]
-----------------------------------------------------------------------------
(* What both searches do with [chunk, object, similarity] rows in any      *)
(* order: those too far off are left out, also in relation to the best,    *)
(* and each object has its best chunk only.  Their limit is not reached.   *)
Plausible(hits) ==
    LET sorted == SortSeq(SelectSeq(hits, LAMBDA h : 20 * h.similarity >= Radius * Radius),
                          LAMBDA a, b : a.similarity > b.similarity)
        near == SelectSeq(sorted, LAMBDA h : 10 * h.similarity >= 4 * Head(sorted).similarity)
    IN FoldLeft(LAMBDA best, h : IF \E n \in DOMAIN best : best[n].object = h.object
                                 THEN best ELSE Append(best, h), <<>>, near)

Hits(query, rows) ==
    [i \in DOMAIN rows |-> [chunk |-> rows[i].chunk, object |-> rows[i].object,
                            similarity |-> Dot(Unit(query), Unit(rows[i].vec))]]

(* vectorSearch(): every row of the table is compared.                     *)
VectorSearch(query, rows) == IF query = Origin THEN <<>> ELSE Plausible(Hits(query, rows))

(* defaultProbes() *)
DefaultProbes(lists) == LET share == (12 * lists + 99) \div 100
                        IN IF share > LeastProbes THEN share ELSE LeastProbes

(* The lists whose centroids are nearest to the query.                     *)
Probed(query, index, probes) ==
    SubSeq(SortSeq([i \in DOMAIN index.centroids |-> i],
                   LAMBDA i, j : \/ Closer(query, index.centroids[i], index.centroids[j])
                                 \/ i < j /\ ~Closer(query, index.centroids[j], index.centroids[i])),
           1, IF probes < Len(index.centroids) THEN probes ELSE Len(index.centroids))

(* search() *)
AnnSearch(query, index, probes) ==
    IF query = Origin THEN <<>>
    ELSE LET lists == Probed(Unit(query), index, probes)
         IN Plausible(Hits(query, FlattenSeq([n \in DOMAIN lists |-> index.lists[lists[n]]])))

(* One query of benchmark(), with an index fitted for the purpose: its     *)
(* recall is the share of the truth that it got.                           *)
Benchmark(query, rows, index, probes) ==
    LET truth == {h.object : h \in ToSet(VectorSearch(query, rows))}
        found == {h.object : h \in ToSet(AnnSearch(query, index, probes))}
    IN [truth |-> truth, got |-> found \cap truth]
-----------------------------------------------------------------------------
AnnInit == embedding = <<>> /\ ivf = Unfitted /\ embedded = 0

RowsOf(rows, object) == SelectSeq(rows, LAMBDA r : r.object = object)

(* The end of #index(): a live index is told of every vector of the        *)
(* object, the new ones and those it had.                                  *)
Embed(object, vec) ==
    LET rows == Append(embedding, [chunk |-> embedded + 1, object |-> object, vec |-> vec])
    IN /\ embedded < MaxEmbedded
       /\ embedded' = embedded + 1
       /\ embedding' = rows
       /\ ivf' = IF Fitted THEN FoldLeft(Add, ivf, RowsOf(rows, object)) ELSE ivf

(* indexObject() of an object whose text changed drops chunks, and         *)
(* removeFromIndex() all of them; remove() is not called by either.        *)
Drop(chunk) ==
    /\ embedding' = SelectSeq(embedding, LAMBDA r : r.chunk # chunk)
    /\ embedding' # embedding
    /\ UNCHANGED <<ivf, embedded>>

ShouldUse == Len(embedding) >= LeastToFit

(* buildVectorIndex(): small memories go without, unless told not to.     *)
Build(force) ==
    /\ force \/ ShouldUse
    /\ embedding # <<>>
    /\ \E points \in {Points(embedding)} : \E centroids \in {Centroids(points)} :
          ivf' = Assigned(points, centroids)
    /\ UNCHANGED <<embedding, embedded>>

AnnNext ==
    \/ \E object \in Owners, vec \in Vectors : Embed(object, vec)
    \/ \E n \in DOMAIN embedding : Drop(embedding[n].chunk)
    \/ \E force \in BOOLEAN : Build(force)

AnnSpec == AnnInit /\ [][AnnNext]_annVars

Embedding == [chunk : 1..MaxEmbedded, object : Owners, vec : Vectors]

AnnTypeOK == /\ embedding \in Seq(Embedding) /\ embedded \in 0..MaxEmbedded
             /\ Len(ivf.lists) = Len(ivf.centroids)
-----------------------------------------------------------------------------
Known(index) == FlattenSeq(index.lists)
ChunksIn(rows) == {r.chunk : r \in ToSet(rows)}
Similarity(query, row) == Dot(Unit(query), Unit(row.vec))
CutsOff(query, row, hit) == 10 * hit.similarity < 4 * Similarity(query, row)

(* The rows of the lists a search looks through.                           *)
LookedThrough(query, index) ==
    LET lists == Probed(Unit(query), index, DefaultProbes(Len(index.centroids)))
    IN UNION {ToSet(index.lists[lists[n]]) : n \in DOMAIN lists}

(* What the exact scan of the table finds is found, and as near, unless it *)
(* is in no list that is looked through or one that is there no more cuts  *)
(* it off; and what is found beyond that is there no more, or is cut off   *)
(* by one that was not looked at.                                          *)
AccountsFor(index, rows) ==
    \A query \in Vectors :
        LET exact == ToSet(VectorSearch(query, rows))
            found == ToSet(AnnSearch(query, index, DefaultProbes(Len(index.centroids))))
            looked == LookedThrough(query, index)
            seen == {r.chunk : r \in looked}
        IN /\ \A h \in exact :
                 \/ \E f \in found : f.object = h.object /\ f.similarity >= h.similarity
                 \/ h.chunk \notin seen
                 \/ \E r \in looked : r.chunk \notin ChunksIn(rows) /\ CutsOff(query, r, h)
           /\ \A f \in found :
                 \/ \E h \in exact : h.object = f.object
                 \/ f.chunk \notin ChunksIn(rows)
                 \/ \E r \in ToSet(rows) : r.chunk \notin seen /\ CutsOff(query, r, f)

(* "Occasionally missing a neighbour that sits just across a cluster       *)
(* boundary", and nothing else: the index lists every chunk there is, and  *)
(* none twice, whatever was added and dropped since its clusters were      *)
(* fitted; the same results are plausible as in an exact scan, but for     *)
(* what lies in a list that is not looked through and for what was dropped *)
(* and is still listed; a text is found by itself in the first list that   *)
(* is; and of an index fitted for a benchmark nothing else is missing.     *)
ApproximationHolds ==
    /\ Fitted =>
          /\ IsInjective([n \in DOMAIN Known(ivf) |-> Known(ivf)[n].chunk])
          /\ \A r \in ToSet(embedding) : [r EXCEPT !.vec = Unit(@)] \in ToSet(Known(ivf))
          /\ AccountsFor(ivf, embedding)
          /\ \A r \in ToSet(embedding) :
                r.vec # Origin =>
                   \E h \in ToSet(AnnSearch(r.vec, ivf, 1)) :
                      h.object = r.object /\ h.similarity = Radius * Radius
    /\ ~Fitted /\ embedding # <<>> =>
          \A points \in {Points(embedding)} : \A centroids \in {Centroids(points)} :
          \A index \in {Assigned(points, centroids)}, query \in Vectors :
             LET measured == Benchmark(query, embedding, index, DefaultProbes(Len(centroids)))
             IN \A object \in measured.truth \ measured.got :
                   \E r \in ToSet(embedding) :
                      r.object = object /\ r.chunk \notin {p.chunk : p \in LookedThrough(query, index)}
=============================================================================
