----------------------------- MODULE Retrieval -----------------------------
(***************************************************************************)
(* src/retrieval/search.js, src/retrieval/salience.js and the reading half *)
(* of src/core/relations.js: how several ranked lists become one, what the *)
(* state, the standing and the use of a page do to its place in it, and    *)
(* what a page is linked to.                                               *)
(*                                                                         *)
(* A page is a Knowledge Object as retrieval sees it.  What full text and  *)
(* embeddings find is a ranked list of pages, one entry per chunk that     *)
(* matched; scores are counted in millionths and multipliers in per cent.  *)
(***************************************************************************)
EXTENDS Integers, Sequences, FiniteSets
LOCAL INSTANCE SequencesExt

CONSTANTS Pages,       \* the objects that can be read
          NoPage,      \* NULL in superseded_by
          Standing,    \* what ranking reads of a page and nobody here changes
          Chronicle,   \* the pages by the time they are about, newest first
          MaxLinks,    \* bound: edges
          MaxOpens     \* bound: openings of a page that are counted

ASSUME ReadingAssumption == /\ NoPage \notin Pages
                            /\ ToSet(Chronicle) = Pages
                            /\ MaxLinks \in Nat /\ MaxOpens \in 0..2

VARIABLES page,    \* table object: what can change about a page
          link,    \* the active rows of table relation, oldest first
          opens    \* access_count of a page, counted up to MaxOpens

libraryVars == <<page, link, opens>>

PageStates == {"active", "archived", "superseded", "deleted"}
PutAway == {"archived", "superseded"}
LinkTypes == {"contradicts", "related_to"}

Card == [state : PageStates, superseded_by : Pages \cup {NoPage},
         review : {"unreviewed", "confirmed", "rejected"}]

LinkRow == [src : Pages, type : LinkTypes, dst : Pages, sure : BOOLEAN]

PagesOf(s) == {s[n].page : n \in DOMAIN s}

AtMost(s, n) == SubSeq(s, 1, IF Len(s) < n THEN Len(s) ELSE n)

Percent(n, m) == (n * m) \div 100
-----------------------------------------------------------------------------
(* neighbours(): the other ends of a page's edges, newest first, those     *)
(* going out before those coming in.  least leaves out the edges somebody  *)
(* was unsure of.                                                          *)
Neighbours(p, least) ==
    LET Reached(from, to) ==
            LET Ends(e) == [page |-> e[to], type |-> e.type]
                Fit(e) == /\ e[from] = p
                          /\ least => e.sure
                          /\ page[e[to]].state # "deleted"
                fitting == SelectSeq(Reverse(link), Fit)
            IN [n \in DOMAIN fitting |-> Ends(fitting[n])]
    IN Reached("src", "dst") \o Reached("dst", "src")

(* traverse() to a depth of two: pages with the depth they are met at.     *)
Traverse(start) ==
    LET near == PagesOf(Neighbours(start, FALSE)) \ {start}
        far == UNION {PagesOf(Neighbours(p, FALSE)) : p \in near} \ (near \cup {start})
    IN [p \in near \cup far |-> IF p \in near THEN 1 ELSE 2]

Degree(p) == Cardinality({n \in DOMAIN link : p \in {link[n].src, link[n].dst}})

(* lexicalSearch() and vectorSearch() hand over their rows as they rank    *)
(* them; only the latter keeps one row per object.                         *)
BestPerPage(list) ==
    LET First(s, p) == IF Contains(s, p) THEN s ELSE Append(s, p)
    IN FoldLeft(First, <<>>, list)

(* structuredCandidates(): without a match, the filters alone.             *)
StructuredCandidates(question) ==
    LET Fits(p) == page[p].state # "deleted" /\ p \in question.admits
    IN SelectSeq(Chronicle, Fits)

PassesFilters(p, question, includeArchived) ==
    /\ page[p].state # "deleted"
    /\ IF question.states # {} THEN page[p].state \in question.states
                               ELSE includeArchived \/ page[p].state \notin PutAway
    /\ p \in question.admits

(* qualityMultiplier(), in per cent. *)
Quality(p) ==
    LET s == Standing[p]
        review == CASE page[p].review = "confirmed" -> 125
                    [] page[p].review = "rejected" -> 40
                    [] OTHER -> 100
        origin == CASE s.origin = "user" -> 110
                    [] s.origin = "ai" /\ page[p].review = "unreviewed" -> 85
                    [] OTHER -> 100
        evidence == 100 + (IF s.evidence < 4 THEN 5 * s.evidence ELSE 20)
        state == CASE page[p].state = "superseded" -> 50
                   [] page[p].state = "archived" -> 70
                   [] OTHER -> 100
    IN FoldLeft(Percent, 100, <<review, s.epistemic, origin, s.surety, evidence, state>>)

(* multiplier() of salience.js, in per cent: between 85 and 115.           *)
Attention == <<0, 19, 30>>  \* log1p(n) / log1p(40) for the openings counted

Salience(p) ==
    LET score == 32 * Attention[opens[p] + 1]
              + (IF opens[p] > 0 THEN 18 * 100 ELSE 0)
              + 25 * (IF Degree(p) < 8 THEN (100 * Degree(p)) \div 8 ELSE 100)
              + 15 * (IF Standing[p].evidence < 4 THEN 25 * Standing[p].evidence ELSE 100)
              + (IF page[p].review = "confirmed" THEN 10 * 100 ELSE 0)
    IN 85 + (30 * (score \div 100)) \div 100

(* The place of a page in a ranked list, 0 where it is not in it.  A page  *)
(* several chunks of which matched has the place of the last of them: each *)
(* entry overwrites the one before.                                        *)
RankIn(list, p) == SelectLastInSeq(list, LAMBDA q : q = p)

Contribution(weight, rank) == IF rank = 0 THEN 0 ELSE (weight * 1000) \div (60 + rank)

(* One list of the lists, by reciprocal rank, each page weighted by its    *)
(* quality, its age and its use.                                           *)
FusedScore(p, lexical, semantic, browse, around) ==
    FoldLeft(Percent,
             Contribution(1000, RankIn(lexical, p))
               + Contribution(900, RankIn(semantic, p))
               + Contribution(600, RankIn(browse, p))
               + (IF p \in DOMAIN around THEN 500000 \div (60 + 10 * around[p]) ELSE 0),
             <<Quality(p), Standing[p].recency, Salience(p)>>)

Age(p) == SelectInSeq(Chronicle, LAMBDA q : q = p)

(* Best first; between equals the older identifier, which is the smaller.  *)
Ahead(a, b) == \/ a.score > b.score
               \/ a.score = b.score /\ Age(a.page) > Age(b.page)

(* search(): what is asked, what full text and embeddings found, the page  *)
(* to stay near (or NoPage), and whether what was put away counts.         *)
SearchPages(question, found, anchor, includeArchived, limit) ==
    LET lexical == found.lexical
        close == BestPerPage(found.semantic)
        browse == IF lexical = <<>> /\ close = <<>> THEN StructuredCandidates(question)
                                                   ELSE <<>>
        around == IF anchor = NoPage THEN [p \in {} |-> 0] ELSE Traverse(anchor)
        passing == {p \in ToSet(lexical) \cup ToSet(close) \cup ToSet(browse) :
                    PassesFilters(p, question, includeArchived)}
        hits == {[page |-> p, score |-> FusedScore(p, lexical, close, browse, around)] :
                    p \in passing}
    IN AtMost(SetToSortSeq(hits, Ahead), limit)

(* #rerank(): fewer than three hits are left alone; opinion is what the    *)
(* reranker says of each, in per cent.  Scores come back rounded to 1e-4.  *)
Reranked(question, hits, opinion) ==
    IF Len(hits) < 3 \/ question.terms < 2 \/ opinion = <<>> THEN hits
    ELSE LET top == hits[1].score
             Blended(h) == [h EXCEPT !.score =
                 100 * ((60 * @ + 40 * Percent(top, opinion[h.page]) + 5000) \div 10000)]
         IN SetToSortSeq({Blended(hits[n]) : n \in DOMAIN hits}, Ahead)
-----------------------------------------------------------------------------
(* touch(): reading is remembered, and counts in the next ranking.         *)
Touch(read) == opens' = [p \in Pages |-> IF p \in read /\ opens[p] < MaxOpens
                                         THEN opens[p] + 1 ELSE opens[p]]

LibraryInit == /\ page = [p \in Pages |-> [state |-> "active", superseded_by |-> NoPage,
                                            review |-> "unreviewed"]]
               /\ link = <<>>
               /\ opens = [p \in Pages |-> 0]

LibraryTypeOK == /\ page \in [Pages -> Card]
                 /\ ToSet(link) \subseteq LinkRow /\ Len(link) <= MaxLinks
                 /\ opens \in [Pages -> 0..MaxOpens]
=============================================================================
