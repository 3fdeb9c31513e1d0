------------------------------ MODULE Context ------------------------------
(***************************************************************************)
(* src/context/builder.js and what the facade makes of it: the material an *)
(* answer rests on, gathered in four passes under a token budget, and the  *)
(* answer that quotes it (extractiveAnswer of providers/deterministic.js). *)
(*                                                                         *)
(* Building a context is one synchronous pass over the database: what a    *)
(* question is told depends on the state it is asked in, and all asking    *)
(* changes is that what was read counts as read.                           *)
(***************************************************************************)
EXTENDS Retrieval
LOCAL INSTANCE SequencesExt

CONSTANTS Questions,     \* what is asked: record of temporal, retrospective,
                         \* states (is:...) and the pages its filters admit
          Queries,       \* what is searched for, the same way
          Anchors,       \* the pages a search may stay near, or NoPage
          Findings,      \* what full text and embeddings may find: pairs of lists
          Budgets,       \* tokens a context may hold
          Opinions,      \* what a reranker may say of the pages; <<>> for none
          MaxRaised,     \* disagreements one context raises (10)
          MaxWrites      \* bound: writes to pages, links and disagreements

ASSUME ContextAssumption == MaxRaised \in Nat \ {0} /\ MaxWrites \in Nat

VARIABLES disagreement,  \* open rows of table conflict; b_id is NULL in some
          writes         \* how many writes there were

contextVars == <<libraryVars, disagreement, writes>>

(* Bound: one confidence more than are raised.                             *)
ConflictRow == [a : Pages, b : Pages \cup {NoPage}, confidence : 0..MaxRaised]

Seeds == 8         \* direct hits a context starts from
Headroom == 120    \* tokens below which nothing more is squeezed in

Item(p, priority, score) == [page |-> p, priority |-> priority, score |-> score]

(* A page is selected once: what it was first selected for stands.         *)
Select(selected, item) == IF item.page \in PagesOf(selected) THEN selected
                                                            ELSE Append(selected, item)
SelectAll(selected, items) == FoldLeft(Select, selected, items)

(* Direct hits; priorities are counted in tenths.                          *)
DirectHits(hits) == [n \in DOMAIN hits |-> Item(hits[n].page, 10, hits[n].score)]

(* What the first five hits are linked to.                                 *)
LinkedTo(seed) ==
    LET near == Neighbours(seed.page, TRUE)
        Connected(n) == IF near[n].type = "contradicts"
                        THEN Item(near[n].page, 15, (9 * seed.score) \div 10)
                        ELSE Item(near[n].page, 20, seed.score \div 2)
    IN [n \in DOMAIN near |-> Connected(n)]

WithNeighbours(selected) ==
    FoldLeft(LAMBDA s, seed : SelectAll(s, LinkedTo(seed)), selected, AtMost(selected, 5))

(* What a page used to say: everything it superseded that is still there.  *)
Predecessors(p) ==
    LET earlier == {q \in Pages : page[q].superseded_by = p /\ page[q].state # "deleted"}
        prior == AtMost(SetToSortSeq(earlier, LAMBDA a, b : Age(a) < Age(b)), 3)
    IN [n \in DOMAIN prior |-> Item(prior[n], 25, 300000)]

WithPredecessors(question, selected) ==
    IF ~question.temporal THEN selected
    ELSE FoldLeft(LAMBDA s, item : SelectAll(s, Predecessors(item.page)),
                  selected, AtMost(selected, 6))

(* Material that may raise its disagreements: hits, and what contradicts   *)
(* them, within a quarter of the best score in the whole context.          *)
OnTopic(selected) ==
    LET top == IF selected = <<>> THEN 0 ELSE Max({selected[n].score : n \in DOMAIN selected})
    IN {selected[n].page : n \in {m \in DOMAIN selected :
           selected[m].priority <= 15 /\ 4 * selected[m].score >= top}}

(* openConflicts(): the surest of them, as many as are raised.             *)
OpenConflicts(pages) ==
    LET open == {d \in disagreement : {d.a, d.b} \cap pages # {}}
    IN AtMost(SetToSortSeq(open, LAMBDA c, d : c.confidence > d.confidence), MaxRaised)

(* Both sides of a disagreement belong in the context, whatever their      *)
(* state; the one missing comes in ahead of every neighbour.  There may be *)
(* no second side.                                                         *)
Side(p) == Item(p, 14, 450000)
Sides(d) == IF d.b = NoPage THEN <<Side(d.a)>> ELSE <<Side(d.a), Side(d.b)>>

(* Mutant: the other side is the one that was noticed second. *)
WithOneSide(selected, raised) ==
    FoldLeft(LAMBDA s, d : Select(s, Sides(d)[Len(Sides(d))]), selected, raised)

WithBothSides(selected, raised) ==
    FoldLeft(LAMBDA s, d : SelectAll(s, Sides(d)), selected, raised)

Ordered(selected) ==
    LET Before(a, b) == \/ a.item.priority < b.item.priority
                        \/ a.item.priority = b.item.priority /\ a.item.score > b.item.score
                        \/ /\ a.item.priority = b.item.priority
                           /\ a.item.score = b.item.score
                           /\ a.at < b.at
        sorted == SetToSortSeq({[item |-> selected[n], at |-> n] : n \in DOMAIN selected},
                               Before)
    IN [n \in DOMAIN sorted |-> sorted[n].item.page]

(* What fits: whole while it fits, cut to the room left when there is      *)
(* more than the headroom, and an end once there is less.  A cut passage   *)
(* ends in an ellipsis, so it may run one token over.                      *)
Squeezed(order, budget) ==
    LET Put(b, p) ==
            LET room == budget - b.used
                whole == Standing[p].title + Standing[p].text
                cut == IF Standing[p].text <= room THEN Standing[p].text ELSE room + 1
            IN CASE ~b.open -> b
                 [] b.open /\ whole <= room ->
                        [b EXCEPT !.items = Append(@, p), !.used = @ + whole]
                 [] b.open /\ whole > room /\ room > Headroom ->
                        [items |-> Append(b.items, p), used |-> b.used + cut,
                         open |-> room - cut >= Headroom]
                 [] OTHER -> [b EXCEPT !.open = room >= Headroom]
    IN FoldLeft(Put, [items |-> <<>>, used |-> 0, open |-> TRUE], order)

(* build(): what is gathered, which disagreements it raises, what that     *)
(* selects, and what of it is kept.                                        *)
Gathered(question, hits) ==
    WithPredecessors(question, WithNeighbours(DirectHits(hits)))

Selected(gathered, raised, selected, budget) ==
    [gathered |-> gathered, raised |-> raised, selected |-> PagesOf(selected),
     kept |-> Squeezed(Ordered(selected), budget)]

Raised(gathered, raised, budget) ==
    Selected(gathered, raised, WithBothSides(gathered, raised), budget)

Assembled(gathered, budget) == Raised(gathered, OpenConflicts(OnTopic(gathered)), budget)

(* What answers are gathered from, before disagreements and the budget.    *)
Ground(question, found) ==
    Gathered(question, SearchPages(question, found, NoPage, question.temporal, Seeds))

Build(question, found, budget) == Assembled(Ground(question, found), budget)
-----------------------------------------------------------------------------
(* Mutant: what was replaced leads whenever there is any. *)
LeadsWithReplaced(question, current, replaced) == IF replaced # <<>> THEN replaced ELSE current

(* Which passages answer: those in force, unless the past was asked for.   *)
Leads(question, current, replaced) ==
    IF question.retrospective /\ replaced # <<>> THEN replaced
    ELSE IF current # <<>> THEN current ELSE replaced

(* extractiveAnswer(): the passages of the context that share words with   *)
(* the question, one to a page; matches is the share of the question's     *)
(* words in the best of them, in per cent.                                 *)
Quoted(question, items) ==
    LET Matching(p) == Standing[p].matches > 0
        Better(a, b) == \/ Standing[a].matches > Standing[b].matches
                        \/ /\ Standing[a].matches = Standing[b].matches
                           /\ SelectInSeq(items, LAMBDA q : q = a)
                                < SelectInSeq(items, LAMBDA q : q = b)
        passages == SetToSortSeq({p \in ToSet(items) : Matching(p)}, Better)
        current == SelectSeq(passages, LAMBDA p : page[p].state \notin PutAway)
        replaced == SelectSeq(passages, LAMBDA p : page[p].state \in PutAway)
        best == AtMost(Leads(question, current, replaced), 4)
    IN IF best = <<>> \/ Standing[best[1]].matches < 15
       THEN [grounded |-> FALSE, quotes |-> AtMost(passages, 3)]
       ELSE [grounded |-> TRUE, quotes |-> best]

(* ask(), as far as the rung that quotes: everything in the context counts *)
(* as read.                                                                *)
AskMemory(question, found, budget) ==
    /\ Touch(ToSet(Build(question, found, budget).kept.items))
    /\ UNCHANGED <<page, link, disagreement, writes>>

(* search() of the facade: ranked, reranked, and the first five are read.  *)
Search(question, found, anchor, includeArchived, opinion) ==
    LET hits == Reranked(question,
                         SearchPages(question, found, anchor, includeArchived, 25),
                         opinion)
    IN /\ Touch(PagesOf(AtMost(hits, 5)))
       /\ UNCHANGED <<page, link, disagreement, writes>>

(* recall() *)
Recall(p) == /\ Touch({p})
             /\ UNCHANGED <<page, link, disagreement, writes>>
-----------------------------------------------------------------------------
Writes == /\ writes < MaxWrites
          /\ writes' = writes + 1
          /\ UNCHANGED opens

(* Every edit of objects.js but restore() refuses what is deleted.         *)
Change(p, card) == /\ Writes
                   /\ card # page[p]
                   /\ page' = [page EXCEPT ![p] = card]
                   /\ UNCHANGED <<link, disagreement>>

Replace(old, new) ==
    /\ old # new /\ page[old].state # "deleted"
    /\ Change(old, [page[old] EXCEPT !.state = "superseded", !.superseded_by = new])

Judge(p, verdict) ==
    /\ page[p].state # "deleted"
    /\ Change(p, IF verdict = "confirmed" THEN [page[p] EXCEPT !.review = verdict]
                 ELSE [page[p] EXCEPT !.review = verdict, !.state = "archived"])

Move(p, state) == /\ page[p].state = "deleted" => state = "active"
                  /\ Change(p, [page[p] EXCEPT !.state = state])

Link(row) == /\ Writes
             /\ row.src # row.dst /\ Len(link) < MaxLinks
             /\ ~\E n \in DOMAIN link : [link[n] EXCEPT !.sure = row.sure] = row
             /\ link' = Append(link, row)
             /\ UNCHANGED <<page, disagreement>>

(* Never two of one confidence: SQLite does not say which comes first.     *)
Disagree(d) == /\ Writes
               /\ d.a # d.b /\ \A c \in disagreement : c.confidence # d.confidence
               /\ disagreement' = disagreement \cup {d}
               /\ UNCHANGED <<page, link>>

Settle(d) == /\ Writes
             /\ disagreement' = disagreement \ {d}
             /\ UNCHANGED <<page, link>>

ContextInit == /\ LibraryInit
               /\ disagreement = {}
               /\ writes = 0

ContextNext ==
    \/ \E question \in Questions, found \in Findings, budget \in Budgets :
          AskMemory(question, found, budget)
    \/ \E query \in Queries, found \in Findings, anchor \in Anchors,
         includeArchived \in BOOLEAN, opinion \in Opinions :
          Search(query, found, anchor, includeArchived, opinion)
    \/ \E p, q \in Pages : Replace(p, q)
    \/ \E d \in ConflictRow : Disagree(d)
    \/ \E p \in Pages : \/ Recall(p)
                        \/ \E verdict \in {"confirmed", "rejected"} : Judge(p, verdict)
                        \/ \E state \in PageStates \ {"superseded"} : Move(p, state)
    \/ \E row \in LinkRow : Link(row)
    \/ \E d \in disagreement : Settle(d)

ContextSpec == ContextInit /\ [][ContextNext]_contextVars
-----------------------------------------------------------------------------
ContextTypeOK == /\ LibraryTypeOK
                 /\ disagreement \subseteq ConflictRow
                 /\ writes \in 0..MaxWrites

(* What building a context promises about the disagreements it meets: one  *)
(* about the best hit is raised unless as many as are raised at all are of *)
(* higher confidence, or a predecessor was selected, which outscores every *)
(* hit and takes them all off topic; and both sides of one that is raised, *)
(* if it has two, are in the context unless its budget ran out.            *)
RaisesBothSides(context, budget) ==
    LET earlier == \E n \in DOMAIN context.gathered : context.gathered[n].priority = 25
        best == context.gathered[1].page
        raised == ToSet(context.raised)
        Surer(d) == {c \in raised : c.confidence > d.confidence}
        TheSides(d) == {d.a, d.b} \ {NoPage}
    IN /\ (context.gathered # <<>> /\ ~earlier) =>
              \A d \in disagreement : best \in {d.a, d.b} =>
                 d \in raised \/ Cardinality(Surer(d)) = MaxRaised
       /\ \A d \in raised :
             /\ TheSides(d) \subseteq context.selected
             /\ \/ TheSides(d) \subseteq ToSet(context.kept.items)
                \/ budget - context.kept.used <= Headroom

(* What quoting promises: while anything in force in the context speaks to *)
(* the question, what was put away is quoted only if the past was asked    *)
(* for.                                                                    *)
QuotesWhatIsInForce(question, items) ==
    LET current == {p \in ToSet(items) :
                      page[p].state \notin PutAway /\ Standing[p].matches > 0}
        answer == Quoted(question, items)
    IN (answer.grounded /\ current # {} /\ ~question.retrospective) =>
           ToSet(answer.quotes) \subseteq current
=============================================================================
