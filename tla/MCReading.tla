----------------------------- MODULE MCReading -----------------------------
(* TLC instance of what reads the memory and who may: the edges between    *)
(* objects, the contexts and searches over them, the names that look like  *)
(* one, and the requests let through to them.  As in MCServices the first  *)
(* state names the part that moves; the others rest.                       *)
EXTENDS Relations, Context, Access, Query, Names, TLC

ReadingSymmetry == Permutations(ObjectIds) \cup Permutations(RelationIds)
                     \cup Permutations(Notes)

(* Three pages: one stated and rated high, one with evidence, one guessed. *)
MCStanding ==
    "p1" :> [epistemic |-> 115, origin |-> "user", surety |-> 100, evidence |-> 0,
             recency |-> 100, matches |-> 60, title |-> 20, text |-> 100]
    @@ "p2" :> [epistemic |-> 105, origin |-> "user", surety |-> 100, evidence |-> 1,
                recency |-> 90, matches |-> 40, title |-> 20, text |-> 180]
    @@ "p3" :> [epistemic |-> 75, origin |-> "ai", surety |-> 85, evidence |-> 0,
                recency |-> 85, matches |-> 10, title |-> 10, text |-> 40]

MCChronicle == <<"p3", "p2", "p1">>

Asked(temporal, retrospective, states) ==
    [temporal |-> temporal, retrospective |-> retrospective, states |-> states,
     terms |-> 2, admits |-> Pages]

MCQuestions == {Asked(FALSE, FALSE, {}), Asked(TRUE, FALSE, {}), Asked(FALSE, TRUE, {})}
MCQueries == {Asked(FALSE, FALSE, {}), Asked(FALSE, FALSE, {"superseded"})}
MCAnchors == {NoPage, "p1"}
Found(lexical, semantic) == [lexical |-> lexical, semantic |-> semantic]
MCFindings == {Found(<<"p2", "p1">>, <<"p1">>),
               Found(<<"p3", "p2", "p3">>, <<"p2", "p1", "p2">>), Found(<<>>, <<>>)}
MCOpinions == {"p1" :> 0 @@ "p2" :> 30 @@ "p3" :> 100}

Route(method, path, effect) == [method |-> method, path |-> path, effect |-> effect]
MCRoutes == {Route("GET", "/health", "read"), Route("GET", "/search", "read"),
             Route("POST", "/ask", "read"), Route("POST", "/remember", "write"),
             Route("DELETE", "/objects/:id", "admin"), Route("POST", "/tokens", "admin"),
             Route("DELETE", "/tokens/:id", "admin"), Route("POST", "/auth/login", "read"),
             Route("POST", "/auth/logout", "admin")}

(* The first day of a year, a leap day, the last day of a leap year, a      *)
(* Sunday that ends a month, and a day whose week began in the month before,*)
(* in three time zones eight hours apart.                                   *)
On(y, m, d, ahead) == [y |-> y, m |-> m, d |-> d, zone |-> ahead]
MCTodays == {On(2024, 1, 1, 0), On(2024, 2, 29, 2), On(2024, 12, 31, -2), On(2024, 3, 31, 2),
             On(2024, 3, 2, -2)}
Named(name) == [is |-> name]
MCPassing == {Named(n) : n \in {"today", "yesterday", "this week", "last week", "this month",
                                "last month", "this year", "last year"}}
                \cup {[is |-> "ago", n |-> 2, unit |-> "week"], [is |-> "ago", n |-> 1, unit |-> "month"]}
MCDates == {Named("last week"), Named("last month"), Named("someday"), [is |-> "year", y |-> 2023],
            [is |-> "month", y |-> 2023, m |-> 12], [is |-> "day", y |-> 2024, m |-> 2, d |-> 29]}
MCWritten == [is |-> "written", y |-> 2024, m |-> 3, d |-> 5]
Word(sort, said) == [sort |-> sort, said |-> said]
MCMenu == {[sort |-> "operator", field |-> f, value |-> v] :
              f \in {"after", "before", "during"}, v \in MCDates \cup {MCWritten}}
            \cup {[sort |-> "relative", value |-> v] : v \in MCPassing}
            \cup {Word("term", "redis"), Word("term", "the"), Word("not", "redis"),
                  Word("not", "cache"), Word("phrase", "redis cache"), Word("question", "why")}
MCPhraseTerms == [p \in {"redis cache"} |-> {"redis", "cache"}]
MCTexts == {{"redis"}, {"redis", "cache", "redis cache"}, {"cache", "the"}, {"budget"}}

MCTitles == {<<"p", "r", "i", "a", " ", "r", "a", "o">>}

VARIABLE part  \* what this behaviour is about

readingVars == <<part, memoryVars, contextVars, accessVars, queryVars, nameVars>>

ReadingInit == /\ part \in {"relations", "context", "access", "query", "names"}
               /\ ObjectInit /\ RelationInit
               /\ ContextInit /\ AccessInit /\ NamesInit
               /\ QueryInit /\ (part # "query" => today = Utc(2024, 0, 1) /\ zone = 0)

ReadingNext ==
    /\ UNCHANGED part
    /\ \/ /\ part = "relations" /\ RelationNext
          /\ UNCHANGED <<contextVars, accessVars, queryVars, nameVars>>
       \/ /\ part = "context" /\ ContextNext
          /\ UNCHANGED <<memoryVars, accessVars, queryVars, nameVars>>
       \/ /\ part = "access" /\ AccessNext
          /\ UNCHANGED <<memoryVars, contextVars, queryVars, nameVars>>
       \/ /\ part = "query" /\ QueryNext
          /\ UNCHANGED <<memoryVars, contextVars, accessVars, nameVars>>
       \/ /\ part = "names" /\ NamesNext
          /\ UNCHANGED <<memoryVars, contextVars, accessVars, queryVars>>

ReadingSpec == ReadingInit /\ [][ReadingNext]_readingVars

(* Every part keeps to the values its variables are meant to have.         *)
ReadingTypeOK == RelationTypeOK /\ ContextTypeOK /\ AccessTypeOK /\ QueryTypeOK
                 /\ NamesTypeOK

(* "Both sides of a contradiction always enter an answer": whatever was    *)
(* linked, replaced, put away or judged before, a disagreement about the   *)
(* best hit is raised unless a predecessor took every hit off topic, and   *)
(* both its sides are in the context unless the budget ran out.            *)
DisagreementsAreWhole ==
    part = "context" =>
        \A ground \in {Ground(question, found) : question \in Questions, found \in Findings} :
        \A budget \in Budgets : RaisesBothSides(Assembled(ground, budget), budget)

(* A query typed on any of these days, in any of these time zones, admits  *)
(* what it was typed to admit (query.js).                                  *)
QueriesMeanWhatIsTyped == part = "query" => QueriesAreReadAsTyped

(* Of two names a typo apart a person is asked whether they mean one       *)
(* (entities.js).                                                          *)
DoublesAreAskedAbout == part = "names" => DoublesAreSuggested

(* Nothing that was put away is quoted while something in force in the     *)
(* same context speaks to the question, unless the past was asked for.     *)
SupersededNeverLeads ==
    part = "context" =>
        \A question \in Questions, found \in Findings :
        \A ground \in {Ground(question, found)}, budget \in Budgets :
            QuotesWhatIsInForce(question, Assembled(ground, budget).kept.items)
=============================================================================
