------------------------------- MODULE Query -------------------------------
(***************************************************************************)
(* src/retrieval/query.js: what is typed into the search field, read by a  *)
(* grammar without any model.  A query is a sequence of words: an operator *)
(* with its value, a quoted phrase, a negated term, a relative time in     *)
(* ordinary prose, a plain term.                                           *)
(*                                                                         *)
(* Time is counted in sixths of a day: a day begins at 6 * d, is at noon   *)
(* at 6 * d + 3 and ends at 6 * d + 5, all of it UTC as in the code, but   *)
(* for a date in a form the code leaves to the runtime (2024/03/05), which *)
(* is midnight where the process runs.                                     *)
(***************************************************************************)
EXTENDS Integers, Sequences, FiniteSets, FiniteSetsExt
LOCAL INSTANCE SequencesExt

CONSTANTS FirstYear,   \* the calendar begins on its first of January, ...
          FirstWeekday,\* ... this day of the week, Sunday being 0, ...
          LastYear,    \* ... and bound: ends with this year
          Todays,      \* the dates on which somebody searches, each with how
                       \* far the clocks there are ahead of UTC
          Menu,        \* the words that are typed
          Stopwords,   \* the plain terms that say nothing
          PhraseTerms, \* quoted phrase -> the plain terms it consists of
          Texts,       \* the texts that are searched, each a set of terms and phrases
          MaxTyped     \* bound: words of a query

Open == -1             \* null: no bound on this side

ASSUME QueryAssumption ==
    /\ FirstYear \in Nat /\ FirstWeekday \in 0..6
    /\ LastYear \in Nat /\ MaxTyped \in Nat

VARIABLES today,  \* the day the query is read, by UTC
          zone,   \* how far local time is ahead of UTC
          typed   \* the words typed so far

queryVars == <<today, zone, typed>>
-----------------------------------------------------------------------------
(* Date.UTC: months count from 0, and what overflows runs on into the next *)
(* month or year.  Days are numbered from the first of the first year.     *)
Leap(y) == y % 4 = 0 /\ (y % 100 # 0 \/ y % 400 = 0)
LeapsBefore(y) == (y - 1) \div 4 - (y - 1) \div 100 + (y - 1) \div 400
Utc(y, month, d) ==
    LET year == y + month \div 12
        passed == <<0, 31, 59, 90, 120, 151, 181, 212, 243, 273, 304, 334>>[(month % 12) + 1]
    IN 365 * (year - FirstYear) + LeapsBefore(year) - LeapsBefore(FirstYear)
         + passed + (IF Leap(year) /\ (month % 12) > 1 THEN 1 ELSE 0) + d

(* What a Date tells of itself. *)
Year(n) == CHOOSE y \in FirstYear..LastYear : Utc(y, 0, 1) <= n /\ n < Utc(y + 1, 0, 1)
Month(n) == CHOOSE m \in 1..12 : Utc(Year(n), m - 1, 1) <= n /\ n < Utc(Year(n), m, 1)
WeekdayOf(n) == (FirstWeekday + n - 1) % 7

DayLength   == 6
DayStart(n) == DayLength * n
Noon(n)     == DayLength * n + 3
DayEnd(n)   == DayLength * n + 5
-----------------------------------------------------------------------------
Window(from, to) == [from |-> from, to |-> to]
Unbounded == Window(Open, Open)

(* Mutant: the week begins on the day it is asked about. *)
WeekdayOfMonday(n) == (WeekdayOf(n) + 6) % 7

Weekday(n) == WeekdayOf(n)
UnitDays == [day |-> 1, week |-> 7, month |-> 30, year |-> 365]

(* resolveRelativeKeyword() at noon of a day.                              *)
Keyword(v, at) ==
    LET y == Year(at)
        month == Month(at) - 1
        Between(from, to) == Window(DayStart(from), DayEnd(to))
    IN CASE v.is = "today"      -> Between(at, at)
         [] v.is = "yesterday"  -> Between(at - 1, at - 1)
         [] v.is = "this week"  -> Between(at - Weekday(at), at)
         [] v.is = "last week"  -> Between(at - Weekday(at) - 7, at - Weekday(at) - 1)
         [] v.is = "this month" -> Between(Utc(y, month, 1), at)
         [] v.is = "last month" -> Between(Utc(y, month - 1, 1), Utc(y, month, 0))
         [] v.is = "this year"  -> Between(Utc(y, 0, 1), at)
         [] v.is = "last year"  -> Between(Utc(y - 1, 0, 1), Utc(y - 1, 11, 31))
         [] v.is = "ago"        -> Between(at - UnitDays[v.unit] * v.n, at)

(* resolveDate() and resolveRange(): keywords, 2025, 2025-03, 2025-03-14,  *)
(* whatever else the runtime takes for a date, which is one instant, the   *)
(* beginning of the day in local time, and nothing for the rest.           *)
Resolved(v, at) ==
    CASE v.is = "day"     -> Window(DayStart(Utc(v.y, v.m - 1, v.d)), DayEnd(Utc(v.y, v.m - 1, v.d)))
      [] v.is = "month"   -> Window(DayStart(Utc(v.y, v.m - 1, 1)), DayEnd(Utc(v.y, v.m, 0)))
      [] v.is = "year"    -> Window(DayStart(Utc(v.y, 0, 1)), DayEnd(Utc(v.y, 11, 31)))
      [] v.is = "written" -> LET midnight == DayStart(Utc(v.y, v.m - 1, v.d)) - zone
                             IN Window(midnight, midnight)
      [] v.is = "someday" -> Unbounded
      [] OTHER            -> Keyword(v, at)

(* One operator, as it is met: after and before overwrite, with nothing if *)
(* they are not understood; during leaves alone what it does not add to.   *)
Narrowed(window, word, at) ==
    LET range == Resolved(word.value, at)
    IN CASE word.field = "after"  -> [window EXCEPT !.from = range.from]
         [] word.field = "before" -> [window EXCEPT !.to = range.to]
         [] word.field = "during" -> IF range = Unbounded THEN window ELSE range

(* Mutant: what is said in passing outranks an operator. *)
FilledOver(window, range) == range

(* ??= : the prose fills in what no operator said.                         *)
Filled(window, range) ==
    Window(IF window.from = Open THEN range.from ELSE window.from,
           IF window.to = Open THEN range.to ELSE window.to)

WordsThatAre(query, sort) == SelectSeq(query, LAMBDA w : w.sort = sort)
Said(query, sort) == {WordsThatAre(query, sort)[n].said : n \in DOMAIN WordsThatAre(query, sort)}

(* matchRelativePhrase(): the first in the prose.                          *)
RelativePhrase(query, at) ==
    LET prose == WordsThatAre(query, "relative")
    IN IF prose = <<>> THEN Unbounded ELSE Keyword(prose[1].value, at)

(* tokenizeQuery(): common words count only where there is nothing else.   *)
Content(terms) == IF terms \subseteq Stopwords THEN terms ELSE terms \ Stopwords

(* classifyShape() *)
Shape(query, terms) ==
    CASE query = <<>> -> "browse"
      [] WordsThatAre(query, "question") # <<>> -> "question"
      [] terms = {} /\ Said(query, "phrase") = {} -> "browse"
      [] OTHER -> "lookup"

(* parse(): phrases, then operators, negations, and prose of what is left. *)
Intent(query, at) ==
    LET operators == WordsThatAre(query, "operator")
        asked == FoldLeft(LAMBDA w, word : Narrowed(w, word, at), Unbounded, operators)
        terms == Content(Said(query, "term"))
                   \cup UNION {Content(PhraseTerms[p]) : p \in Said(query, "phrase")}
    IN [window  |-> Filled(asked, RelativePhrase(query, at)),
        phrases |-> Said(query, "phrase"),
        exclude |-> Said(query, "not"),
        terms   |-> terms,
        shape   |-> Shape(query, terms)]

(* toFtsQuery(): any of these, and none of those; nothing to match on      *)
(* where only negations are left.                                          *)
FtsQuery(intent) ==
    LET any == intent.phrases \cup (intent.terms \ intent.exclude)
    IN [any |-> any, none |-> IF any = {} THEN {} ELSE intent.exclude]

Matches(text, fts) == text \cap fts.any # {} /\ text \cap fts.none = {}

(* A text about a day, as the filters of search() see it.                  *)
Admits(intent, text, instant) ==
    /\ intent.window.from # Open => instant >= intent.window.from
    /\ intent.window.to # Open => instant <= intent.window.to
    /\ text \cap intent.exclude = {}

(* What search() finds: by full text, or by the filters alone.             *)
Finds(intent, text, instant) ==
    LET fts == FtsQuery(intent)
    IN /\ Admits(intent, text, instant)
       /\ fts.any = {} \/ (\A other \in Texts : ~Matches(other, fts)) \/ Matches(text, fts)
-----------------------------------------------------------------------------
QueryInit == /\ typed = <<>>
             /\ \E t \in Todays : today = Utc(t.y, t.m - 1, t.d) /\ zone = t.zone

Type(word) == /\ Len(typed) < MaxTyped
              /\ typed' = Append(typed, word)
              /\ UNCHANGED <<today, zone>>

QueryNext == \E word \in Menu : Type(word)

QuerySpec == QueryInit /\ [][QueryNext]_queryVars

QueryTypeOK == today \in Nat /\ zone \in Int /\ typed \in Seq(Menu) /\ Len(typed) <= MaxTyped
-----------------------------------------------------------------------------
(* The days a person means by a date, told by the calendar alone.          *)
Sundays(n) == Cardinality({s \in n + 1..today : WeekdayOf(s) = 0})
MonthsBack(n) == 12 * (Year(today) - Year(n)) + Month(today) - Month(n)

Means(v, n) ==
    CASE v.is = "today"      -> n = today
      [] v.is = "yesterday"  -> n + 1 = today
      [] v.is = "this week"  -> n <= today /\ today - n < 7 /\ Sundays(n) = 0
      [] v.is = "last week"  -> n <= today /\ today - n < 14 /\ Sundays(n) = 1
      [] v.is = "this month" -> n <= today /\ MonthsBack(n) = 0
      [] v.is = "last month" -> MonthsBack(n) = 1
      [] v.is = "this year"  -> n <= today /\ Year(n) = Year(today)
      [] v.is = "last year"  -> Year(n) + 1 = Year(today)
      [] v.is = "ago"        -> n <= today /\ today - n <= UnitDays[v.unit] * v.n
      [] v.is = "year"       -> Year(n) = v.y
      [] v.is = "month"      -> Year(n) = v.y /\ Month(n) = v.m
      [] v.is \in {"day", "written"} ->
            Year(n) = v.y /\ Month(n) = v.m /\ n + 1 - Utc(v.y, v.m - 1, 1) = v.d

(* What decides an edge: the last operator that speaks of it, and, where   *)
(* that has left it open, the prose.                                       *)
Speaking(edge) == {i \in DOMAIN typed :
                      /\ typed[i].sort = "operator"
                      /\ \/ typed[i].field = edge
                         \/ typed[i].field = "during" /\ typed[i].value.is # "someday"}
Prose == {i \in DOMAIN typed : typed[i].sort = "relative"}

Deciding(edge) ==
    LET last == IF Speaking(edge) = {} THEN [is |-> "someday"]
                ELSE typed[Max(Speaking(edge))].value
    IN IF last.is = "someday" /\ Prose # {} THEN typed[Min(Prose)].value ELSE last

(* The day an edge falls on where the process runs, and by UTC.            *)
Local(instant) == (instant + zone) \div DayLength
Universal(instant) == instant \div DayLength

BeginsWith(v, instant) ==
    LET n == IF v.is = "written" THEN Local(instant) ELSE Universal(instant)
    IN /\ Means(v, n) /\ ~Means(v, n - 1)
       /\ instant = IF v.is = "written" THEN DayStart(n) - zone ELSE DayStart(n)

EndsWith(v, instant) ==
    IF v.is = "written" THEN BeginsWith(v, instant)
    ELSE LET n == Universal(instant)
         IN Means(v, n) /\ ~Means(v, n + 1) /\ instant = DayEnd(n)

(* "Better no filter than a confidently wrong one": on every date a query  *)
(* may be read, and wherever it is, the first and the last day the search  *)
(* admits are by UTC the first and the last of those the calendar calls by *)
(* the name that was typed; a date in a form left to the runtime bounds    *)
(* either side at the midnight that day begins with in local time, so that *)
(* before: leaves the day itself out.  An operator outranks the prose, a   *)
(* later operator an earlier one, and what is not understood bounds        *)
(* nothing.  What was negated is never found.                              *)
QueriesAreReadAsTyped ==
    LET window == Intent(typed, today).window
        begin == Deciding("after")
        end == Deciding("before")
    IN /\ IF begin.is = "someday" THEN window.from = Open ELSE BeginsWith(begin, window.from)
       /\ IF end.is = "someday" THEN window.to = Open ELSE EndsWith(end, window.to)
       /\ \A text \in Texts : text \cap Said(typed, "not") # {} =>
             ~Finds(Intent(typed, today), text, Noon(today))
=============================================================================
