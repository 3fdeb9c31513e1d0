------------------------------- MODULE Names -------------------------------
(***************************************************************************)
(* compareNames() and duplicateCandidates() of src/core/entities.js: which *)
(* two entities a person is asked about because their names look like one. *)
(*                                                                         *)
(* A name is a sequence of letters, with blanks and points among them, and *)
(* is mistyped letter by letter.  Case, accents and titles like "Dr." are  *)
(* left out.  Scores are counted in thousandths.                           *)
(***************************************************************************)
EXTENDS Integers, Sequences, FiniteSets, FiniteSetsExt
LOCAL INSTANCE SequencesExt

CONSTANTS Titles,   \* names as they are written when nobody mistypes
          Letters,  \* what may be typed instead or in addition
          MaxTypos  \* bound: what is mistyped

ASSUME NamesAssumption ==
    MaxTypos \in Nat /\ \A t \in Titles : t # <<>> /\ " " \notin {t[1], t[Len(t)]}

VARIABLES alike,  \* two rows of kind "entity": [title, type, state]
          typos   \* how often the second was mistyped

nameVars == <<alike, typos>>

(* canonicalise(): points go, blanks are single and not at either end.     *)
Canonicalise(title) ==
    LET plain == SelectSeq(title, LAMBDA l : l # ".")
        squeezed == FoldLeft(LAMBDA s, l : IF l = " " /\ (s = <<>> \/ Last(s) = " ")
                                           THEN s ELSE Append(s, l), <<>>, plain)
    IN IF squeezed # <<>> /\ Last(squeezed) = " " THEN Front(squeezed) ELSE squeezed

FirstWord(name) == LET blank == SelectInSeq(name, LAMBDA l : l = " ")
                   IN IF blank = 0 THEN name ELSE SubSeq(name, 1, blank - 1)
LastWord(name) == LET blank == SelectLastInSeq(name, LAMBDA l : l = " ")
                  IN SubSeq(name, blank + 1, Len(name))
HasWords(name) == \E i \in DOMAIN name : name[i] = " "

(* Mutant: every row begins as if nothing had to be left out before it. *)
EditDistanceFromZero(a, b) ==
    LET Row(prev, i) ==
            FoldLeft(LAMBDA cur, j : Append(cur, Min({prev[j + 1] + 1, cur[j] + 1,
                                                      prev[j] + (IF a[i] = b[j] THEN 0 ELSE 1)})),
                     <<0>>, [j \in DOMAIN b |-> j])
    IN Last(FoldLeft(Row, [j \in 1..Len(b) + 1 |-> j - 1], [i \in DOMAIN a |-> i]))

(* editDistance(): row by row, of which only the last one is kept.         *)
EditDistance(a, b) ==
    LET Row(prev, i) ==
            FoldLeft(LAMBDA cur, j : Append(cur, Min({prev[j + 1] + 1, cur[j] + 1,
                                                      prev[j] + (IF a[i] = b[j] THEN 0 ELSE 1)})),
                     <<i>>, [j \in DOMAIN b |-> j])
    IN Last(FoldLeft(Row, [j \in 1..Len(b) + 1 |-> j - 1], [i \in DOMAIN a |-> i]))

(* What speaks for two canonical names being one, strongest first; each    *)
(* applies only where none before it does.                                 *)
Begins(a, b) == Len(a) < Len(b) /\ SubSeq(b, 1, Len(a) + 1) = Append(a, " ")
SameSurname(a, b) == /\ HasWords(a) /\ HasWords(b) /\ LastWord(a) = LastWord(b)
                     /\ FirstWord(a)[1] = FirstWord(b)[1]
Initialled(a, b) == Len(FirstWord(a)) = 1 \/ Len(FirstWord(b)) = 1
Longer(a, b) == IF Len(a) > Len(b) THEN Len(a) ELSE Len(b)
NearlyEqual(distance, length) == distance <= 2 /\ 100 * (length - distance) >= 85 * length

(* compareNames() *)
Compare(a, b) ==
    IF a = <<>> \/ b = <<>> THEN 0
    ELSE IF a = b THEN 1000
    ELSE IF Begins(a, b) \/ Begins(b, a) THEN 800
    ELSE IF SameSurname(a, b) THEN (IF Initialled(a, b) THEN 850 ELSE 720)
    ELSE LET distance == EditDistance(a, b)
             length == Longer(a, b)
         IN IF NearlyEqual(distance, length) THEN (900 * (length - distance)) \div length ELSE 0

(* duplicateCandidates(): pairs of active entities of one type.            *)
Score(i, j) == Compare(Canonicalise(alike[i].title), Canonicalise(alike[j].title))
DuplicateCandidates ==
    {<<i, j>> \in (1..Len(alike)) \X (1..Len(alike)) :
        /\ i < j
        /\ \A n \in {i, j} : alike[n].state = "active"
        /\ alike[i].type = alike[j].type
        /\ Score(i, j) >= 700}
-----------------------------------------------------------------------------
NamesInit == /\ alike \in {<<e, e>> : e \in [title : Titles, type : {"person"}, state : {"active"}]}
             /\ typos = 0

Omitted(name, i) == RemoveAt(name, i)
Inserted(name, i, l) == InsertAt(name, i, l)
Replaced(name, i, l) == [name EXCEPT ![i] = l]
Mistyped(name, letters) ==
    {Omitted(name, i) : i \in DOMAIN name}
    \cup {Inserted(name, i, l) : i \in 1..Len(name) + 1, l \in letters}
    \cup {Replaced(name, i, l) : i \in DOMAIN name, l \in letters}

(* A note spells the name differently: to find() it is somebody else.      *)
Mistype(title) == /\ typos < MaxTypos /\ alike[2].state = "active" /\ alike[2].type = "person"
                  /\ title # <<>>
                  /\ alike' = [alike EXCEPT ![2].title = title]
                  /\ typos' = typos + 1

(* A person archives one of the two, or the extractor had a type for it.   *)
SetApart(row) == /\ typos = 1 /\ row # alike[2]
                 /\ alike' = [alike EXCEPT ![2] = row]
                 /\ UNCHANGED typos

NamesNext == \/ \E title \in Mistyped(alike[2].title, Letters) : Mistype(title)
             \/ SetApart([alike[2] EXCEPT !.state = "archived"])
             \/ SetApart([alike[2] EXCEPT !.type = "place"])

NamesSpec == NamesInit /\ [][NamesNext]_nameVars

NamesTypeOK == /\ typos \in 0..MaxTypos
               /\ alike \in Seq([title : Seq(Letters \cup UNION {ToSet(t) : t \in Titles}),
                                 type : {"person", "place"}, state : {"active", "archived"}])
-----------------------------------------------------------------------------
(* The reviewer is asked about the right pairs: the distance is the least  *)
(* number of changed letters, whatever two names it is taken of; the order *)
(* of the two does not matter; and a name of seven letters with one of     *)
(* them mistyped is asked about, unless one of the two is put away or of   *)
(* another type.                                                           *)
DoublesAreSuggested ==
    \A a \in {Canonicalise(alike[1].title)}, b \in {Canonicalise(alike[2].title)} :
    \A distance \in {EditDistance(a, b)} :
        /\ distance <= typos
        /\ distance = 0 <=> a = b
        /\ distance > 0 => \E c \in Mistyped(b, ToSet(a)) : EditDistance(a, c) = distance - 1
        /\ Compare(a, b) = Compare(b, a)
        /\ DuplicateCandidates # {} => alike[1].type = alike[2].type /\ alike[2].state = "active"
        /\ /\ alike[2].state = "active" /\ alike[2].type = alike[1].type
           /\ Longer(a, b) >= 7 /\ distance <= 1
           => DuplicateCandidates = {<<1, 2>>}
=============================================================================
