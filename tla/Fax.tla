-------------------------------- MODULE Fax --------------------------------
(***************************************************************************)
(* src/capture/ccitt.js: a scanned page coded as a fax is read back.       *)
(*                                                                         *)
(* The writer is any machine that keeps to T.4 and T.6: of the codes these *)
(* allow for a place on the page it sends whichever it likes, so it is     *)
(* defined here by the pixels alone.  The reader is the code, which knows  *)
(* nothing but the codes and the changing elements of the row above.  A    *)
(* code is one unit; which bits stand for it is a fixed table.             *)
(***************************************************************************)
EXTENDS Integers, Sequences, FiniteSets, FiniteSetsExt
LOCAL INSTANCE SequencesExt

CONSTANTS Width,    \* columns
          Height,   \* rows of the page
          MakeUp    \* a run code below this one ends a run; 64 in T.4

ASSUME FaxAssumption == Width \in Nat \ {0} /\ Height \in Nat /\ MakeUp \in Nat \ {0}

VARIABLES page,     \* row -> its black pixels, as they are on paper
          coding,   \* [k, rows]: /K of the dictionary, and whether it has /Rows
          pen,      \* the writer: row, place and colour it has come to
          line,     \* the reader: how the row is coded, a0, colour, changes
          lines,    \* changing elements of the rows read
          stage     \* "between" rows, in a "row", or "over"

faxVars == <<page, coding, pen, line, lines, stage>>

Pixels == 0..Width - 1
NewLine == [flat |-> FALSE, a0 |-> -1, colour |-> 0, changes |-> <<>>]
-----------------------------------------------------------------------------
(* T.4 and T.6, by the pixels of a row and of the one above it.            *)
Colour(row, x) == IF x \in row THEN 1 ELSE 0
Above == IF pen.row = 1 THEN {} ELSE page[pen.row - 1]
Place == IF pen.a0 < 0 THEN 0 ELSE pen.a0

First(S) == Min(S \cup {Width})
A1 == First({x \in Pixels : x > pen.a0 /\ Colour(page[pen.row], x) # pen.colour})
A2 == First({x \in Pixels : x > A1 /\ Colour(page[pen.row], x) = pen.colour})
Changing == {x \in Pixels : Colour(Above, x) # Colour(Above, x - 1)}
B1 == First({x \in Changing : x > pen.a0 /\ Colour(Above, x) # pen.colour})
B2 == First({x \in Changing : x > B1})

(* A run as makeup codes, each a multiple of MakeUp, and a terminating one. *)
RunCodes(n) ==
    LET rest == n % MakeUp
        makeup == n - rest
    IN IF makeup = 0 THEN {<<rest>>}
       ELSE {<<makeup, rest>>} \cup {<<m, makeup - m, rest>> : m \in {i \in 1..makeup - 1 : i % MakeUp = 0}}

(* The pen moves on, at the end of the row to the next. *)
PenAt(a0, colour) == pen' = IF a0 < Width THEN [pen EXCEPT !.a0 = a0, !.colour = colour]
                            ELSE [row |-> pen.row + 1, a0 |-> -1, colour |-> 0]
-----------------------------------------------------------------------------
(* readRun(): codes until one that terminates.                             *)
ReadRun(codes) ==
    LET last == SelectInSeq(codes, LAMBDA code : code < MakeUp)
    IN FoldLeft(+, 0, SubSeq(codes, 1, last))

(* The row above as the reader has it; above the first all is white.       *)
Reference == IF lines = <<>> \/ Last(lines) = <<>> THEN <<Width, Width>> ELSE Last(lines)

(* Mutant: the first changing element past a0, of either colour. *)
FindB1OfEither(reference, a0, colour) ==
    LET past == SelectInSeq(reference, LAMBDA x : x > a0)
    IN IF past = 0 THEN Len(reference) + 1 ELSE past

(* findB1(): the first past a0 that starts a run of the other colour,      *)
(* which is a matter of parity.                                            *)
FindB1(reference, a0, colour) ==
    LET past == SelectInSeq(reference, LAMBDA x : x > a0)
        i == IF past = 0 THEN Len(reference) + 1 ELSE past
    IN IF i % 2 = colour THEN i + 1 ELSE i

At(reference, i) == IF i \in DOMAIN reference THEN reference[i] ELSE Width
AtMostWidth(x) == IF x > Width THEN Width ELSE x
Clamp(x) == IF x < 0 THEN 0 ELSE AtMostWidth(x)
Start == IF line.a0 < 0 THEN 0 ELSE line.a0

(* A row is over when a0 is past its last column, and is then the one above. *)
ReadOn(a0, colour, changes) ==
    IF a0 < Width
    THEN /\ line' = [line EXCEPT !.a0 = a0, !.colour = colour, !.changes = changes]
         /\ UNCHANGED <<lines, stage>>
    ELSE /\ line' = NewLine
         /\ lines' = Append(lines, changes)
         /\ stage' = "between"

(* The head of the loop in decodeCcitt(): an EOL may come first, then in   *)
(* mixed mode a bit that says how the row is coded.                        *)
Expected == pen.row <= Height /\ ~(coding.rows /\ Len(lines) = Height)
BeginRow(flat) ==
    /\ stage = "between" /\ Expected
    /\ flat = (IF coding.k = 0 THEN TRUE ELSE flat /\ coding.k > 0)
    /\ stage' = "row"
    /\ line' = [NewLine EXCEPT !.flat = flat]
    /\ UNCHANGED <<page, coding, pen, lines>>

(* decode1D(): runs of alternating colour, white first.                    *)
Run(codes) ==
    /\ stage = "row" /\ line.flat
    /\ codes \in RunCodes(A1 - Place)
    /\ PenAt(A1, 1 - pen.colour)
    /\ LET pos == AtMostWidth(Start + ReadRun(codes))
       IN ReadOn(pos, 1 - line.colour, Append(line.changes, pos))
    /\ UNCHANGED <<page, coding>>

(* decode2D(), mode by mode. *)
Pass ==
    /\ stage = "row" /\ ~line.flat
    /\ B2 < A1
    /\ PenAt(B2, pen.colour)
    /\ LET b2 == At(Reference, FindB1(Reference, line.a0, line.colour) + 1)
       IN ReadOn(b2, line.colour, line.changes)
    /\ UNCHANGED <<page, coding>>

Vertical(offset) ==
    /\ stage = "row" /\ ~line.flat
    /\ A1 - B1 = offset
    /\ PenAt(A1, 1 - pen.colour)
    /\ LET b1 == At(Reference, FindB1(Reference, line.a0, line.colour))
           a1 == Clamp(b1 + offset)
       IN ReadOn(a1, 1 - line.colour, Append(line.changes, a1))
    /\ UNCHANGED <<page, coding>>

Horizontal(first, second) ==
    /\ stage = "row" /\ ~line.flat
    /\ first \in RunCodes(A1 - Place) /\ second \in RunCodes(A2 - A1)
    /\ PenAt(A2, pen.colour)
    /\ LET a1 == AtMostWidth(Start + ReadRun(first))
           a2 == AtMostWidth(a1 + ReadRun(second))
       IN ReadOn(a2, line.colour, line.changes \o <<a1, a2>>)
    /\ UNCHANGED <<page, coding>>

(* Two EOLs, nothing but padding, or as many rows as there should be.      *)
BlockEnds == /\ stage = "between" /\ ~Expected
             /\ stage' = "over"
             /\ UNCHANGED <<page, coding, pen, line, lines>>

(* The stream stops early: a row that is not whole is not taken.           *)
StreamStops == /\ stage \in {"between", "row"}
               /\ stage' = "over"
               /\ line' = NewLine
               /\ UNCHANGED <<page, coding, pen, lines>>
-----------------------------------------------------------------------------
(* paint() and render(): every second run is black, what was not read is   *)
(* white.  Without a row there is no picture but an error.                 *)
Paint(changes) ==
    UNION {changes[i]..At(changes, i + 1) - 1 : i \in {j \in DOMAIN changes : j % 2 = 1}}

Picture == [y \in 1..(IF coding.rows THEN Height ELSE Len(lines)) |->
               IF y \in DOMAIN lines THEN Paint(lines[y]) ELSE {}]

FaxInit == /\ page \in [1..Height -> SUBSET Pixels]
           /\ coding \in [k : {-1, 0, 1}, rows : BOOLEAN]
           /\ pen = [row |-> 1, a0 |-> -1, colour |-> 0]
           /\ line = NewLine /\ lines = <<>> /\ stage = "between"

FaxNext ==
    \/ \E flat \in BOOLEAN : BeginRow(flat)
    \/ /\ stage = "row"
       /\ \/ \E codes \in RunCodes(A1 - Place) : Run(codes)
          \/ \E first \in RunCodes(A1 - Place), second \in RunCodes(A2 - A1) : Horizontal(first, second)
          \/ Pass
          \/ \E offset \in -3..3 : Vertical(offset)
    \/ BlockEnds \/ StreamStops

FaxSpec == FaxInit /\ [][FaxNext]_faxVars

FaxTypeOK == /\ page \in [1..Height -> SUBSET Pixels]
             /\ line.a0 \in -1..Width - 1 /\ line.colour \in {0, 1}
             /\ \A n \in DOMAIN lines : lines[n] \in Seq(0..Width)
             /\ stage \in {"between", "row", "over"}
-----------------------------------------------------------------------------
(* "Compared pixel for pixel": whichever of the allowed codes were chosen, *)
(* and wherever the stream stops, every row that is read is the row on     *)
(* paper and the rest is white; a stream that is whole gives a whole page. *)
PagesAreReadAsWritten ==
    /\ \A n \in DOMAIN lines : Paint(lines[n]) = page[n]
    /\ stage = "between" => Len(lines) = pen.row - 1
    /\ stage = "over" =>
          /\ \A y \in DOMAIN Picture : Picture[y] \in {page[y], {}}
          /\ pen.row > Height => Picture = page
=============================================================================
