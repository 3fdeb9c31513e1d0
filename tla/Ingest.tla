------------------------------- MODULE Ingest -------------------------------
(***************************************************************************)
(* src/core/sources.js and the capture pipeline of src/chitraq.js:         *)
(* ingestFolder(), ingest(), #readMedia() and #extractClaims().            *)
(*                                                                         *)
(* A document is stored before its claims are looked for.  A long one is   *)
(* read in pieces that overlap, one capability call each, and others go on *)
(* while a call is awaited.  The program may die at any moment; what it    *)
(* has stored stays.  A folder is planned first and then taken file by     *)
(* file.  What a model hears, or finds in a piece, is a free choice.       *)
(***************************************************************************)
EXTENDS Folder

CONSTANTS Spoken,       \* documents that a capability has to read first
          Heard,        \* texts that such a reading may give
          PiecesOf,     \* text -> its pieces, each the set of claims it makes
          Budget,       \* claimBudget: claims a document may give
          LeastOfPiece, \* claims a piece may always give (three)
          Paces,        \* how long the model may take for a piece
          Patience,     \* MAX_EXTRACTION_MS
          Window,       \* runs that are looked at to know its pace (twenty)
          Mishaps,      \* what may go wrong: "failure", "interruption"
          Ingesters,    \* captures under way at once
          MaxCaptures   \* bound: captures ever begun

NoText == "no text"

Claims == UNION {UNION ToSet(PiecesOf[text]) : text \in DOMAIN PiecesOf}

ASSUME TextAssumption ==
    /\ DOMAIN PiecesOf = Papers \cup Heard /\ NoText \notin DOMAIN PiecesOf
    /\ \A text \in DOMAIN PiecesOf :
          /\ PiecesOf[text] \in Seq(SUBSET Claims) /\ PiecesOf[text] # <<>>
          /\ \A n \in DOMAIN PiecesOf[text] : IsFiniteSet(PiecesOf[text][n])
ASSUME NumbersAssumption == /\ {Budget, LeastOfPiece, Patience, Window, MaxCaptures} \subseteq Nat
                            /\ Paces \subseteq Nat

VARIABLES source,    \* table source: what was captured, <<name, text>>
          proposed,  \* source -> the claims proposed from it, in order
          analysed,  \* sources whose extraction came to its end
          paces,     \* latencies of the model's last runs, newest first
          capture,   \* ingester -> what it is doing
          begun,     \* captures ever begun
          passed     \* ghost: files a folder run went past without a failure

storedVars == <<source, proposed, analysed, paces>>
ingestVars == <<storedVars, capture, begun, passed>>

AtRest == [stage |-> "idle", name |-> "", text |-> NoText, piece |-> 0, claims |-> <<>>,
         whole |-> FALSE, slow |-> FALSE, folder |-> FALSE, left |-> <<>>]

IngestTypeOK ==
    /\ source \subseteq (Papers \cup Spoken) \X (DOMAIN PiecesOf \cup {NoText})
    /\ DOMAIN proposed = source /\ analysed \subseteq source
    /\ paces \in Seq(Paces) /\ Len(paces) <= Window
    /\ DOMAIN capture = Ingesters
    /\ \A c \in Ingesters :
          /\ capture[c].stage \in {"idle", "next", "reading", "extracting", "proposing"}
          /\ ToSet(capture[c].left) \subseteq Papers
    /\ begun \in 0..MaxCaptures
    /\ passed \subseteq Papers

IngestInit ==
    /\ source = {} /\ proposed = <<>> /\ analysed = {} /\ paces = <<>>
    /\ capture = [c \in Ingesters |-> AtRest]
    /\ begun = 0 /\ passed = {}
-----------------------------------------------------------------------------
(* #estimatedExtractionMs(): what the median of the last runs makes of so  *)
(* many pieces; with fewer than two runs nothing is known.                 *)
Median(sorted) == IF Len(sorted) % 2 = 1 THEN sorted[(Len(sorted) \div 2) + 1]
                  ELSE (sorted[Len(sorted) \div 2] + sorted[(Len(sorted) \div 2) + 1] + 1) \div 2
TooSlow(pieces) == Len(paces) >= 2 /\ Median(SortSeq(paces, <)) * pieces > Patience

(* #extractClaims() begins: in one call when the document is short, by the *)
(* floor when the model would take too long, else piece by piece.          *)
Extraction(job, name, text, pieces) ==
    [job EXCEPT !.stage = "extracting", !.name = name, !.text = text, !.piece = 1, !.claims = <<>>,
                !.slow = pieces > 1 /\ TooSlow(pieces), !.whole = pieces = 1 \/ TooSlow(pieces)]

Onward(job) == IF job.left = <<>> THEN AtRest
               ELSE [AtRest EXCEPT !.stage = "next", !.folder = TRUE, !.left = job.left]
PassedBy(job, name) == passed' = IF job.folder THEN passed \cup {name} ELSE passed

(* Mutant: what was captured before is known by its place and not its text,*)
(* and only while its claims are being extracted. *)
AlreadyUnderWay(name, text) == \E c \in Ingesters : capture[c].name = name

(* capture(): the same content from the same place is one source.          *)
Already(name, text) == <<name, text>> \in source

(* The document is stored, and only then are its claims looked for.        *)
Store(c, job, name, text) ==
    IF Already(name, text)
    THEN /\ capture' = [capture EXCEPT ![c] = Onward(job)]
         /\ PassedBy(job, name)
         /\ UNCHANGED storedVars
    ELSE /\ source' = source \cup {<<name, text>>}
         /\ proposed' = [s \in source' |-> IF s \in source THEN proposed[s] ELSE <<>>]
         /\ IF text = NoText
            THEN /\ capture' = [capture EXCEPT ![c] = Onward(job)]
                 /\ analysed' = analysed \cup {<<name, text>>}
                 /\ PassedBy(job, name)
            ELSE /\ capture' = [capture EXCEPT ![c] = Extraction(job, name, text, Len(PiecesOf[text]))]
                 /\ UNCHANGED <<analysed, passed>>
         /\ UNCHANGED paces

MayBegin(c) == capture[c].stage = "idle" /\ begun < MaxCaptures /\ begun' = begun + 1

IngestOne(c, name) ==
    /\ MayBegin(c)
    /\ IF name \in Spoken
       THEN /\ capture' = [capture EXCEPT ![c] = [AtRest EXCEPT !.stage = "reading", !.name = name]]
            /\ UNCHANGED <<storedVars, passed>>
       ELSE Store(c, AtRest, name, name)

(* #readMedia(): a model heard something, or nothing could be made of it.  *)
ReadingEnds(c, text) ==
    /\ capture[c].stage = "reading"
    /\ Store(c, AtRest, capture[c].name, text)
    /\ UNCHANGED begun

IngestFolder(c, disk, limit, recursive) ==
    /\ MayBegin(c)
    /\ LET files == PlanFolder(disk, limit, recursive).files IN
       capture' = [capture EXCEPT ![c] =
                     Onward([AtRest EXCEPT !.left = [n \in DOMAIN files |-> Entries[files[n]].name]])]
    /\ UNCHANGED <<storedVars, passed>>

(* The next file of the plan.  Whether it is known to be unchanged or its  *)
(* text turns out to be stored already, nothing more is done about it.     *)
NextFile(c) ==
    /\ capture[c].stage = "next"
    /\ LET name == Head(capture[c].left) IN
       Store(c, [capture[c] EXCEPT !.left = Tail(@)], name, name)
    /\ UNCHANGED begun
-----------------------------------------------------------------------------
InView(job) == IF job.whole THEN UNION ToSet(PiecesOf[job.text]) ELSE PiecesOf[job.text][job.piece]

(* The budget is spread over the pieces, but a piece may give a few always.*)
PerPiece(pieces) == Max({LeastOfPiece, (Budget + pieces - 1) \div pieces})
LimitOf(job) == IF job.whole THEN Budget ELSE PerPiece(Len(PiecesOf[job.text]))
Lists(S, n) == UNION {[1..k -> S] : k \in 0..n}

(* Overlapping pieces repeat claims: each is taken where it is first met.  *)
Unseen(claims, found) == {i \in DOMAIN found : /\ found[i] \notin ToSet(claims)
                                               /\ \A j \in 1..(i - 1) : found[j] # found[i]}
Merged(claims, found) ==
    LET Nth(n) == CHOOSE i \in Unseen(claims, found) :
                      Cardinality({j \in Unseen(claims, found) : j <= i}) = n
    IN claims \o [n \in 1..Cardinality(Unseen(claims, found)) |-> found[Nth(n)]]

(* After a call: the next piece, unless it was the last or the budget is   *)
(* spent.                                                                  *)
Told(job, claims) ==
    IF job.whole \/ job.piece = Len(PiecesOf[job.text]) \/ Len(claims) >= Budget
    THEN [job EXCEPT !.stage = "proposing",
                     !.claims = IF job.whole THEN claims ELSE SubSeq(claims, 1, Min({Len(claims), Budget}))]
    ELSE [job EXCEPT !.piece = @ + 1, !.claims = claims]
Takes(c, found) ==
    capture' = [capture EXCEPT ![c] = Told(@, IF @.whole THEN found ELSE Merged(@.claims, found))]
Measured(pace) == paces' = SubSeq(<<pace>> \o paces, 1, Min({Window, Len(paces) + 1}))
StillStored == UNCHANGED <<source, proposed, analysed, begun, passed>>

ModelFinds(c, found, pace) ==
    /\ capture[c].stage = "extracting" /\ ~capture[c].slow
    /\ Takes(c, found) /\ Measured(pace)
    /\ StillStored

(* The floor finds what it always finds, first in the order of the text;   *)
(* before it the model may have been tried and cut off.                    *)
FloorFinds(c, cutOff) ==
    /\ capture[c].stage = "extracting"
    /\ LET all == SetToSeq(InView(capture[c])) IN
       Takes(c, SubSeq(all, 1, Min({Len(all), LimitOf(capture[c])})))
    /\ IF cutOff THEN ~capture[c].slow /\ Measured(Max(Paces)) ELSE UNCHANGED paces
    /\ StillStored

NobodyFinds(c) ==
    /\ capture[c].stage = "extracting"
    /\ Takes(c, <<>>)
    /\ UNCHANGED paces /\ StillStored

(* Each claim is a proposal of its own, in a transaction of its own.       *)
ProposeClaim(c) ==
    LET s == <<capture[c].name, capture[c].text>> IN
    /\ capture[c].stage = "proposing" /\ capture[c].claims # <<>>
    /\ proposed' = [proposed EXCEPT ![s] = Append(@, Head(capture[c].claims))]
    /\ capture' = [capture EXCEPT ![c].claims = Tail(@)]
    /\ UNCHANGED <<source, analysed, paces, begun, passed>>

CaptureEnds(c) ==
    /\ capture[c].stage = "proposing" /\ capture[c].claims = <<>>
    /\ analysed' = analysed \cup {<<capture[c].name, capture[c].text>>}
    /\ capture' = [capture EXCEPT ![c] = Onward(@)]
    /\ PassedBy(capture[c], capture[c].name)
    /\ UNCHANGED <<source, proposed, paces, begun>>

(* One file fails, to be read or to be written: that costs the file.       *)
CaptureFails(c) ==
    /\ "failure" \in Mishaps
    /\ capture[c].stage # "idle"
    /\ LET left == IF capture[c].stage = "next" THEN Tail(capture[c].left) ELSE capture[c].left
       IN  capture' = [capture EXCEPT ![c] = Onward([@ EXCEPT !.left = left])]
    /\ UNCHANGED <<storedVars, begun, passed>>

(* Ctrl-C, or the process dies.                                            *)
Interrupted ==
    /\ "interruption" \in Mishaps
    /\ \E c \in Ingesters : capture[c] # AtRest
    /\ capture' = [c \in Ingesters |-> AtRest]
    /\ UNCHANGED <<storedVars, begun, passed>>

IngestNext ==
    \/ \E c \in Ingesters, name \in Papers \cup Spoken : IngestOne(c, name)
    \/ \E c \in Ingesters, disk \in Disks, limit \in Limits, recursive \in BOOLEAN :
          IngestFolder(c, disk, limit, recursive)
    \/ \E c \in Ingesters : \/ \E text \in Heard \cup {NoText} : ReadingEnds(c, text)
                            \/ NextFile(c) \/ NobodyFinds(c) \/ ProposeClaim(c)
                            \/ CaptureEnds(c) \/ CaptureFails(c)
                            \/ \E cutOff \in BOOLEAN : FloorFinds(c, cutOff)
    \/ \E c \in Ingesters, pace \in Paces :
          capture[c].stage = "extracting" /\
          \E found \in Lists(InView(capture[c]), LimitOf(capture[c])) : ModelFinds(c, found, pace)
    \/ Interrupted

IngestSpec == IngestInit /\ [][IngestNext]_ingestVars
-----------------------------------------------------------------------------
(* A document read in pieces gives each of its claims once and no more     *)
(* than its budget, however its pieces overlap, whatever is captured again,*)
(* interrupted or captured twice at the same time.                         *)
ClaimsAreProposedOnce ==
    \A s \in source :
        s[2] # NoText /\ Len(PiecesOf[s[2]]) > 1 =>
            Len(proposed[s]) <= Budget /\ IsInjective(proposed[s])

(* ingestFolder(): "stopping halfway loses nothing".  A file that a run    *)
(* has gone past has been read for its claims, or is being read.           *)
StoppingLosesNothing ==
    \A name \in passed :
        \/ <<name, name>> \in analysed
        \/ \E c \in Ingesters : capture[c].name = name
=============================================================================
