---------------------------- MODULE MCDocuments ----------------------------
(* TLC instance of the way of a document into the memory: which files of   *)
(* a folder are captured, how a scanned page becomes a picture and a text  *)
(* pieces, what is let through of what a model says about it, the index of *)
(* it all, and what is derived from an object by enriching it.  The first  *)
(* state names the part that moves and the others rest, so the state space *)
(* is the sum of the parts'.                                               *)
EXTENDS Index, Fax, Chunks, Replies, Enrichment, Folder, TLC

DocumentSymmetry == Permutations(ObjectIds) \cup Permutations(Texts)

(* What a model may say.  Rows of vectors come in any order, perhaps fewer *)
(* than asked for, and name their texts; or in order without naming them.  *)
VectorRow(of, names, whole) == [index |-> IF names THEN of ELSE 1, of |-> of, vector |-> whole]
Rows == {[n \in 1..k |-> VectorRow(places[n], TRUE, n # hole)] :
            places \in Permutations(1..3), k \in 0..3, hole \in 0..3}
        \cup {[n \in 1..k |-> VectorRow(n, FALSE, TRUE)] : k \in 1..3}
UpTo(k, S) == UNION {[1..n -> S] : n \in 0..k}

MCReplies ==
    [embedText |-> Rows,
     answer |-> [grounded : BOOLEAN, answer : BOOLEAN, citations : UpTo(1, {"", "n1"})],
     extractClaims |-> UpTo(4, [long : BOOLEAN]),
     detectConflict |-> [contradicts : BOOLEAN, confidence : {<<>>, <<-10>>, <<0>>, <<20>>}],
     extractEntities |-> UpTo(2, [known : BOOLEAN, place : 0..1, confidence : {<<>>, <<20>>}]),
     proposeConcepts |-> UpTo(3, [phrase : {"", "tide"}, supports : {<<1>>, <<1, 2>>, <<0, 4>>}])
                         \cup UpTo(2, [phrase : {"tide", "moon"}, supports : {<<1, 1>>, <<3, 4, 2>>}])]

(* A folder with a file, and a subfolder that holds a folder and a file,   *)
(* each of which may turn out to be whatever a disk can hold.              *)
Entry(name, within, folder) == [name |-> name, within |-> within, folder |-> folder]
MCEntries == <<Entry("long", 0, FALSE), Entry("sub", 0, TRUE), Entry("deep", 2, TRUE), Entry("short", 2, FALSE)>>
FileKinds == {"note", "link", "unsupported", "huge", "device"}
FolderKinds == {"folder", "hidden", "machinery", "unreadable"}
MCDisks == {d \in [1..4 -> FileKinds \cup FolderKinds] :
               \A i \in 1..4 : d[i] \in IF MCEntries[i].folder THEN FolderKinds ELSE FileKinds}

(* Sentences of one long word, of a few words, of as many as fill a chunk, *)
(* and of too many, of four letters or of nine.                            *)
Sentence(words, letters) == [words |-> words, letters |-> letters]
MCSentences == {Sentence(1, 20), Sentence(2, 4), Sentence(6, 5), Sentence(17, 4), Sentence(10, 9)}

VARIABLE part  \* what this behaviour is about

BlankPage == page = [y \in 1..Height |-> {}] /\ coding = [k |-> 0, rows |-> FALSE]

DocumentsInit == /\ part \in {"index", "fax", "chunks", "replies", "enrichment", "folder"}
                 /\ Init /\ ChunksInit /\ EnrichmentInit
                 /\ FaxInit /\ (part # "fax" => BlankPage)
                 /\ RepliesInit /\ (part # "replies" => host = "claude")

DocumentsNext ==
    /\ UNCHANGED part
    /\ \/ /\ part = "index" /\ Next
          /\ UNCHANGED <<faxVars, chunkVars, replyVars, enrichmentVars>>
       \/ /\ part = "fax" /\ FaxNext
          /\ UNCHANGED <<vars, chunkVars, replyVars, enrichmentVars>>
       \/ /\ part = "chunks" /\ ChunksNext
          /\ UNCHANGED <<vars, faxVars, replyVars, enrichmentVars>>
       \/ /\ part = "replies" /\ RepliesNext
          /\ UNCHANGED <<vars, faxVars, chunkVars, enrichmentVars>>
       \/ /\ part = "enrichment" /\ EnrichmentNext
          /\ UNCHANGED <<vars, faxVars, chunkVars, replyVars>>

documentVars == <<part, vars, faxVars, chunkVars, replyVars, enrichmentVars>>
DocumentsSpec == DocumentsInit /\ [][DocumentsNext]_documentVars

(* The part that moves keeps to the values its variables are meant to have. *)
DocumentsTypeOK == \/ part = "index" /\ IndexTypeOK
                   \/ part = "fax" /\ FaxTypeOK
                   \/ part = "chunks" /\ ChunksTypeOK
                   \/ part = "replies" /\ RepliesTypeOK
                   \/ part = "enrichment" /\ EnrichmentTypeOK
                   \/ part = "folder"

(* A folder's plan answers for what it holds, and a scanned page gives its *)
(* pixels.                                                                 *)
FilesAndPagesAreRead == /\ part = "folder" => PlansAnswerForTheRest
                        /\ part = "fax" => PagesAreReadAsWritten

(* A text gives pieces between which nothing is lost and which keep to     *)
(* their size but for what the definition names.                           *)
TextsAreCutWhole == part = "chunks" => NothingFallsBetweenChunks /\ ChunksKeepToTheirSize

(* What is let through of a model's reply rests on what it was given.      *)
RepliesAreGrounded == part = "replies" => RepliesRestOnWhatWasGiven
=============================================================================
