------------------------------- MODULE Chunks -------------------------------
(***************************************************************************)
(* chunk() of src/core/text.js: how a text is cut into the pieces that are *)
(* indexed and cited.  A text is a sequence of sentences; of a sentence    *)
(* only its place, the number and the length of its words and whether it   *)
(* ends its paragraph are told apart.                                      *)
(***************************************************************************)
EXTENDS Integers, Sequences, FiniteSets
LOCAL INSTANCE SequencesExt
LOCAL INSTANCE FiniteSetsExt

CONSTANTS MaxTokens,    \* the size a chunk is meant to keep to
          Sentences,    \* what a sentence may be: [words, letters], letters of each word
          MaxSentences  \* bound: sentences of a text

ASSUME ChunkAssumption ==
    /\ MaxTokens \in Nat \ {0} /\ MaxSentences \in Nat
    /\ Sentences \subseteq [words : Nat \ {0}, letters : Nat \ {0}]

VARIABLE text  \* the sentences so far: [words, letters, last]

chunkVars == <<text>>

(* estimateTokens(): a token for four characters, or 1.3 for each word.    *)
Estimate(words, characters) == Max({(characters + 3) \div 4, (13 * words + 9) \div 10})

Characters(words, letters) == words * letters + words - 1
Tokens(n) == Estimate(text[n].words, Characters(text[n].words, text[n].letters))

(* What a buffer counts, sentence by sentence, and what it comes to when   *)
(* its sentences are joined by blanks.                                     *)
Sum(f(_), buffer) == FoldLeft(LAMBDA k, n : k + f(n), 0, buffer)
Size(buffer) == Sum(Tokens, buffer)
Joined(buffer) == Estimate(Sum(LAMBDA n : text[n].words, buffer),
                           Sum(LAMBDA n : Characters(text[n].words, text[n].letters) + 1, buffer) - 1)

(* hardSplit(): a sentence that is too long by itself is cut after so many *)
(* words as come to a chunk, however long these are.                       *)
Piece(sentence, words, size) == [sentence |-> sentence, words |-> words, tokens |-> size]
WordsOfPiece == Max({1, (10 * MaxTokens) \div 13})
HardSplit(n) ==
    LET pieces == (text[n].words + WordsOfPiece - 1) \div WordsOfPiece
        words(k) == Min({WordsOfPiece, text[n].words - WordsOfPiece * (k - 1)})
    IN [k \in 1..pieces |-> Piece(<<n>>, words(k), Estimate(words(k), Characters(words(k), text[n].letters)))]

(* Mutant: nothing is carried over. *)
CarriedNothing(buffer) == <<>>

(* The last sentence begins the next chunk as well.                        *)
Carried(buffer) == <<Last(buffer)>>

(* flush(): what is in the buffer becomes a chunk.                         *)
Flush(s) ==
    IF s.buffer = <<>> THEN s
    ELSE [chunks |-> Append(s.chunks, Piece(s.buffer, Sum(LAMBDA n : text[n].words, s.buffer), Joined(s.buffer))),
          buffer |-> Carried(s.buffer)]

(* The next sentence, and at the end of its paragraph a flush if enough    *)
(* has come together.                                                      *)
Taken(s, n) ==
    LET fits == IF Size(s.buffer) + Tokens(n) > MaxTokens THEN Flush(s) ELSE s
    IN IF Tokens(n) > MaxTokens
       THEN [chunks |-> Flush(s).chunks \o HardSplit(n), buffer |-> <<>>]
       ELSE [fits EXCEPT !.buffer = Append(@, n)]

Rested(s, n) == IF text[n].last /\ 10 * Size(s.buffer) > 6 * MaxTokens THEN Flush(s) ELSE s

Chunked == Flush(FoldLeft(LAMBDA s, n : Rested(Taken(s, n), n),
                          [chunks |-> <<>>, buffer |-> <<>>],
                          [n \in DOMAIN text |-> n])).chunks
-----------------------------------------------------------------------------
ChunksInit == text = <<>>

Write(s, last) == /\ Len(text) < MaxSentences
                  /\ text' = Append(text, [words |-> s.words, letters |-> s.letters, last |-> last])

ChunksNext == \E s \in Sentences, last \in BOOLEAN : Write(s, last)

ChunksSpec == ChunksInit /\ [][ChunksNext]_chunkVars

ChunksTypeOK == /\ text \in Seq([words : Nat, letters : Nat, last : BOOLEAN])
                /\ Len(text) <= MaxSentences
-----------------------------------------------------------------------------
(* "A claim spanning a boundary is still findable whole": every sentence   *)
(* that fits into a chunk is whole in one, two such sentences that follow  *)
(* each other are whole in one, of a longer one no word is missing, and    *)
(* the chunks come in the order of the text.                               *)
NothingFallsBetweenChunks ==
    LET chunks == Chunked
        Whole(n) == Tokens(n) <= MaxTokens
        Together(S) == \E i \in DOMAIN chunks : S \subseteq ToSet(chunks[i].sentence)
        PiecesOf(n) == {i \in DOMAIN chunks : n \in ToSet(chunks[i].sentence)}
    IN /\ \A n \in DOMAIN text :
             /\ Together({n})
             /\ n > 1 /\ Whole(n - 1) /\ Whole(n) => Together({n - 1, n})
             /\ ~Whole(n) => MapThenSumSet(LAMBDA i : chunks[i].words, PiecesOf(n)) = text[n].words
       /\ \A i \in 2..Len(chunks) :
             Head(chunks[i - 1].sentence) <= Head(chunks[i].sentence)

(* A chunk outgrows its limit by no more than the sentence it shares with  *)
(* the one before, to which the next is added unasked, and the blanks      *)
(* between its sentences, which no count sees.  The pieces of a sentence   *)
(* that was split keep to the limit only where a word and its blank come   *)
(* to no more than the 1.3 tokens by which pieces are cut: a sentence of   *)
(* longer words, or of one word, stays above it.                           *)
ChunksKeepToTheirSize ==
    LET chunks == Chunked
        Shared(i) == IF i > 1 /\ Head(chunks[i].sentence) \in ToSet(chunks[i - 1].sentence)
                     THEN Tokens(Head(chunks[i].sentence)) ELSE 0
        Blanks(i) == (Len(chunks[i].sentence) + 2) \div 4
        Split(i) == Tokens(Head(chunks[i].sentence)) > MaxTokens
        OfLongWords(i) == 10 * (text[Head(chunks[i].sentence)].letters + 1) > 13 * 4
    IN \A i \in DOMAIN chunks :
          IF Split(i) THEN OfLongWords(i) \/ chunks[i].tokens <= MaxTokens
          ELSE chunks[i].tokens <= MaxTokens + Shared(i) + Blanks(i)
=============================================================================
