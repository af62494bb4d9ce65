------------------------------ MODULE EmbedSplit ------------------------------
(***************************************************************************)
(* How the text of a chunk is cut into the pieces that are embedded        *)
(* (app/rag/indexer.py, _split_text_for_embedding): paragraphs are         *)
(* gathered into pieces of at most max_chars, a longer paragraph is cut    *)
(* into slices, and after max_count pieces the rest is left out.  The      *)
(* vector of the chunk is the average of the vectors of its pieces.        *)
(*                                                                         *)
(* A text is where each of its paragraphs ends, as in Chunker.  A place in *)
(* it is a paragraph and an offset.  One iteration of a loop is one step.  *)
(***************************************************************************)
EXTENDS Integers, Sequences

CONSTANTS
  Texts,
  EMBED_MAX_CHARS,     \* EMBED_SUBCHUNK_MAX_CHARS
  EMBED_MAX_COUNT      \* EMBED_SUBCHUNK_MAX_COUNT

BlankLine == 2         \* Len("\n\n")

ASSUME EmbedSplitAssumption ==
  /\ EMBED_MAX_CHARS \in Nat \ {0} /\ EMBED_MAX_COUNT \in Nat \ {0}
  /\ \A t \in Texts :
       /\ t.size \in Nat /\ t.slack \in Nat
       /\ t.ends \in [0 .. t.size -> Nat]
       /\ t.ends[0] = 0
       /\ \A i \in 1 .. t.size : t.ends[i - 1] < t.ends[i]

VARIABLES
  text,
  para,       \* the paragraph at hand
  offset,     \* where the next slice of it starts
  gathered,   \* `current' holds the paragraphs gathered .. para - 1
  chars,      \* current_len
  pieces,     \* subchunks
  split       \* it has returned

embedVars == <<text, para, offset, gathered, chars, pieces, split>>

ParaLength(i) == text.ends[i] - text.ends[i - 1]
JoinedLength(i, j) == text.ends[j] - text.ends[i - 1] + BlankLine * (j - i)
TextLength == IF text.size = 0 THEN 0 ELSE JoinedLength(1, text.size) + text.slack

Place(i, o) == [para |-> i, offset |-> o]
EndOf(i) == Place(i + 1, 0)

EmbedSplitInit ==
  /\ text \in Texts
  /\ para = 1 /\ offset = 0 /\ gathered = 1 /\ chars = 0
  /\ pieces = << >> /\ split = FALSE

-----------------------------------------------------------------------------

AddPiece(from, to, length) ==
  /\ pieces' = Append(pieces, [from |-> from, to |-> to, length |-> length])
  /\ UNCHANGED text

AddGathered == AddPiece(Place(gathered, 0), Place(para, 0), JoinedLength(gathered, para - 1))

\* After max_count pieces the function returns.
ReturnWhenFull == split' = (Len(pieces) + 1 >= EMBED_MAX_COUNT)

\* A text that fits is its only piece.
WholeText ==
  /\ ~split /\ para = 1 /\ pieces = << >> /\ TextLength <= EMBED_MAX_CHARS
  /\ pieces' = << [from |-> Place(1, 0), to |-> EndOf(text.size), length |-> TextLength] >>
  /\ split' = TRUE
  /\ UNCHANGED <<text, para, offset, gathered, chars>>

AtWork == ~split /\ TextLength > EMBED_MAX_CHARS
Full == gathered < para /\ chars + ParaLength(para) + BlankLine > EMBED_MAX_CHARS

\* Mutant: the number of pieces is not looked at.
FlushPiece_NoLimit ==
  /\ AtWork /\ para <= text.size /\ Full
  /\ AddGathered
  /\ gathered' = para /\ chars' = 0
  /\ UNCHANGED <<para, offset, split>>

FlushPiece ==
  /\ AtWork /\ para <= text.size /\ Full
  /\ AddGathered /\ ReturnWhenFull
  /\ gathered' = para /\ chars' = 0
  /\ UNCHANGED <<para, offset>>

GatherParagraph ==
  /\ AtWork /\ para <= text.size /\ ~Full /\ ParaLength(para) <= EMBED_MAX_CHARS
  /\ para' = para + 1
  /\ chars' = chars + ParaLength(para) + BlankLine
  /\ UNCHANGED <<text, offset, gathered, pieces, split>>

\* A paragraph that is longer than a piece goes alone, slice after slice.
SliceParagraph ==
  /\ AtWork /\ para <= text.size /\ ~Full /\ ParaLength(para) > EMBED_MAX_CHARS
  /\ LET end == offset + EMBED_MAX_CHARS
     IN  IF end < ParaLength(para)
         THEN /\ AddPiece(Place(para, offset), Place(para, end), EMBED_MAX_CHARS)
              /\ offset' = end
              /\ UNCHANGED <<para, gathered>>
         ELSE /\ AddPiece(Place(para, offset), EndOf(para), ParaLength(para) - offset)
              /\ offset' = 0 /\ para' = para + 1 /\ gathered' = para + 1
  /\ ReturnWhenFull
  /\ UNCHANGED chars

LastPiece ==
  /\ AtWork /\ para > text.size
  /\ IF gathered < para THEN AddGathered ELSE UNCHANGED <<text, pieces>>
  /\ split' = TRUE
  /\ UNCHANGED <<para, offset, gathered, chars>>

EmbedSplitNext == WholeText \/ FlushPiece \/ GatherParagraph \/ SliceParagraph \/ LastPiece

EmbedSplitSpec == EmbedSplitInit /\ [][EmbedSplitNext]_embedVars

-----------------------------------------------------------------------------
(* Properties *)

Whole == pieces # << >> /\ pieces[Len(pieces)].to = EndOf(text.size)
Parted == \E i \in 1 .. text.size : ParaLength(i) > EMBED_MAX_CHARS

\* The pieces are at most max_count, none longer than max_chars, and they
\* follow one another from the beginning of the text.  Its end is left out
\* only after max_count pieces, and then a paragraph was cut into slices or
\* the text is so long that every second piece had to be full.
PiecesFit ==
  /\ Len(pieces) <= EMBED_MAX_COUNT
  /\ \A k \in DOMAIN pieces :
       /\ pieces[k].length <= EMBED_MAX_CHARS
       /\ pieces[k].from = IF k = 1 THEN Place(1, 0) ELSE pieces[k - 1].to
  /\ split /\ ~Whole =>
       /\ Len(pieces) = EMBED_MAX_COUNT
       /\ \/ Parted
          \/ TextLength > ((EMBED_MAX_COUNT + 1) \div 2) * (EMBED_MAX_CHARS - 2 * BlankLine)
=============================================================================
