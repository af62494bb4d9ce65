------------------------------- MODULE Chunker -------------------------------
(***************************************************************************)
(* How statutes are cut into chunks.  chunk_document (app/rag/chunker.py)  *)
(* takes one article after the other, _split_long_section gathers the      *)
(* article's paragraphs into chunks of at most MAX_CHUNK_CHARS that        *)
(* overlap by one paragraph; load_chunks_from_dir (app/rag/indexer.py)     *)
(* does so for every file of a directory, index_documents for the          *)
(* directories of the three collections.                                   *)
(*                                                                         *)
(* The text itself is left out: an article is where each of its paragraphs *)
(* ends when they are put side by side, and how much longer its body is    *)
(* than the paragraphs joined by two line feeds.  One iteration of the     *)
(* loop over paragraphs is one step.                                       *)
(***************************************************************************)
EXTENDS Integers, Sequences

CONSTANTS
  Articles,         \* articles a document can be made of
  Roots,            \* data directories
  MAX_CHUNK_CHARS,
  ChunkLimits       \* values of --limit; NoChunkLimit is None

NoChunkLimit == 0
Separator == 2      \* Len("\n\n")
Groups == <<"general", "primal", "secondary">>
OldPoint == [group |-> 0]   \* what a collection held before

\* ends[i]: the lengths of paragraphs 1 .. i together, none of them empty.
\* A directory is a sequence of documents, a document one of articles.
ASSUME ChunkerAssumption ==
  /\ MAX_CHUNK_CHARS \in Nat
  /\ ChunkLimits \subseteq Nat
  /\ \A a \in Articles :
       /\ a.size \in Nat /\ a.slack \in Nat
       /\ a.ends \in [0 .. a.size -> Nat]
       /\ a.ends[0] = 0
       /\ \A i \in 1 .. a.size : a.ends[i - 1] < a.ends[i]
  /\ \A r \in Roots :
       /\ {r.general, r.specific, r.primal, r.secondary} \subseteq Seq(Seq(Articles))
       /\ r.hasPrimal \in BOOLEAN

VARIABLES
  task,       \* index_documents, export_chunks or preview_chunks
  root,
  limit,
  group,      \* the directory at work
  file,       \* the document at work
  section,    \* the article at work
  first,      \* `current' holds the paragraphs first .. next - 1
  next,
  held,       \* current_len
  chunks,     \* what was produced
  produced,   \* chunk_index
  taken,      \* the number of chunks of the directory
  stage,      \* "prepare", "file", "start" of an article, "gather" its paragraphs,
              \* "store", or "done"
  stored      \* stored[g]: the points of collection g

chunkVars == <<task, root, limit, group, file, section, first, next, held,
               chunks, produced, taken, stage, stored>>

\* Without a directory for the primal sources they are taken from the one
\* above it, and from the directories below that.
Files(g) ==
  CASE g = "general" -> root.general
    [] g = "primal" -> IF root.hasPrimal THEN root.primal ELSE root.specific \o root.secondary
    [] g = "secondary" -> root.secondary

Directory == Files(Groups[group])
Document == Directory[file]
Article == Document[section]

Length(a, i) == a.ends[i] - a.ends[i - 1]

\* The length of paragraphs i .. j joined by blank lines.
Joined(a, i, j) == a.ends[j] - a.ends[i - 1] + Separator * (j - i)

Chunk(i, j) ==
  [group |-> group, file |-> file, id |-> produced, section |-> section, from |-> i, to |-> j]

OfGroup(g) == {c \in chunks : c.group = g}

ChunkerInit ==
  /\ root \in Roots
  /\ \/ task \in {"index", "export"} /\ limit = NoChunkLimit /\ group = 1
     \/ task = "preview" /\ limit \in ChunkLimits /\ group \in DOMAIN Groups
  /\ file = 0 /\ section = 1 /\ first = 1 /\ next = 1 /\ held = 0
  /\ chunks = {} /\ produced = 0 /\ taken = 0
  /\ stage = IF task = "index" THEN "prepare" ELSE "file"
  /\ stored = [g \in DOMAIN Groups |-> {OldPoint}]

job == <<task, root, limit>>
place == <<section, first, next, held>>
output == <<chunks, produced, taken>>

-----------------------------------------------------------------------------
(* index_documents and load_chunks_from_dir *)

\* The three collections are there before anything is read; they are emptied
\* when they are to be recreated.
Prepare ==
  /\ stage = "prepare"
  /\ stage' = "file"
  /\ stored' \in {stored, [g \in DOMAIN Groups |-> {}]}
  /\ UNCHANGED <<job, group, file, place, output>>

NextFile ==
  /\ stage = "file" /\ file < Len(Directory)
  /\ file' = file + 1
  /\ section' = 1 /\ first' = 1 /\ next' = 1 /\ held' = 0
  /\ produced' = 0
  /\ stage' = IF Directory[file + 1] = << >> THEN "file" ELSE "start"
  /\ UNCHANGED <<job, group, chunks, taken, stored>>

NextDirectory ==
  /\ stage = "file" /\ file = Len(Directory) /\ task # "preview" /\ group < Len(Groups)
  /\ group' = group + 1
  /\ file' = 0 /\ taken' = 0
  /\ UNCHANGED <<job, place, chunks, produced, stage, stored>>

LastDirectory ==
  /\ stage = "file" /\ file = Len(Directory) /\ (task = "preview" \/ group = Len(Groups))
  /\ stage' = IF task = "index" THEN "store" ELSE "done"
  /\ group' = IF task = "index" THEN 1 ELSE group
  /\ UNCHANGED <<job, file, place, output, stored>>

\* The chunks of a directory go to its collection, beside what it holds.
Store ==
  /\ stage = "store"
  /\ stored' = [stored EXCEPT ![group] = @ \cup OfGroup(group)]
  /\ group' = IF group < Len(Groups) THEN group + 1 ELSE group
  /\ stage' = IF group < Len(Groups) THEN "store" ELSE "done"
  /\ UNCHANGED <<job, file, place, output>>

\* A batch that cannot be embedded or uploaded ends it all.
StoreFails ==
  /\ stage = "store"
  /\ \E batches \in SUBSET OfGroup(group) : stored' = [stored EXCEPT ![group] = @ \cup batches]
  /\ stage' = "failed"
  /\ UNCHANGED <<job, group, file, place, output>>

-----------------------------------------------------------------------------
(* chunk_document and _split_long_section *)

\* A chunk gets the next index.
Produce(i, j) ==
  /\ chunks' = chunks \cup {Chunk(i, j)}
  /\ produced' = produced + 1 /\ taken' = taken + 1
  /\ UNCHANGED <<job, group, file, stored>>

LimitReached == limit # NoChunkLimit /\ taken + 1 >= limit

\* On to the next article, or to the next file.
Leave ==
  /\ section' = section + 1
  /\ first' = 1 /\ next' = 1 /\ held' = 0
  /\ stage' = IF LimitReached THEN "done"
              ELSE IF section < Len(Document) THEN "start" ELSE "file"

Short(a) == a.size = 0 \/ Joined(a, 1, a.size) + a.slack <= MAX_CHUNK_CHARS

\* An empty body gives an empty chunk, a short one a single chunk.
WholeArticle ==
  /\ stage = "start" /\ Short(Article)
  /\ Produce(1, Article.size)
  /\ Leave

LongArticle ==
  /\ stage = "start" /\ ~Short(Article)
  /\ stage' = "gather"
  /\ UNCHANGED <<job, group, file, place, output, stored>>

Overflows == first < next /\ held + Length(Article, next) + Separator > MAX_CHUNK_CHARS

Gather ==
  /\ stage = "gather" /\ next <= Article.size /\ ~Overflows
  /\ held' = held + Length(Article, next) + Separator
  /\ next' = next + 1
  /\ UNCHANGED <<job, group, file, section, first, output, stage, stored>>

\* Mutant: the length of the overlap is not counted.
Flush_ForgetsOverlap ==
  /\ stage = "gather" /\ next <= Article.size /\ Overflows
  /\ Produce(first, next - 1)
  /\ first' = next - 1
  /\ held' = Length(Article, next) + Separator
  /\ next' = next + 1
  /\ stage' = IF LimitReached THEN "done" ELSE "gather"
  /\ UNCHANGED section

\* The chunk is full: the next one starts with its last paragraph, and takes
\* the paragraph at hand whether it fits or not.
Flush ==
  /\ stage = "gather" /\ next <= Article.size /\ Overflows
  /\ Produce(first, next - 1)
  /\ first' = next - 1
  /\ held' = Length(Article, next - 1) + Length(Article, next) + Separator
  /\ next' = next + 1
  /\ stage' = IF LimitReached THEN "done" ELSE "gather"
  /\ UNCHANGED section

LastOfArticle ==
  /\ stage = "gather" /\ next > Article.size
  /\ Produce(first, Article.size)
  /\ Leave

ChunkerNext ==
  \/ Prepare \/ NextFile \/ NextDirectory \/ LastDirectory \/ Store \/ StoreFails
  \/ WholeArticle \/ LongArticle \/ Gather \/ Flush \/ LastOfArticle

ChunkerSpec == ChunkerInit /\ [][ChunkerNext]_chunkVars

-----------------------------------------------------------------------------
(* Properties *)

SameDocument(c, d) == c.group = d.group /\ c.file = d.file
SameArticle(c, d) == SameDocument(c, d) /\ c.section = d.section
Before(c) == {p \in chunks : p.id = c.id - 1 /\ SameArticle(p, c)}

\* The first chunk of an article begins it; another begins with the last
\* paragraph of the chunk before it, beyond which it goes.
Continues(c) ==
  IF Before(c) = {} THEN c.from = 1
  ELSE \A p \in Before(c) : p.to = c.from /\ c.from < c.to

ArticleOf(c) == Files(Groups[c.group])[c.file][c.section]

\* A chunk is longer than the limit only when it is one paragraph, or an
\* overlap and the paragraph after it.
ChunkFits(c) ==
  \/ c.to <= c.from
  \/ c.to = c.from + 1 /\ Before(c) # {}
  \/ Joined(ArticleOf(c), c.from, c.to) <= MAX_CHUNK_CHARS

\* Articles of the directory at work that were passed.
Passed(f, s) == f < file \/ (f = file /\ s < section)

\* Cutting loses nothing: every article that was passed is covered by chunks
\* that follow one another with an overlap of one paragraph to its end, their
\* indices are distinct, no chunk is longer than the overlap makes it, there
\* are no more than the limit allows, and index_documents stores them all.
ChunksCover ==
  /\ \A c \in chunks : Continues(c) /\ ChunkFits(c)
  /\ \A c, d \in chunks : SameDocument(c, d) /\ c.id = d.id => c = d
  /\ stage \notin {"prepare", "store", "failed"} =>
       \A f \in DOMAIN Directory : \A s \in DOMAIN Directory[f] :
         Passed(f, s) => \E c \in OfGroup(group) :
                           c.file = f /\ c.section = s /\ c.to = Directory[f][s].size
  /\ limit # NoChunkLimit => taken <= limit
  /\ task = "index" /\ stage = "done" =>
       \A g \in DOMAIN Groups : OfGroup(g) \subseteq stored[g]
=============================================================================
