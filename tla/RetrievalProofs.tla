-------------------------- MODULE RetrievalProofs ---------------------------
(***************************************************************************)
(* Proofs about the parts of the retrieval of norms: Chunker and           *)
(* EmbedSplit, for texts of any length, References, for any registry, and  *)
(* Retrieval, for any corpus and any bounds of its loops.                  *)
(***************************************************************************)
EXTENDS Chunker, EmbedSplit, References, Retrieval, FiniteSetTheorems, TLAPS

-----------------------------------------------------------------------------
(* Induction                                                               *)

\* Induction on the natural numbers, for a set of them.
LEMMA EveryNatural ==
  ASSUME NEW S, 0 \in S, \A k \in Nat : k \in S => k + 1 \in S
  PROVE  Nat \subseteq S
<1> SUFFICES ASSUME NEW n \in Nat, n \notin S PROVE FALSE
  OBVIOUS
<1> DEFINE T == {k \in 0 .. n : k \in S}
           U == T \ {0}
           f == [k \in T |-> k + 1]
<1>1. IsFiniteSet(T) /\ Cardinality(T) \in Nat
  <2>1. T \subseteq 0 .. n /\ IsFiniteSet(0 .. n)
    BY FS_Interval
  <2> QED
    BY <2>1, FS_Subset, FS_CardinalityType
<1>2. IsFiniteSet(U) /\ Cardinality(U) = Cardinality(T) - 1
  <2>1. 0 \in T
    OBVIOUS
  <2> QED
    BY <1>1, <2>1, FS_RemoveElement
<1>3. \A k \in T : k + 1 \in U
  <2> TAKE k \in T
  <2>1. k \in 0 .. n /\ k # n /\ k + 1 \in S
    OBVIOUS
  <2> QED
    BY <2>1
<1>4. f \in Injection(T, U)
  <2>1. f \in [T -> U]
    BY <1>3
  <2>2. \A a, b \in T : f[a] = f[b] => a = b
    OBVIOUS
  <2> QED
    BY <2>1, <2>2 DEF Injection, IsInjective
<1>5. Cardinality(T) <= Cardinality(U)
  BY <1>2, <1>4, FS_Injection
<1> QED
  BY <1>1, <1>2, <1>5

\* A set of natural numbers that is not empty has a least element.
LEMMA LeastElement ==
  ASSUME NEW S \in SUBSET Nat, NEW n \in S
  PROVE  \E i \in S : \A j \in S : i <= j
<1> DEFINE Below == {k \in Nat : \A j \in S : k <= j}
<1>1. SUFFICES ASSUME \A i \in S : \E j \in S : ~(i <= j)
               PROVE  FALSE
  OBVIOUS
<1>2. 0 \in Below
  BY Z3
<1>3. ASSUME NEW k \in Nat, k \in Below PROVE k + 1 \in Below
  <2>1. \A j \in S : j \in Nat /\ k <= j
    BY <1>3
  <2>2. k \notin S
    BY <1>1, <2>1
  <2>3. \A j \in S : k # j /\ j \in Nat /\ k <= j
    BY <2>1, <2>2
  <2>4. \A j \in S : k + 1 <= j
    BY <2>3
  <2> QED
    BY <2>4
<1> HIDE DEF Below
<1>4. Nat \subseteq Below
  BY <1>2, <1>3, EveryNatural
<1>5. n + 1 \in Below /\ n \in Nat
  BY <1>4
<1>6. n + 1 <= n
  BY <1>5 DEF Below
<1> QED
  BY <1>5, <1>6

\* The ends of paragraphs, none of which is empty, increase.
LEMMA EndsIncrease ==
  ASSUME NEW n \in Nat, NEW ends \in [0 .. n -> Nat], \A i \in 1 .. n : ends[i - 1] < ends[i],
         NEW i \in 0 .. n, NEW j \in 0 .. n
  PROVE  /\ i <= j => ends[i] <= ends[j]
         /\ i < j => ends[i] < ends[j]
<1> DEFINE Up == {k \in Nat : i + k <= n => ends[i] <= ends[i + k]}
<1>1. 0 \in Up
  OBVIOUS
<1>2. ASSUME NEW k \in Nat, k \in Up PROVE k + 1 \in Up
  <2> SUFFICES ASSUME i + (k + 1) <= n PROVE ends[i] <= ends[i + (k + 1)]
    OBVIOUS
  <2>1. ends[i] <= ends[i + k]
    BY <1>2
  <2>2. i + (k + 1) \in 1 .. n /\ (i + (k + 1)) - 1 = i + k /\ i + k \in 0 .. n
    OBVIOUS
  <2>3. ends[i + k] < ends[i + (k + 1)]
    BY <2>2
  <2>4. ends[i] \in Nat /\ ends[i + k] \in Nat /\ ends[i + (k + 1)] \in Nat
    BY <2>2
  <2> QED
    BY <2>1, <2>3, <2>4
<1>3. Nat \subseteq Up
  <2> HIDE DEF Up
  <2> QED
    BY <1>1, <1>2, EveryNatural
<1>4. \A l \in 0 .. n : i <= l => ends[i] <= ends[l]
  <2> SUFFICES ASSUME NEW l \in 0 .. n, i <= l PROVE ends[i] <= ends[l]
    OBVIOUS
  <2>1. l - i \in Nat /\ i + (l - i) = l
    OBVIOUS
  <2>2. l - i \in Up
    BY <1>3, <2>1
  <2> QED
    BY <2>1, <2>2
<1>5. ASSUME i < j PROVE ends[i] < ends[j]
  <2>1. j \in 1 .. n /\ j - 1 \in 0 .. n /\ i <= j - 1
    BY <1>5
  <2>2. ends[j - 1] < ends[j] /\ ends[i] <= ends[j - 1]
    BY <1>4, <2>1
  <2>3. ends[i] \in Nat /\ ends[j - 1] \in Nat /\ ends[j] \in Nat
    BY <2>1
  <2> QED
    BY <2>2, <2>3
<1> QED
  BY <1>4, <1>5

-----------------------------------------------------------------------------
(* Chunker: cutting statutes                                               *)

CuttingStages == {"file", "start", "gather"}
ChunkRecords ==
  [group : DOMAIN Groups, file : Nat, id : Nat, section : Nat, from : Nat, to : Nat]

ChunkerTyped ==
  /\ root \in Roots /\ limit \in Nat /\ group \in DOMAIN Groups
  /\ task # "preview" => limit = NoChunkLimit
  /\ stage \in CuttingStages \cup {"prepare", "store", "done", "failed"}
  /\ file \in Nat /\ section \in Nat /\ produced \in Nat /\ taken \in Nat
  /\ chunks \subseteq ChunkRecords
  /\ stored \in [DOMAIN Groups -> SUBSET (ChunkRecords \cup {OldPoint})]

\* Where the loops stand.
Located ==
  /\ stage = "prepare" => group = 1 /\ file = 0 /\ chunks = {}
  /\ stage \in CuttingStages => file <= Len(Directory)
  /\ stage = "file" /\ file > 0 => section > Len(Document)
  /\ stage \in {"start", "gather"} => file > 0 /\ section \in 1 .. Len(Document)
  /\ stage = "start" => first = 1 /\ next = 1 /\ held = 0

\* Chunks are produced in the order of the text.
InOrder ==
  stage \in CuttingStages =>
    \A c \in chunks :
      /\ c.group <= group
      /\ c.group = group => c.file <= file
      /\ c.group = group /\ c.file = file =>
           c.id < produced /\ c.section <= section /\ (stage = "gather" \/ c.section < section)

OneIndexEach == \A c, d \in chunks : SameDocument(c, d) /\ c.id = d.id => c = d

Sound == \A c \in chunks : Continues(c) /\ ChunkFits(c)

\* The chunks of the article at work.
Prior == {c \in chunks : c.group = group /\ c.file = file /\ c.section = section}

\* What is gathered goes on from the last of them and makes a sound chunk.
Gathering ==
  stage = "gather" =>
    /\ first \in 1 .. next /\ next \in 1 .. Article.size + 1 /\ Article.size > 0 /\ held \in Nat
    /\ IF Prior = {} THEN first = 1
       ELSE first + 1 < next /\ \E p \in Prior : p.id = produced - 1 /\ p.to = first
    /\ first < next =>
         /\ Joined(Article, first, next - 1) <= held
         /\ \/ next = first + 1
            \/ next = first + 2 /\ Prior # {}
            \/ Joined(Article, first, next - 1) <= MAX_CHUNK_CHARS

CoveredIn(g) ==
  \A f \in DOMAIN Files(Groups[g]) : \A s \in DOMAIN Files(Groups[g])[f] :
    Passed(f, s) => \E c \in OfGroup(g) :
                      c.file = f /\ c.section = s /\ c.to = Files(Groups[g])[f][s].size

Covering ==
  /\ stage \in CuttingStages \cup {"done"} => CoveredIn(group)
  /\ stage = "store" => CoveredIn(3)

Limited ==
  limit # NoChunkLimit => taken <= limit /\ (stage \in CuttingStages => taken < limit)

Storing ==
  /\ stage = "store" => \A g \in DOMAIN Groups : g < group => OfGroup(g) \subseteq stored[g]
  /\ task = "index" /\ stage = "done" =>
       \A g \in DOMAIN Groups : OfGroup(g) \subseteq stored[g]
  /\ stage \in {"prepare", "store", "failed"} => task = "index"

ChunkerInv ==
  /\ ChunkerTyped /\ Located /\ InOrder /\ OneIndexEach /\ Sound /\ Gathering
  /\ Covering /\ Limited /\ Storing

-----------------------------------------------------------------------------
(* The texts *)

LEMMA ThreeGroups ==
  /\ Len(Groups) = 3 /\ DOMAIN Groups = {1, 2, 3} /\ DOMAIN Groups \subseteq Nat
  /\ Groups[1] = "general" /\ Groups[2] = "primal" /\ Groups[3] = "secondary"
BY DEF Groups

LEMMA FilesTyped ==
  ASSUME root \in Roots, NEW g \in DOMAIN Groups
  PROVE  Files(Groups[g]) \in Seq(Seq(Articles))
<1>1. {root.general, root.specific, root.primal, root.secondary} \subseteq Seq(Seq(Articles))
  BY ChunkerAssumption
<1>2. root.specific \o root.secondary \in Seq(Seq(Articles))
  BY <1>1
<1> QED
  BY <1>1, <1>2, ThreeGroups DEF Files

\* The document and the article at work are texts.
LEMMA TextsAtWork ==
  ASSUME ChunkerTyped, Located
  PROVE  /\ Directory \in Seq(Seq(Articles)) /\ Len(Directory) \in Nat
         /\ file \in 1 .. Len(Directory) => Document \in Seq(Articles) /\ Len(Document) \in Nat
         /\ stage \in {"start", "gather"} =>
              /\ file \in 1 .. Len(Directory) /\ section \in 1 .. Len(Document)
              /\ Article \in Articles
<1>1. Directory \in Seq(Seq(Articles)) /\ Len(Directory) \in Nat
  BY FilesTyped DEF ChunkerTyped, Directory
<1>2. file \in 1 .. Len(Directory) => Document \in Seq(Articles) /\ Len(Document) \in Nat
  BY <1>1 DEF Document
<1>3. stage \in {"start", "gather"} => file \in 1 .. Len(Directory) /\ section \in 1 .. Len(Document)
  BY <1>1 DEF ChunkerTyped, Located, CuttingStages
<1>4. stage \in {"start", "gather"} => Article \in Articles
  BY <1>2, <1>3 DEF Article
<1> QED
  BY <1>1, <1>2, <1>3, <1>4

LEMMA ArticleFacts ==
  ASSUME NEW a \in Articles
  PROVE  /\ a.size \in Nat /\ a.slack \in Nat
         /\ \A i \in 1 .. a.size : Length(a, i) \in Nat /\ Joined(a, i, i) = Length(a, i)
         /\ \A i \in 1 .. a.size + 1 : \A j \in 0 .. a.size : Joined(a, i, j) \in Int
         /\ \A i \in 1 .. a.size : \A j \in 1 .. a.size :
              Joined(a, i, j) = Joined(a, i, j - 1) + Length(a, j) + Separator
<1>1. a.size \in Nat /\ a.slack \in Nat /\ a.ends \in [0 .. a.size -> Nat]
  BY ChunkerAssumption
<1>2. \A i \in 0 .. a.size : a.ends[i] \in Nat
  BY <1>1
<1>3. \A i \in 1 .. a.size : i - 1 \in 0 .. a.size /\ i \in 0 .. a.size
  BY <1>1
<1>4. \A i \in 1 .. a.size : a.ends[i - 1] < a.ends[i]
  BY ChunkerAssumption
<1>5. \A i \in 1 .. a.size : Length(a, i) \in Nat /\ Joined(a, i, i) = Length(a, i)
  BY <1>1, <1>2, <1>3, <1>4 DEF Length, Joined, Separator
<1>6. \A i \in 1 .. a.size + 1 : i - 1 \in 0 .. a.size /\ i \in Nat
  BY <1>1
<1>7. \A i \in 1 .. a.size + 1 : \A j \in 0 .. a.size : Joined(a, i, j) \in Int
  BY <1>1, <1>2, <1>6 DEF Joined, Separator
<1>8. \A i \in 1 .. a.size : \A j \in 1 .. a.size :
        Joined(a, i, j) = Joined(a, i, j - 1) + Length(a, j) + Separator
  <2> TAKE i \in 1 .. a.size
  <2> TAKE j \in 1 .. a.size
  <2>1. i \in Nat /\ j \in Nat
    BY <1>1
  <2>2. a.ends[i - 1] \in Nat /\ a.ends[j - 1] \in Nat /\ a.ends[j] \in Nat
    BY <1>2, <1>3
  <2> QED
    BY <2>1, <2>2 DEF Joined, Length, Separator
<1> QED
  BY <1>1, <1>5, <1>7, <1>8

LEMMA InitChunker == ChunkerInit => ChunkerInv
<1> SUFFICES ASSUME ChunkerInit PROVE ChunkerInv
  OBVIOUS
<1>1. /\ root \in Roots /\ limit \in Nat /\ group \in DOMAIN Groups
      /\ task # "preview" => limit = NoChunkLimit
      /\ stage \in {"prepare", "file"} /\ (stage = "prepare" <=> task = "index")
      /\ stage = "prepare" => group = 1
      /\ file = 0 /\ section = 1 /\ produced = 0 /\ taken = 0 /\ chunks = {}
  <2>1. root \in Roots /\ ChunkLimits \subseteq Nat
    BY ChunkerAssumption DEF ChunkerInit
  <2>2. /\ file = 0 /\ section = 1 /\ produced = 0 /\ taken = 0 /\ chunks = {}
        /\ stage = IF task = "index" THEN "prepare" ELSE "file"
    BY DEF ChunkerInit
  <2>3. CASE task \in {"index", "export"} /\ limit = NoChunkLimit /\ group = 1
    BY <2>1, <2>2, <2>3, ThreeGroups DEF NoChunkLimit
  <2>4. CASE task = "preview" /\ limit \in ChunkLimits /\ group \in DOMAIN Groups
    BY <2>1, <2>2, <2>4
  <2> QED
    BY <2>3, <2>4 DEF ChunkerInit
<1>2. stored \in [DOMAIN Groups -> SUBSET (ChunkRecords \cup {OldPoint})]
  BY DEF ChunkerInit
<1>3. ChunkerTyped
  BY <1>1, <1>2 DEF ChunkerTyped, CuttingStages
<1>4. Located
  <2>1. Len(Directory) \in Nat
    BY <1>1, FilesTyped DEF Directory
  <2> QED
    BY <1>1, <2>1 DEF Located
<1>5. InOrder /\ OneIndexEach /\ Sound /\ Gathering
  BY <1>1 DEF InOrder, OneIndexEach, Sound, Gathering
<1>6. Covering
  <2>1. \A f \in DOMAIN Directory : f > file
    BY <1>1, FilesTyped DEF Directory
  <2>2. \A f \in DOMAIN Directory : f \in Nat /\ file \in Nat
    BY <1>1, FilesTyped DEF Directory
  <2> QED
    BY <1>1, <2>1, <2>2 DEF Covering, CoveredIn, Passed, Directory
<1>7. Limited /\ Storing
  BY <1>1 DEF Limited, Storing, NoChunkLimit
<1> QED
  BY <1>3, <1>4, <1>5, <1>6, <1>7 DEF ChunkerInv

-----------------------------------------------------------------------------
(* A chunk is produced *)

LEMMA ProduceKeeps ==
  ASSUME ChunkerInv, stage \in {"start", "gather"}, NEW i \in Nat, NEW j \in Nat, Produce(i, j),
         IF Prior = {} THEN i = 1 ELSE i < j /\ \E p \in Prior : p.id = produced - 1 /\ p.to = i,
         \/ j <= i
         \/ j = i + 1 /\ Prior # {}
         \/ Joined(Article, i, j) <= MAX_CHUNK_CHARS
  PROVE  /\ chunks' \subseteq ChunkRecords
         /\ chunks' = chunks \cup {Chunk(i, j)} /\ produced' = produced + 1 /\ taken' = taken + 1
         /\ UNCHANGED <<job, group, file, stored>>
         /\ OneIndexEach' /\ Sound'
<1> PICK new : new = Chunk(i, j)
  OBVIOUS
<1>1. /\ new.group = group /\ new.file = file /\ new.id = produced /\ new.section = section
      /\ new.from = i /\ new.to = j /\ new \in ChunkRecords
  BY DEF Chunk, ChunkRecords, ChunkerInv, ChunkerTyped
<1>2. /\ chunks' = chunks \cup {new} /\ produced' = produced + 1 /\ taken' = taken + 1
      /\ UNCHANGED <<job, group, file, stored>> /\ root' = root
  BY DEF Produce, job
<1>3. chunks \subseteq ChunkRecords /\ produced \in Nat
  BY DEF ChunkerInv, ChunkerTyped
<1>4. \A c \in chunks : /\ c.id \in Nat /\ (SameDocument(c, new) => c.id < produced)
                        /\ SameDocument(new, c) <=> SameDocument(c, new)
  BY <1>1, <1>3 DEF ChunkerInv, InOrder, CuttingStages, SameDocument, ChunkRecords
<1>5. OneIndexEach'
  <2>1. \A c \in chunks : SameDocument(c, new) => c.id # new.id
    BY <1>1, <1>3, <1>4
  <2>2. \A c, d \in chunks : SameDocument(c, d) /\ c.id = d.id => c = d
    BY DEF ChunkerInv, OneIndexEach
  <2> HIDE DEF SameDocument
  <2>3. \A c, d \in chunks' : SameDocument(c, d) /\ c.id = d.id => c = d
    BY <1>2, <1>4, <2>1, <2>2
  <2> QED
    BY <2>3 DEF OneIndexEach, SameDocument
<1>6. \A c \in chunks : Before(c)' = Before(c) /\ ArticleOf(c)' = ArticleOf(c)
  <2> TAKE c \in chunks
  <2>1. ~(new.id = c.id - 1 /\ SameDocument(new, c))
    BY <1>1, <1>3, <1>4
  <2> QED
    BY <1>2, <2>1 DEF Before, SameArticle, SameDocument, ArticleOf, Files
<1>7. \A c \in chunks : Continues(c)' /\ ChunkFits(c)'
  BY <1>6 DEF ChunkerInv, Sound, Continues, ChunkFits
<1>8. Before(new)' = {p \in Prior : p.id = produced - 1}
  BY <1>1, <1>2, <1>3 DEF Before, SameArticle, SameDocument, Prior
<1>9. \A p, q \in Before(new)' : p = q
  BY <1>8 DEF Prior, ChunkerInv, OneIndexEach, SameDocument
<1>10. Before(new)' = {} <=> Prior = {}
  BY <1>8
<1>11. Continues(new)'
  BY <1>1, <1>8, <1>9, <1>10 DEF Continues
<1>12. ChunkFits(new)'
  <2>1. ArticleOf(new)' = Article
    BY <1>1, <1>2 DEF ArticleOf, Article, Document, Directory, Files
  <2> QED
    BY <1>1, <1>10, <2>1 DEF ChunkFits
<1>13. Sound'
  BY <1>2, <1>7, <1>11, <1>12 DEF Sound
<1> QED
  BY <1>1, <1>2, <1>3, <1>5, <1>13

-----------------------------------------------------------------------------
(* The rounds over directories and files *)

\* What was produced is as sound as before.
LEMMA ChunksStand ==
  ASSUME ChunkerInv, UNCHANGED <<chunks, root>>
  PROVE  /\ OneIndexEach' /\ Sound' /\ chunks' \subseteq ChunkRecords
         /\ \A g : Files(g)' = Files(g) /\ OfGroup(g)' = OfGroup(g)
<1>1. chunks' = chunks /\ root' = root
  OBVIOUS
<1>2. OneIndexEach'
  BY <1>1 DEF ChunkerInv, OneIndexEach, SameDocument
<1>3. \A c : Before(c)' = Before(c) /\ ArticleOf(c)' = ArticleOf(c)
  BY <1>1 DEF Before, SameArticle, SameDocument, ArticleOf, Files
<1>4. Sound'
  BY <1>1, <1>3 DEF ChunkerInv, Sound, Continues, ChunkFits
<1>5. \A g : Files(g)' = Files(g) /\ OfGroup(g)' = OfGroup(g)
  BY <1>1 DEF Files, OfGroup
<1> QED
  BY <1>1, <1>2, <1>4, <1>5 DEF ChunkerInv, ChunkerTyped

\* Nothing of a directory was passed before its first file.
LEMMA NothingPassed ==
  ASSUME root \in Roots, file = 0, NEW g \in DOMAIN Groups
  PROVE  CoveredIn(g)
<1>1. \A f \in DOMAIN Files(Groups[g]) : f \in Nat /\ f > 0
  BY FilesTyped
<1> QED
  BY <1>1 DEF CoveredIn, Passed

LEMMA PrepareKeeps == ChunkerInv /\ Prepare => ChunkerInv'
<1> SUFFICES ASSUME ChunkerInv, Prepare PROVE ChunkerInv'
  OBVIOUS
<1>1. /\ ChunkerTyped /\ Located /\ Storing
      /\ stage = "prepare" /\ stage' = "file" /\ task = "index"
      /\ group = 1 /\ file = 0 /\ chunks = {} /\ limit = NoChunkLimit
      /\ UNCHANGED <<task, root, limit, group, file, section, first, next, held, chunks,
                    produced, taken>>
  BY DEF Prepare, ChunkerInv, Located, Storing, ChunkerTyped, job, place, output
<1>2. stored' \in [DOMAIN Groups -> SUBSET (ChunkRecords \cup {OldPoint})]
  BY DEF Prepare, ChunkerInv, ChunkerTyped
<1>3. OneIndexEach' /\ Sound' /\ chunks' \subseteq ChunkRecords
  BY <1>1, ChunksStand
<1>4. ChunkerTyped'
  BY <1>1, <1>2, <1>3 DEF ChunkerTyped, CuttingStages
<1>5. Located'
  <2>1. Directory' = Directory /\ Len(Directory) \in Nat
    BY <1>1, TextsAtWork DEF Directory, Files
  <2> QED
    BY <1>1, <2>1 DEF Located
<1>6. InOrder' /\ Gathering' /\ Limited' /\ Storing'
  BY <1>1 DEF InOrder, Gathering, Limited, Storing
<1>7. Covering'
  <2>1. CoveredIn(1)
    BY <1>1, NothingPassed, ThreeGroups DEF ChunkerTyped
  <2>2. CoveredIn(1)'
    BY <1>1, <2>1 DEF CoveredIn, Files, OfGroup, Passed
  <2> QED
    BY <1>1, <2>2 DEF Covering
<1> QED
  BY <1>3, <1>4, <1>5, <1>6, <1>7 DEF ChunkerInv

LEMMA NextFileKeeps == ChunkerInv /\ NextFile => ChunkerInv'
<1> SUFFICES ASSUME ChunkerInv, NextFile PROVE ChunkerInv'
  OBVIOUS
<1>1. /\ ChunkerTyped /\ Located /\ InOrder /\ Covering /\ Limited /\ Storing
      /\ stage = "file" /\ file < Len(Directory) /\ file' = file + 1
      /\ section' = 1 /\ first' = 1 /\ next' = 1 /\ held' = 0 /\ produced' = 0
      /\ stage' = IF Directory[file + 1] = << >> THEN "file" ELSE "start"
      /\ UNCHANGED <<task, root, limit, group, chunks, taken, stored>>
  BY DEF NextFile, ChunkerInv, job
<1>2. OneIndexEach' /\ Sound' /\ chunks' \subseteq ChunkRecords
  BY <1>1, ChunksStand
<1>3. /\ Directory \in Seq(Seq(Articles)) /\ Len(Directory) \in Nat /\ Directory' = Directory
      /\ file \in Nat /\ file + 1 \in 1 .. Len(Directory)
      /\ stage' \in {"file", "start"} /\ group \in Nat /\ group \in DOMAIN Groups
  <2>1. Directory \in Seq(Seq(Articles)) /\ Len(Directory) \in Nat
    BY <1>1, TextsAtWork
  <2>2. Directory' = Directory
    BY <1>1 DEF Directory, Files
  <2>3. file \in Nat /\ group \in DOMAIN Groups /\ group \in Nat
    BY <1>1, ThreeGroups DEF ChunkerTyped
  <2> QED
    BY <1>1, <2>1, <2>2, <2>3
<1>4. ChunkerTyped'
  BY <1>1, <1>2, <1>3 DEF ChunkerTyped, CuttingStages
<1>5. Located'
  <2>1. Document' = Directory[file + 1] /\ Document' \in Seq(Articles)
    BY <1>1, <1>3 DEF Document
  <2>2. stage' = "file" => Len(Document') = 0
    BY <1>1, <2>1
  <2>3. stage' = "start" => Len(Document') \in Nat /\ Len(Document') > 0
    BY <1>1, <2>1
  <2> QED
    BY <1>1, <1>3, <2>2, <2>3 DEF Located
<1>6. InOrder'
  <2>1. \A c \in chunks : c.group <= group /\ (c.group = group => c.file < file + 1) /\ c.file \in Nat
    BY <1>1, <1>3 DEF InOrder, CuttingStages, ChunkerTyped, ChunkRecords
  <2> QED
    BY <1>1, <1>3, <2>1 DEF InOrder
<1>7. Gathering' /\ Limited' /\ Storing'
  BY <1>1, <1>3 DEF Gathering, Limited, Storing, CuttingStages
<1>8. Covering'
  <2>1. \A f \in DOMAIN Directory : f \in Nat /\ f > 0 /\ Directory[f] \in Seq(Articles)
    BY <1>3
  <2>2. \A f \in DOMAIN Directory : \A s \in DOMAIN Directory[f] :
          s \in Nat /\ s > 0 /\ s <= Len(Directory[f])
    BY <2>1
  <2>3. file > 0 => section > Len(Directory[file]) /\ section \in Nat
    BY <1>1 DEF Located, Document, ChunkerTyped
  <2>4. \A f \in DOMAIN Directory : \A s \in DOMAIN Directory[f] : Passed(f, s)' => Passed(f, s)
    <3> SUFFICES ASSUME NEW f \in DOMAIN Directory, NEW s \in DOMAIN Directory[f], Passed(f, s)'
                 PROVE  Passed(f, s)
      OBVIOUS
    <3>1. f < file + 1 /\ f \in Nat /\ f > 0
      BY <1>1, <1>3, <2>1, <2>2 DEF Passed
    <3>2. CASE f < file
      BY <3>2 DEF Passed
    <3>3. CASE f = file
      <4>1. s <= Len(Directory[file]) /\ section > Len(Directory[file]) /\ s \in Nat /\ section \in Nat
        BY <2>2, <2>3, <3>1, <3>3
      <4>2. Len(Directory[file]) \in Nat
        BY <2>1, <3>3
      <4> QED
        BY <3>3, <4>1, <4>2 DEF Passed
    <3> QED
      BY <1>3, <3>1, <3>2, <3>3
  <2>5. CoveredIn(group)
    BY <1>1 DEF Covering, CuttingStages
  <2>6. Files(Groups[group])' = Directory /\ OfGroup(group)' = OfGroup(group)
    BY <1>1, <1>3 DEF Files, OfGroup, Directory
  <2>7. \A f \in DOMAIN Directory : \A s \in DOMAIN Directory[f] :
          Passed(f, s)' => \E c \in OfGroup(group) :
                             c.file = f /\ c.section = s /\ c.to = Directory[f][s].size
    BY <2>4, <2>5 DEF CoveredIn, Directory
  <2>8. CoveredIn(group)'
    BY <2>6, <2>7 DEF CoveredIn
  <2> QED
    BY <1>3, <2>8 DEF Covering
<1> QED
  BY <1>2, <1>4, <1>5, <1>6, <1>7, <1>8 DEF ChunkerInv

LEMMA NextDirectoryKeeps == ChunkerInv /\ NextDirectory => ChunkerInv'
<1> SUFFICES ASSUME ChunkerInv, NextDirectory PROVE ChunkerInv'
  OBVIOUS
<1>1. /\ ChunkerTyped /\ Located /\ InOrder /\ Limited /\ Storing
      /\ stage = "file" /\ task # "preview" /\ group < Len(Groups)
      /\ group' = group + 1 /\ file' = 0 /\ taken' = 0
      /\ UNCHANGED <<task, root, limit, section, first, next, held, chunks, produced, stage, stored>>
  BY DEF NextDirectory, ChunkerInv, job, place
<1>2. OneIndexEach' /\ Sound' /\ chunks' \subseteq ChunkRecords
  BY <1>1, ChunksStand
<1>3. group \in Nat /\ group' \in DOMAIN Groups /\ limit = NoChunkLimit
  BY <1>1, ThreeGroups DEF ChunkerTyped
<1>4. ChunkerTyped'
  BY <1>1, <1>2, <1>3 DEF ChunkerTyped
<1>5. Located'
  <2>1. Len(Directory)' \in Nat
    <3>1. Files(Groups[group']) \in Seq(Seq(Articles))
      BY <1>1, <1>3, FilesTyped DEF ChunkerTyped
    <3>2. Directory' = Files(Groups[group'])
      BY <1>1 DEF Directory, Files
    <3> QED
      BY <3>1, <3>2
  <2> QED
    BY <1>1, <2>1 DEF Located
<1>6. InOrder'
  <2>1. \A c \in chunks : c.group <= group /\ c.group \in Nat
    BY <1>1, ThreeGroups DEF InOrder, CuttingStages, ChunkerTyped, ChunkRecords
  <2>2. \A c \in chunks : c.group <= group + 1 /\ c.group # group + 1
    BY <1>3, <2>1
  <2> QED
    BY <1>1, <2>2 DEF InOrder
<1>7. Gathering' /\ Limited' /\ Storing'
  BY <1>1, <1>3 DEF Gathering, Limited, Storing
<1>8. Covering'
  <2>1. \A f \in DOMAIN Files(Groups[group']) : f \in Nat /\ f > 0
    BY <1>1, <1>3, FilesTyped DEF ChunkerTyped
  <2>2. Files(Groups[group])' = Files(Groups[group'])
    BY <1>1 DEF Files
  <2>3. CoveredIn(group)'
    BY <1>1, <2>1, <2>2 DEF CoveredIn, Passed
  <2> QED
    BY <1>1, <2>3 DEF Covering
<1> QED
  BY <1>2, <1>4, <1>5, <1>6, <1>7, <1>8 DEF ChunkerInv

\* What was passed stays covered when nothing is produced.
LEMMA CoverStands ==
  ASSUME UNCHANGED <<root, file, section, chunks>>, NEW g, CoveredIn(g)
  PROVE  CoveredIn(g)'
<1>1. Files(Groups[g])' = Files(Groups[g]) /\ OfGroup(g)' = OfGroup(g)
  BY DEF Files, OfGroup
<1>2. \A f, s : Passed(f, s)' <=> Passed(f, s)
  BY DEF Passed
<1> QED
  BY <1>1, <1>2 DEF CoveredIn

LEMMA LastDirectoryKeeps == ChunkerInv /\ LastDirectory => ChunkerInv'
<1> SUFFICES ASSUME ChunkerInv, LastDirectory PROVE ChunkerInv'
  OBVIOUS
<1>1. /\ ChunkerTyped /\ Located /\ InOrder /\ Limited /\ Storing /\ Covering
      /\ stage = "file" /\ (task = "preview" \/ group = Len(Groups))
      /\ stage' = IF task = "index" THEN "store" ELSE "done"
      /\ group' = IF task = "index" THEN 1 ELSE group
      /\ UNCHANGED <<task, root, limit, file, section, first, next, held, chunks, produced,
                    taken, stored>>
  BY DEF LastDirectory, ChunkerInv, job, place, output
<1>2. OneIndexEach' /\ Sound' /\ chunks' \subseteq ChunkRecords
  BY <1>1, ChunksStand
<1>3. group' \in DOMAIN Groups /\ stage' \in {"store", "done"} /\ (stage' = "store" <=> task = "index")
  BY <1>1, ThreeGroups DEF ChunkerTyped
<1>4. ChunkerTyped'
  BY <1>1, <1>2, <1>3 DEF ChunkerTyped
<1>5. Located' /\ InOrder' /\ Gathering' /\ Limited'
  BY <1>1, <1>3 DEF Located, InOrder, Gathering, Limited, CuttingStages
<1>6. Storing'
  <2>1. stage' = "store" => \A g \in DOMAIN Groups : ~(g < group')
    BY <1>1, <1>3, ThreeGroups
  <2> QED
    BY <1>1, <1>3, <2>1 DEF Storing
<1>7. Covering'
  <2>1. CoveredIn(group)
    BY <1>1 DEF Covering, CuttingStages
  <2>2. CASE task = "index"
    <3>1. group = 3
      BY <1>1, <2>2, ThreeGroups
    <3>2. CoveredIn(3)'
      BY <1>1, <2>1, <3>1, CoverStands
    <3> QED
      BY <1>1, <2>2, <3>2 DEF Covering, CuttingStages
  <2>3. CASE task # "index"
    <3>1. \A g : CoveredIn(g) => CoveredIn(g)'
      BY <1>1, CoverStands
    <3>2. PICK g : g = group
      OBVIOUS
    <3>3. CoveredIn(g)' /\ group' = g
      BY <1>1, <2>1, <2>3, <3>1, <3>2
    <3>4. CoveredIn(group)'
      BY <3>3 DEF CoveredIn, OfGroup
    <3> QED
      BY <1>3, <2>3, <3>4 DEF Covering
  <2> QED
    BY <2>2, <2>3
<1> QED
  BY <1>2, <1>4, <1>5, <1>6, <1>7 DEF ChunkerInv

LEMMA StoreKeeps == ChunkerInv /\ (Store \/ StoreFails) => ChunkerInv'
<1> SUFFICES ASSUME ChunkerInv, Store \/ StoreFails PROVE ChunkerInv'
  OBVIOUS
<1>1. /\ ChunkerTyped /\ Located /\ InOrder /\ Limited /\ Storing /\ Covering
      /\ stage = "store" /\ task = "index" /\ limit = NoChunkLimit
      /\ UNCHANGED <<task, root, limit, file, section, first, next, held, chunks, produced, taken>>
  BY DEF Store, StoreFails, ChunkerInv, job, place, output, Storing, ChunkerTyped
<1>2. OneIndexEach' /\ Sound' /\ chunks' \subseteq ChunkRecords
  BY <1>1, ChunksStand
<1>3. group \in DOMAIN Groups /\ OfGroup(group) \subseteq ChunkRecords
  BY <1>1 DEF ChunkerTyped, OfGroup
<1>4. \A g : OfGroup(g)' = OfGroup(g)
  BY <1>1 DEF OfGroup
<1>5. CASE StoreFails
  <2>1. PICK batches \in SUBSET OfGroup(group) : stored' = [stored EXCEPT ![group] = @ \cup batches]
    BY <1>5 DEF StoreFails
  <2>2. stored' \in [DOMAIN Groups -> SUBSET (ChunkRecords \cup {OldPoint})]
    <3>1. batches \subseteq ChunkRecords
      BY <1>3
    <3> QED
      BY <1>1, <1>3, <2>1, <3>1 DEF ChunkerTyped
  <2>3. stage' = "failed" /\ group' = group
    BY <1>5 DEF StoreFails
  <2>4. ChunkerTyped'
    BY <1>1, <1>2, <2>2, <2>3 DEF ChunkerTyped
  <2>5. Located' /\ InOrder' /\ Gathering' /\ Limited' /\ Storing' /\ Covering'
    BY <1>1, <2>3 DEF Located, InOrder, Gathering, Limited, Storing, Covering, CuttingStages
  <2> QED
    BY <1>2, <2>4, <2>5 DEF ChunkerInv
<1>6. CASE Store
  <2>1. /\ stored' = [stored EXCEPT ![group] = @ \cup OfGroup(group)]
        /\ group' = IF group < 3 THEN group + 1 ELSE group
        /\ stage' = IF group < 3 THEN "store" ELSE "done"
    BY <1>6, ThreeGroups DEF Store
  <2>2. stored' \in [DOMAIN Groups -> SUBSET (ChunkRecords \cup {OldPoint})]
    BY <1>1, <1>3, <2>1 DEF ChunkerTyped
  <2>3. group' \in DOMAIN Groups /\ stage' \in {"store", "done"}
    BY <1>3, <2>1, ThreeGroups
  <2>4. ChunkerTyped'
    BY <1>1, <1>2, <2>2, <2>3 DEF ChunkerTyped
  <2>5. Located' /\ InOrder' /\ Gathering' /\ Limited'
    BY <1>1, <2>3 DEF Located, InOrder, Gathering, Limited, CuttingStages
  <2>6. Covering'
    <3>1. CoveredIn(3)'
      BY <1>1, CoverStands DEF Covering
    <3>2. group = 3 \/ group < 3
      BY <1>3, ThreeGroups
    <3>3. CASE group < 3
      BY <2>1, <3>1, <3>3 DEF Covering, CuttingStages
    <3>4. CASE group = 3
      <4>1. group' = 3 /\ stage' = "done"
        BY <2>1, <3>4
      <4>2. CoveredIn(group)'
        BY <3>1, <4>1 DEF CoveredIn, OfGroup
      <4> QED
        BY <4>1, <4>2 DEF Covering
    <3> QED
      BY <3>2, <3>3, <3>4
  <2>7. Storing'
    <3>1. \A g \in DOMAIN Groups : g < group \/ g = group => OfGroup(g) \subseteq stored'[g]
      BY <1>1, <1>3, <2>1 DEF Storing, ChunkerTyped
    <3>2. \A g \in DOMAIN Groups : (stage' = "store" /\ g < group') \/ stage' = "done" =>
            g < group \/ g = group
      BY <1>3, <2>1, ThreeGroups
    <3> QED
      BY <1>1, <1>4, <2>3, <3>1, <3>2 DEF Storing
  <2> QED
    BY <1>2, <2>4, <2>5, <2>6, <2>7 DEF ChunkerInv
<1> QED
  BY <1>5, <1>6

-----------------------------------------------------------------------------
(* The rounds over articles and paragraphs *)

LEMMA LongArticleKeeps == ChunkerInv /\ LongArticle => ChunkerInv'
<1> SUFFICES ASSUME ChunkerInv, LongArticle PROVE ChunkerInv'
  OBVIOUS
<1>1. /\ ChunkerTyped /\ Located /\ InOrder /\ Limited /\ Storing /\ Covering
      /\ stage = "start" /\ stage' = "gather" /\ ~Short(Article)
      /\ first = 1 /\ next = 1 /\ held = 0
      /\ UNCHANGED <<task, root, limit, group, file, section, first, next, held, chunks,
                    produced, taken, stored>>
  BY DEF LongArticle, ChunkerInv, job, place, output, Located
<1>2. OneIndexEach' /\ Sound' /\ chunks' \subseteq ChunkRecords
  BY <1>1, ChunksStand
<1>3. ChunkerTyped'
  BY <1>1, <1>2 DEF ChunkerTyped, CuttingStages
<1>4. Directory' = Directory /\ Document' = Document /\ Article' = Article /\ Prior' = Prior
  BY <1>1 DEF Directory, Document, Article, Files, Prior
<1>5. Located'
  BY <1>1, <1>4 DEF Located, CuttingStages
<1>6. InOrder' /\ Limited' /\ Storing'
  BY <1>1 DEF InOrder, Limited, Storing, CuttingStages
<1>7. Gathering'
  <2>1. Prior = {}
    BY <1>1 DEF Prior, InOrder, CuttingStages, ChunkerTyped
  <2>2. Article.size \in Nat /\ Article.size # 0
    BY <1>1, TextsAtWork, ArticleFacts DEF Short
  <2> QED
    BY <1>1, <1>4, <2>1, <2>2 DEF Gathering
<1>8. Covering'
  <2>1. CoveredIn(group)' <=> CoveredIn(group)
    BY <1>1 DEF CoveredIn, Files, OfGroup, Passed
  <2> QED
    BY <1>1, <2>1 DEF Covering, CuttingStages
<1> QED
  BY <1>2, <1>3, <1>5, <1>6, <1>7, <1>8 DEF ChunkerInv

LEMMA GatherParagraphKeeps == ChunkerInv /\ Gather => ChunkerInv'
<1> SUFFICES ASSUME ChunkerInv, Gather PROVE ChunkerInv'
  OBVIOUS
<1>1. /\ ChunkerTyped /\ Located /\ InOrder /\ Limited /\ Storing /\ Covering /\ Gathering
      /\ stage = "gather" /\ stage' = "gather" /\ next <= Article.size
      /\ held' = held + Length(Article, next) + Separator /\ next' = next + 1
      /\ UNCHANGED <<task, root, limit, group, file, section, first, chunks,
                    produced, taken, stored>>
  BY DEF Gather, ChunkerInv, job, output
<1>2. OneIndexEach' /\ Sound' /\ chunks' \subseteq ChunkRecords
  BY <1>1, ChunksStand
<1>3. ChunkerTyped'
  BY <1>1, <1>2 DEF ChunkerTyped, CuttingStages
<1>4. Directory' = Directory /\ Document' = Document /\ Article' = Article /\ Prior' = Prior
  BY <1>1 DEF Directory, Document, Article, Files, Prior
<1>5. Located'
  BY <1>1, <1>4 DEF Located, CuttingStages
<1>6. InOrder' /\ Limited' /\ Storing'
  BY <1>1 DEF InOrder, Limited, Storing, CuttingStages
<1>7. Gathering'
  <2> PICK a \in Articles : a = Article
    BY <1>1, TextsAtWork
  <2>1. /\ a.size \in Nat /\ a.size > 0 /\ first \in Nat /\ next \in Nat /\ held \in Nat
        /\ 1 <= first /\ first <= next /\ next <= a.size /\ MAX_CHUNK_CHARS \in Nat
    BY <1>1, ArticleFacts, ChunkerAssumption DEF Gathering
  <2>2. /\ next \in 1 .. a.size /\ first \in 1 .. a.size
        /\ next - 1 \in 0 .. a.size /\ first \in 1 .. a.size + 1
    BY <2>1
  <2>3. /\ Length(a, next) \in Nat /\ Joined(a, first, next - 1) \in Int
        /\ Joined(a, next, next) = Length(a, next)
        /\ Joined(a, first, next) = Joined(a, first, next - 1) + Length(a, next) + Separator
    BY <2>2, ArticleFacts
  <2>4. held' \in Nat /\ next' \in 1 .. a.size + 1 /\ first' \in 1 .. next' /\ next' - 1 = next
    BY <1>1, <2>1, <2>3 DEF Separator
  <2>5. IF Prior = {} THEN first = 1
        ELSE first + 1 < next' /\ \E p \in Prior : p.id = produced - 1 /\ p.to = first
    BY <1>1, <2>1 DEF Gathering
  <2>6. /\ Joined(a, first, next) <= held'
        /\ next' = first + 1 \/ Joined(a, first, next) <= MAX_CHUNK_CHARS
    <3>1. CASE first = next
      BY <1>1, <2>1, <2>3, <3>1 DEF Separator
    <3>2. CASE first < next
      <4>1. Joined(a, first, next - 1) <= held
        BY <1>1, <3>2 DEF Gathering
      <4>2. held + Length(a, next) + Separator <= MAX_CHUNK_CHARS
        <5>1. ~(held + Length(a, next) + Separator > MAX_CHUNK_CHARS)
          BY <3>2 DEF Gather, Overflows
        <5> QED
          BY <5>1, <2>1, <2>3 DEF Separator
      <4> QED
        BY <1>1, <2>1, <2>3, <4>1, <4>2 DEF Separator
    <3> QED
      BY <2>1, <3>1, <3>2
  <2> QED
    BY <1>1, <1>4, <2>1, <2>4, <2>5, <2>6 DEF Gathering
<1>8. Covering'
  <2>1. CoveredIn(group)' <=> CoveredIn(group)
    BY <1>1 DEF CoveredIn, Files, OfGroup, Passed
  <2> QED
    BY <1>1, <2>1 DEF Covering, CuttingStages
<1> QED
  BY <1>2, <1>3, <1>5, <1>6, <1>7, <1>8 DEF ChunkerInv

\* What a chunk more does to the bounds and to what is stored.
LEMMA ProduceBounds ==
  ASSUME ChunkerInv, stage \in {"start", "gather"}, NEW i \in Nat, NEW j \in Nat, Produce(i, j),
         LimitReached => stage' = "done", stage' \in CuttingStages \cup {"done"},
         stage' = "done" => LimitReached
  PROVE  Limited' /\ Storing'
<1>1. /\ taken' = taken + 1 /\ UNCHANGED <<task, root, limit>> /\ taken \in Nat /\ limit \in Nat
      /\ limit # NoChunkLimit => taken < limit
      /\ task # "preview" => limit = NoChunkLimit
  BY DEF Produce, job, ChunkerInv, ChunkerTyped, Limited, CuttingStages
<1>2. Limited'
  <2>1. limit # NoChunkLimit => taken' <= limit
    BY <1>1
  <2>2. limit # NoChunkLimit /\ stage' \in CuttingStages => taken' < limit
    BY <1>1 DEF LimitReached, CuttingStages
  <2> QED
    BY <1>1, <2>1, <2>2 DEF Limited
<1>3. Storing'
  BY <1>1 DEF Storing, LimitReached, CuttingStages
<1> QED
  BY <1>2, <1>3

LEMMA FlushKeeps == ChunkerInv /\ Flush => ChunkerInv'
<1> SUFFICES ASSUME ChunkerInv, Flush PROVE ChunkerInv'
  OBVIOUS
<1>1. /\ ChunkerTyped /\ Located /\ InOrder /\ Limited /\ Storing /\ Covering /\ Gathering
      /\ stage = "gather" /\ stage' = IF LimitReached THEN "done" ELSE "gather"
      /\ next <= Article.size /\ first < next /\ Produce(first, next - 1)
      /\ first' = next - 1 /\ next' = next + 1 /\ section' = section
      /\ held' = Length(Article, next - 1) + Length(Article, next) + Separator
      /\ UNCHANGED <<task, root, limit, group, file, stored>>
  BY DEF Flush, ChunkerInv, job, Produce, Overflows
<1> PICK a \in Articles : a = Article
  BY <1>1, TextsAtWork
<1>2. /\ a.size \in Nat /\ a.size > 0 /\ first \in Nat /\ next \in Nat /\ held \in Nat
      /\ 1 <= first /\ first < next /\ next <= a.size /\ MAX_CHUNK_CHARS \in Nat /\ next - 1 \in Nat
  BY <1>1, ArticleFacts, ChunkerAssumption DEF Gathering
<1>3. /\ chunks' \subseteq ChunkRecords /\ chunks' = chunks \cup {Chunk(first, next - 1)}
      /\ produced' = produced + 1 /\ taken' = taken + 1 /\ OneIndexEach' /\ Sound'
  <2>1. IF Prior = {} THEN first = 1
        ELSE first < next - 1 /\ \E p \in Prior : p.id = produced - 1 /\ p.to = first
    BY <1>1, <1>2 DEF Gathering
  <2>2. \/ next - 1 <= first
        \/ next - 1 = first + 1 /\ Prior # {}
        \/ Joined(Article, first, next - 1) <= MAX_CHUNK_CHARS
    BY <1>1, <1>2 DEF Gathering
  <2> QED
    BY <1>1, <1>2, <2>1, <2>2, ProduceKeeps
<1> PICK new : new = Chunk(first, next - 1)
  OBVIOUS
<1>4. /\ new.group = group /\ new.file = file /\ new.id = produced /\ new.section = section
      /\ new.to = next - 1 /\ new \in chunks' /\ chunks' = chunks \cup {new}
      /\ produced \in Nat /\ section \in Nat
  BY <1>1, <1>3 DEF Chunk, ChunkerTyped
<1>5. stage' \in {"gather", "done"}
  BY <1>1
<1>6. ChunkerTyped'
  BY <1>1, <1>3, <1>5 DEF ChunkerTyped, CuttingStages
<1>7. Directory' = Directory /\ Document' = Document /\ Article' = Article
  BY <1>1 DEF Directory, Document, Article, Files
<1>8. Located'
  BY <1>1, <1>5, <1>7 DEF Located, CuttingStages
<1>9. InOrder'
  <2>1. \A c \in chunks :
          /\ c.group <= group
          /\ c.group = group => c.file <= file
          /\ c.group = group /\ c.file = file => c.id < produced + 1 /\ c.section <= section
    BY <1>1, <1>4 DEF InOrder, CuttingStages, ChunkerTyped, ChunkRecords
  <2>2. group <= group /\ file <= file /\ produced < produced + 1 /\ section <= section
    BY <1>1, <1>4, ThreeGroups DEF ChunkerTyped
  <2> QED
    BY <1>1, <1>3, <1>4, <1>5, <2>1, <2>2 DEF InOrder, CuttingStages
<1>10. Limited' /\ Storing'
  BY <1>1, <1>2, <1>5, ProduceBounds DEF CuttingStages
<1>11. Gathering'
  <2>1. new \in Prior' /\ new.id = produced' - 1 /\ new.to = first'
    BY <1>1, <1>3, <1>4 DEF Prior
  <2>2. next - 1 \in 1 .. a.size /\ next \in 1 .. a.size
    BY <1>2
  <2>3. /\ Length(a, next - 1) \in Nat /\ Length(a, next) \in Nat
        /\ Joined(a, next - 1, next - 1) = Length(a, next - 1)
        /\ Joined(a, next - 1, next) = Joined(a, next - 1, next - 1) + Length(a, next) + Separator
    BY <2>2, ArticleFacts
  <2>4. held' \in Nat /\ Joined(a, next - 1, next) <= held'
    BY <1>1, <2>3 DEF Separator
  <2>5. /\ next' \in 1 .. a.size + 1 /\ first' \in 1 .. next' /\ next' - 1 = next
        /\ first' + 1 < next' /\ next' = first' + 2
    BY <1>1, <1>2
  <2> QED
    BY <1>1, <1>2, <1>7, <2>1, <2>4, <2>5 DEF Gathering
<1>12. Covering'
  <2>1. CoveredIn(group)
    BY <1>1 DEF Covering, CuttingStages
  <2>2. Files(Groups[group])' = Files(Groups[group]) /\ OfGroup(group) \subseteq OfGroup(group)'
    BY <1>1, <1>4 DEF Files, OfGroup
  <2>3. \A f, s : Passed(f, s)' <=> Passed(f, s)
    BY <1>1 DEF Passed
  <2>4. CoveredIn(group)'
    BY <1>1, <2>1, <2>2, <2>3 DEF CoveredIn
  <2> QED
    BY <1>5, <2>4 DEF Covering
<1> QED
  BY <1>3, <1>6, <1>8, <1>9, <1>10, <1>11, <1>12 DEF ChunkerInv

\* The last chunk of an article, or the only one.
LEMMA LeaveKeeps ==
  ASSUME ChunkerInv, stage \in {"start", "gather"}, NEW i \in Nat, Produce(i, Article.size), Leave,
         IF Prior = {} THEN i = 1
         ELSE i < Article.size /\ \E p \in Prior : p.id = produced - 1 /\ p.to = i,
         \/ Article.size <= i
         \/ Article.size = i + 1 /\ Prior # {}
         \/ Joined(Article, i, Article.size) <= MAX_CHUNK_CHARS
  PROVE  ChunkerInv'
<1>1. /\ ChunkerTyped /\ Located /\ InOrder /\ Limited /\ Storing /\ Covering
      /\ section' = section + 1 /\ first' = 1 /\ next' = 1 /\ held' = 0
      /\ stage' = IF LimitReached THEN "done"
                  ELSE IF section < Len(Document) THEN "start" ELSE "file"
      /\ UNCHANGED <<task, root, limit, group, file, stored>>
  BY DEF ChunkerInv, job, Produce, Leave
<1> PICK a \in Articles : a = Article
  BY <1>1, TextsAtWork
<1>2. Article.size \in Nat
  BY ArticleFacts
<1>3. /\ chunks' \subseteq ChunkRecords /\ chunks' = chunks \cup {Chunk(i, Article.size)}
      /\ produced' = produced + 1 /\ taken' = taken + 1 /\ OneIndexEach' /\ Sound'
  BY <1>2, ProduceKeeps
<1> PICK new : new = Chunk(i, Article.size)
  OBVIOUS
<1>4. /\ new.group = group /\ new.file = file /\ new.id = produced /\ new.section = section
      /\ new.to = Article.size /\ chunks' = chunks \cup {new}
      /\ produced \in Nat /\ section \in Nat /\ file \in Nat /\ group \in Nat
  BY <1>1, <1>3, ThreeGroups DEF Chunk, ChunkerTyped
<1>5. /\ stage' \in {"start", "file", "done"}
      /\ file \in 1 .. Len(Directory) /\ section \in 1 .. Len(Document) /\ Len(Document) \in Nat
      /\ Len(Directory) \in Nat
  BY <1>1, TextsAtWork
<1>6. ChunkerTyped'
  BY <1>1, <1>3, <1>4, <1>5 DEF ChunkerTyped, CuttingStages
<1>7. Directory' = Directory /\ Document' = Document
  BY <1>1 DEF Directory, Document, Files
<1>8. Located'
  <2>1. stage' = "start" => section' \in 1 .. Len(Document)
    BY <1>1, <1>4, <1>5
  <2>2. stage' = "file" => section' > Len(Document)
    BY <1>1, <1>4, <1>5
  <2> QED
    BY <1>1, <1>4, <1>5, <1>7, <2>1, <2>2 DEF Located
<1>9. InOrder'
  <2>1. \A c \in chunks :
          /\ c.group <= group
          /\ c.group = group => c.file <= file
          /\ c.group = group /\ c.file = file => c.id < produced + 1 /\ c.section < section + 1
    BY <1>1, <1>4 DEF InOrder, CuttingStages, ChunkerTyped, ChunkRecords
  <2>2. \A c \in chunks' :
          /\ c.group <= group
          /\ c.group = group => c.file <= file
          /\ c.group = group /\ c.file = file => c.id < produced + 1 /\ c.section < section + 1
    BY <1>4, <2>1
  <2>3. \A c \in chunks' : c.section < section + 1 => c.section <= section + 1
    BY <1>3, <1>4 DEF ChunkRecords
  <2> QED
    BY <1>1, <1>3, <2>2, <2>3 DEF InOrder
<1>10. Limited' /\ Storing'
  BY <1>1, <1>2, <1>5, ProduceBounds DEF CuttingStages
<1>11. Gathering'
  BY <1>5 DEF Gathering
<1>12. Covering'
  <2>1. CoveredIn(group)
    BY <1>1 DEF Covering, CuttingStages
  <2>2. Files(Groups[group])' = Files(Groups[group]) /\ OfGroup(group)' = OfGroup(group) \cup {new}
    BY <1>1, <1>4 DEF Files, OfGroup
  <2>3. \A f \in DOMAIN Directory : \A s \in DOMAIN Directory[f] : f \in Nat /\ s \in Nat
    BY <1>1, TextsAtWork
  <2>4. \A f \in DOMAIN Directory : \A s \in DOMAIN Directory[f] :
          Passed(f, s)' => Passed(f, s) \/ (f = file /\ s = section)
    BY <1>1, <1>4, <2>3 DEF Passed
  <2>5. Article = Files(Groups[group])[file][section]
    BY DEF Article, Document, Directory
  <2>6. \A f \in DOMAIN Files(Groups[group]) : \A s \in DOMAIN Files(Groups[group])[f] :
          Passed(f, s)' => \E c \in OfGroup(group) \cup {new} :
                      c.file = f /\ c.section = s /\ c.to = Files(Groups[group])[f][s].size
    BY <1>4, <2>1, <2>4, <2>5 DEF CoveredIn, Directory
  <2>7. CoveredIn(group)'
    BY <1>1, <2>2, <2>6 DEF CoveredIn
  <2> QED
    BY <1>5, <2>7 DEF Covering
<1> QED
  BY <1>3, <1>6, <1>8, <1>9, <1>10, <1>11, <1>12 DEF ChunkerInv

LEMMA WholeArticleKeeps == ChunkerInv /\ WholeArticle => ChunkerInv'
<1> SUFFICES ASSUME ChunkerInv, WholeArticle PROVE ChunkerInv'
  OBVIOUS
<1>1. stage = "start" /\ Short(Article) /\ Produce(1, Article.size) /\ Leave
  BY DEF WholeArticle
<1>2. Prior = {}
  BY <1>1 DEF Prior, ChunkerInv, InOrder, CuttingStages, ChunkerTyped
<1> PICK a \in Articles : a = Article
  BY <1>1, TextsAtWork DEF ChunkerInv
<1>3. a.size \in Nat /\ a.slack \in Nat /\ (a.size > 0 => Joined(a, 1, a.size) \in Int)
  BY ArticleFacts
<1>4. a.size <= 1 \/ Joined(a, 1, a.size) <= MAX_CHUNK_CHARS
  BY <1>1, <1>3, ChunkerAssumption DEF Short
<1> QED
  BY <1>1, <1>2, <1>3, <1>4, LeaveKeeps

LEMMA LastOfArticleKeeps == ChunkerInv /\ LastOfArticle => ChunkerInv'
<1> SUFFICES ASSUME ChunkerInv, LastOfArticle PROVE ChunkerInv'
  OBVIOUS
<1>1. stage = "gather" /\ next > Article.size /\ Produce(first, Article.size) /\ Leave /\ Gathering
  BY DEF LastOfArticle, ChunkerInv
<1> PICK a \in Articles : a = Article
  BY <1>1, TextsAtWork DEF ChunkerInv
<1>2. /\ a.size \in Nat /\ a.size > 0 /\ first \in Nat /\ next = a.size + 1 /\ first <= next
      /\ next - 1 = a.size
  <2>1. /\ first \in 1 .. next /\ next \in 1 .. a.size + 1 /\ a.size > 0 /\ next > a.size
        /\ a.size \in Nat
    BY <1>1, ArticleFacts DEF Gathering
  <2>2. next = a.size + 1
    BY <2>1
  <2> QED
    BY <2>1, <2>2
<1>3. IF Prior = {} THEN first = 1
      ELSE first < a.size /\ \E p \in Prior : p.id = produced - 1 /\ p.to = first
  BY <1>1, <1>2 DEF Gathering
<1>4. first < next
  BY <1>2, <1>3
<1>5. \/ a.size <= first
      \/ a.size = first + 1 /\ Prior # {}
      \/ Joined(a, first, a.size) <= MAX_CHUNK_CHARS
  BY <1>1, <1>2, <1>4 DEF Gathering
<1> QED
  BY <1>1, <1>2, <1>3, <1>5, LeaveKeeps

-----------------------------------------------------------------------------

LEMMA NextChunker == ChunkerInv /\ [ChunkerNext]_chunkVars => ChunkerInv'
<1> SUFFICES ASSUME ChunkerInv, [ChunkerNext]_chunkVars PROVE ChunkerInv'
  OBVIOUS
<1>1. CASE UNCHANGED chunkVars
  <2>1. UNCHANGED <<task, root, limit, group, file, section, first, next, held, chunks, produced,
                    taken, stage, stored>>
    BY <1>1 DEF chunkVars
  <2>2. OneIndexEach' /\ Sound' /\ \A g : Files(g)' = Files(g) /\ OfGroup(g)' = OfGroup(g)
    BY <2>1, ChunksStand
  <2>3. Directory' = Directory /\ Document' = Document /\ Article' = Article /\ Prior' = Prior
    BY <2>1 DEF Directory, Document, Article, Files, Prior
  <2>4. ChunkerTyped' /\ Located' /\ InOrder' /\ Limited'
    BY <2>1, <2>3 DEF ChunkerInv, ChunkerTyped, Located, InOrder, Limited
  <2>5. Storing'
    BY <2>1, <2>2 DEF ChunkerInv, Storing
  <2>6. Gathering'
    BY <2>1, <2>3 DEF ChunkerInv, Gathering
  <2>7. Covering'
    <3>1. (CoveredIn(group) <=> CoveredIn(group)') /\ (CoveredIn(3) <=> CoveredIn(3)')
      BY <2>1 DEF CoveredIn, Files, OfGroup, Passed
    <3> QED
      BY <2>1, <3>1 DEF ChunkerInv, Covering
  <2> QED
    BY <2>2, <2>4, <2>5, <2>6, <2>7 DEF ChunkerInv
<1>2. CASE ChunkerNext
  BY <1>2, PrepareKeeps, NextFileKeeps, NextDirectoryKeeps, LastDirectoryKeeps, StoreKeeps,
    WholeArticleKeeps, LongArticleKeeps, GatherParagraphKeeps, FlushKeeps, LastOfArticleKeeps DEF ChunkerNext
<1> QED
  BY <1>1, <1>2

\* Cutting statutes into chunks (chunker.py, indexer.py) loses no paragraph
\* of an article it passed, gives no index twice in a document, makes no
\* chunk longer than the overlap makes it and no more chunks than asked for,
\* and index_documents, when it ends, has stored them all.
THEOREM ChunksCoverTheText == ChunkerSpec => []ChunksCover
<1>1. ChunkerInv => ChunksCover
  <2> SUFFICES ASSUME ChunkerInv PROVE ChunksCover
    OBVIOUS
  <2>1. stage \notin {"prepare", "store", "failed"} => stage \in CuttingStages \cup {"done"}
    BY DEF ChunkerInv, ChunkerTyped
  <2>2. stage \notin {"prepare", "store", "failed"} => CoveredIn(group)
    BY <2>1 DEF ChunkerInv, Covering
  <2> QED
    BY <2>2 DEF ChunksCover, ChunkerInv, Sound, OneIndexEach, CoveredIn, Directory, Limited, Storing
<1> QED
  BY <1>1, InitChunker, NextChunker, PTL DEF ChunkerSpec

-----------------------------------------------------------------------------
(* EmbedSplit: cutting a text that is too long to embed                    *)

\* How far the text goes before paragraph i, the blank line after each
\* paragraph included.
Until(i) == text.ends[i - 1] + BlankLine * (i - 1)

SplitTyped ==
  /\ text \in Texts /\ split \in BOOLEAN
  /\ para \in 1 .. text.size + 1 /\ gathered \in 1 .. para
  /\ offset \in Nat /\ chars \in Int
  /\ pieces \in Seq([from : [para : Int, offset : Int], to : [para : Int, offset : Int], length : Int])

PiecesFollow ==
  \A k \in 1 .. Len(pieces) :
    /\ pieces[k].length <= EMBED_MAX_CHARS
    /\ pieces[k].from = IF k = 1 THEN Place(1, 0) ELSE pieces[k - 1].to

\* While it is at work: the next piece begins where the last one ends, what is
\* gathered fits into a piece, and a slice stands alone.
AtWorkInv ==
  /\ Len(pieces) < EMBED_MAX_COUNT
  /\ IF Len(pieces) = 0 THEN gathered = 1 /\ offset = 0
     ELSE pieces[Len(pieces)].to = Place(gathered, offset)
  /\ offset > 0 => /\ gathered = para /\ para <= text.size /\ offset < ParaLength(para)
                   /\ ParaLength(para) > EMBED_MAX_CHARS
  /\ chars = Until(para) - Until(gathered)
  /\ chars <= EMBED_MAX_CHARS + BlankLine

\* Two pieces that follow one another would not have fitted into one: when no
\* paragraph is cut, n pieces stand for n/2 times a piece's length, with the
\* next paragraph when n is odd.
PairsAreLong ==
  LET n == Len(pieces)
      w == EMBED_MAX_CHARS - 2 * BlankLine
  IN  IF n % 2 = 0 THEN Until(gathered) >= ((n + 1) \div 2) * w
      ELSE gathered <= text.size /\ Until(gathered) + ParaLength(gathered) > ((n + 1) \div 2) * w

SplitEnds ==
  ~Whole =>
    /\ Len(pieces) = EMBED_MAX_COUNT
    /\ Parted \/ TextLength > ((EMBED_MAX_COUNT + 1) \div 2) * (EMBED_MAX_CHARS - 2 * BlankLine)

EmbedSplitInv ==
  /\ SplitTyped /\ PiecesFollow
  /\ ~split => AtWorkInv /\ (~Parted => PairsAreLong)
  /\ split => Len(pieces) <= EMBED_MAX_COUNT /\ SplitEnds

-----------------------------------------------------------------------------

LEMMA EmbedBounds ==
  /\ EMBED_MAX_CHARS \in Nat /\ EMBED_MAX_CHARS > 0
  /\ EMBED_MAX_COUNT \in Nat /\ EMBED_MAX_COUNT > 0
BY EmbedSplitAssumption

LEMMA TextFacts ==
  ASSUME text \in Texts
  PROVE  /\ text.size \in Nat /\ text.slack \in Nat /\ text.ends \in [0 .. text.size -> Nat]
         /\ text.ends[0] = 0
         /\ \A i \in 0 .. text.size : text.ends[i] \in Nat
         /\ \A i \in 1 .. text.size : i - 1 \in 0 .. text.size /\ text.ends[i - 1] < text.ends[i]
BY EmbedSplitAssumption

LEMMA TextIncreases ==
  ASSUME text \in Texts, NEW i \in 0 .. text.size, NEW j \in 0 .. text.size, i <= j
  PROVE  text.ends[i] <= text.ends[j]
<1>1. text.size \in Nat /\ text.ends \in [0 .. text.size -> Nat]
  BY TextFacts
<1>2. \A k \in 1 .. text.size : text.ends[k - 1] < text.ends[k]
  BY TextFacts
<1> QED
  BY <1>1, <1>2, EndsIncrease

LEMMA UntilFacts ==
  ASSUME text \in Texts
  PROVE  /\ \A i \in 1 .. text.size + 1 : Until(i) \in Nat
         /\ Until(1) = 0
         /\ \A i \in 1 .. text.size : /\ ParaLength(i) \in Nat /\ ParaLength(i) > 0
                                      /\ Until(i + 1) = Until(i) + ParaLength(i) + BlankLine
         /\ \A i \in 1 .. text.size + 1 : \A j \in 1 .. text.size + 1 :
              i <= j => Until(i) <= Until(j)
         /\ \A i \in 1 .. text.size + 1 : \A j \in 1 .. text.size + 1 :
              i < j => JoinedLength(i, j - 1) = Until(j) - Until(i) - BlankLine
         /\ \A i \in 1 .. text.size : TextLength >= Until(i) + ParaLength(i)
<1>1. \A i \in 1 .. text.size + 1 : i - 1 \in 0 .. text.size /\ text.ends[i - 1] \in Nat
  BY TextFacts
<1>2. \A i \in 1 .. text.size : /\ i + 1 \in 1 .. text.size + 1 /\ i \in 1 .. text.size + 1
                                /\ text.ends[i] \in Nat /\ text.ends[i - 1] < text.ends[i]
  BY TextFacts
<1>3. \A i \in 1 .. text.size + 1 : Until(i) \in Nat
  BY <1>1 DEF Until, BlankLine
<1>4. \A i \in 1 .. text.size : /\ ParaLength(i) \in Nat /\ ParaLength(i) > 0
                                /\ Until(i + 1) = Until(i) + ParaLength(i) + BlankLine
  BY <1>1, <1>2 DEF Until, ParaLength, BlankLine
<1>5. ASSUME NEW i \in 1 .. text.size + 1, NEW j \in 1 .. text.size + 1, i <= j
      PROVE  Until(i) <= Until(j)
  <2>1. text.ends[i - 1] <= text.ends[j - 1]
    BY <1>1, <1>5, TextFacts, TextIncreases
  <2> QED
    BY <1>1, <1>5, <2>1, TextFacts DEF Until, BlankLine
<1>6. ASSUME NEW i \in 1 .. text.size + 1, NEW j \in 1 .. text.size + 1, i < j
      PROVE  JoinedLength(i, j - 1) = Until(j) - Until(i) - BlankLine
  BY <1>1, TextFacts DEF JoinedLength, Until, BlankLine
<1>7. ASSUME NEW i \in 1 .. text.size PROVE TextLength >= Until(i) + ParaLength(i)
  <2>1. text.ends[i] <= text.ends[text.size]
    BY TextFacts, TextIncreases
  <2>2. text.ends[i] \in Nat /\ text.ends[text.size] \in Nat /\ text.ends[i - 1] \in Nat
    BY <1>1, <1>2, TextFacts
  <2>3. TextLength = text.ends[text.size] + 2 * (text.size - 1) + text.slack
    <3>1. text.ends[1 - 1] = 0 /\ text.size # 0
      BY TextFacts
    <3> QED
      BY <2>2, <3>1, TextFacts DEF TextLength, JoinedLength, BlankLine
  <2>4. Until(i) + ParaLength(i) = text.ends[i] + 2 * (i - 1)
    BY <2>2 DEF Until, ParaLength, BlankLine
  <2>5. text.size \in Nat /\ text.slack \in Nat /\ i <= text.size
    BY TextFacts
  <2> QED
    BY <2>1, <2>2, <2>3, <2>4, <2>5
<1>8. Until(1) = 0
  BY TextFacts DEF Until, BlankLine
<1> QED
  BY <1>3, <1>4, <1>5, <1>6, <1>7, <1>8

LEMMA InitEmbedSplit == EmbedSplitInit => EmbedSplitInv
<1> SUFFICES ASSUME EmbedSplitInit PROVE EmbedSplitInv
  OBVIOUS
<1>1. text \in Texts /\ text.size \in Nat /\ Len(pieces) = 0
  BY TextFacts DEF EmbedSplitInit
<1>2. SplitTyped /\ PiecesFollow
  <2>1. << >> \in Seq([from : [para : Int, offset : Int], to : [para : Int, offset : Int],
                      length : Int])
    OBVIOUS
  <2>2. text \in Texts /\ split \in BOOLEAN /\ pieces = << >>
    BY DEF EmbedSplitInit
  <2>3. para \in 1 .. text.size + 1 /\ gathered \in 1 .. para /\ offset \in Nat /\ chars \in Int
    BY <1>1 DEF EmbedSplitInit
  <2>4. SplitTyped
    BY <2>1, <2>2, <2>3 DEF SplitTyped
  <2> QED
    BY <1>1, <2>4 DEF PiecesFollow
<1>3. AtWorkInv
  BY <1>1, EmbedBounds, UntilFacts DEF EmbedSplitInit, AtWorkInv, BlankLine
<1>4. PairsAreLong
  <2>1. Until(gathered) = 0 /\ (0 + 1) \div 2 = 0 /\ 0 % 2 = 0
    BY <1>1, UntilFacts DEF EmbedSplitInit
  <2>2. 0 * (EMBED_MAX_CHARS - 2 * BlankLine) = 0
    BY EmbedBounds DEF BlankLine
  <2> QED
    BY <1>1, <2>1, <2>2 DEF PairsAreLong
<1> QED
  BY <1>2, <1>3, <1>4 DEF EmbedSplitInv, EmbedSplitInit

\* A piece that begins where the last one ended and is not too long.
LEMMA PieceFollows ==
  ASSUME SplitTyped, PiecesFollow, AtWorkInv,
         NEW to \in [para : Int, offset : Int], NEW length \in Int, length <= EMBED_MAX_CHARS,
         pieces' = Append(pieces, [from |-> Place(gathered, offset), to |-> to, length |-> length])
  PROVE  /\ pieces' \in Seq([from : [para : Int, offset : Int], to : [para : Int, offset : Int],
                             length : Int])
         /\ PiecesFollow'
         /\ Len(pieces') = Len(pieces) + 1 /\ Len(pieces) \in Nat
         /\ pieces'[Len(pieces')].to = to
<1> DEFINE piece == [from |-> Place(gathered, offset), to |-> to, length |-> length]
           Piece == [from : [para : Int, offset : Int], to : [para : Int, offset : Int], length : Int]
<1>1. gathered \in Int /\ offset \in Int /\ pieces \in Seq(Piece) /\ Len(pieces) \in Nat
  <2>1. para \in Int /\ gathered \in Int
    BY TextFacts DEF SplitTyped
  <2> QED
    BY <2>1 DEF SplitTyped
<1>2. piece \in Piece
  BY <1>1 DEF Place
<1>3. /\ pieces' \in Seq(Piece) /\ Len(pieces') = Len(pieces) + 1
      /\ \A k \in 1 .. Len(pieces) : pieces'[k] = pieces[k]
      /\ pieces'[Len(pieces) + 1] = piece
  <2> HIDE DEF piece, Piece
  <2> QED
    BY <1>1, <1>2 DEF piece
<1>4. piece.from = (IF Len(pieces) = 0 THEN Place(1, 0) ELSE pieces[Len(pieces)].to)
      /\ piece.length <= EMBED_MAX_CHARS /\ piece.to = to
  BY DEF AtWorkInv
<1> HIDE DEF piece
<1>5. ASSUME NEW k \in 1 .. Len(pieces')
      PROVE  /\ pieces'[k].length <= EMBED_MAX_CHARS
             /\ pieces'[k].from = IF k = 1 THEN Place(1, 0) ELSE pieces'[k - 1].to
  <2>0. k = Len(pieces) + 1 \/ k \in 1 .. Len(pieces)
    <3>1. Len(pieces) \in Nat /\ Len(pieces') = Len(pieces) + 1
      BY <1>1, <1>3
    <3> QED
      BY <3>1
  <2>1. CASE k = Len(pieces) + 1
    BY <1>1, <1>3, <1>4, <2>1
  <2>2. CASE k \in 1 .. Len(pieces)
    <3>1. k # 1 => k - 1 \in 1 .. Len(pieces)
      BY <1>1, <2>2
    <3> QED
      BY <1>3, <2>2, <3>1 DEF PiecesFollow
  <2> QED
    BY <2>0, <2>1, <2>2
<1> QED
  BY <1>1, <1>3, <1>4, <1>5 DEF PiecesFollow

\* The least length that n pieces stand for.
LEMMA Halves ==
  ASSUME NEW n \in Nat, NEW w \in Int
  PROVE  /\ n % 2 = 0 => /\ (n + 1) % 2 # 0
                         /\ ((n + 1) + 1) \div 2 = ((n + 1) \div 2) + 1
                         /\ (((n + 1) + 1) \div 2) * w = ((n + 1) \div 2) * w + w
         /\ n % 2 # 0 => /\ (n + 1) % 2 = 0
                         /\ (((n + 1) + 1) \div 2) * w = ((n + 1) \div 2) * w
         /\ ((n + 1) \div 2) * w \in Int
<1> DEFINE h == (n + 1) \div 2
<1>1. n % 2 = 0 => (n + 1) % 2 # 0 /\ ((n + 1) + 1) \div 2 = h + 1
  OBVIOUS
<1>2. n % 2 # 0 => (n + 1) % 2 = 0 /\ ((n + 1) + 1) \div 2 = h
  OBVIOUS
<1>3. h \in Int
  OBVIOUS
<1> HIDE DEF h
<1>4. h * w \in Int /\ (h + 1) * w = h * w + w
  BY <1>3
<1> QED
  BY <1>1, <1>2, <1>4 DEF h

LEMMA TextLengthTyped == text \in Texts => TextLength \in Nat
<1> SUFFICES ASSUME text \in Texts, text.size # 0 PROVE TextLength \in Nat
  BY DEF TextLength
<1>1. text.size \in 1 .. text.size /\ 1 \in 1 .. text.size + 1 /\ text.size \in Nat /\ text.slack \in Nat
  BY TextFacts
<1>2. text.ends[1 - 1] = 0 /\ text.ends[text.size] \in Nat
  BY <1>1, TextFacts
<1> QED
  BY <1>1, <1>2 DEF TextLength, JoinedLength, BlankLine

LEMMA PairsSuffice ==
  SplitTyped /\ PairsAreLong /\ gathered <= text.size /\ Len(pieces) \in Nat
    => TextLength > ((Len(pieces) + 1) \div 2) * (EMBED_MAX_CHARS - 2 * BlankLine)
<1> SUFFICES ASSUME SplitTyped, PairsAreLong, gathered <= text.size, Len(pieces) \in Nat
             PROVE  TextLength > ((Len(pieces) + 1) \div 2) * (EMBED_MAX_CHARS - 2 * BlankLine)
  OBVIOUS
<1> DEFINE w == EMBED_MAX_CHARS - 2 * BlankLine
           need == ((Len(pieces) + 1) \div 2) * w
<1>1. w \in Int
  BY EmbedBounds DEF BlankLine
<1>2. need \in Int
  <2> HIDE DEF w
  <2> QED
    BY <1>1, Halves
<1>3. gathered \in 1 .. text.size /\ gathered \in 1 .. text.size + 1 /\ text \in Texts
  BY TextFacts DEF SplitTyped
<1>4. /\ Until(gathered) \in Nat /\ ParaLength(gathered) \in Nat /\ ParaLength(gathered) > 0
      /\ TextLength >= Until(gathered) + ParaLength(gathered)
  BY <1>3, UntilFacts
<1>5. Until(gathered) >= need \/ Until(gathered) + ParaLength(gathered) > need
  BY DEF PairsAreLong
<1>6. TextLength \in Int
  BY <1>3, TextLengthTyped
<1> HIDE DEF need
<1>7. TextLength > need
  BY <1>2, <1>4, <1>5, <1>6
<1> QED
  BY <1>7 DEF need

-----------------------------------------------------------------------------
(* The steps *)

\* What the count of the pieces decides: the invariant is kept, whether the
\* function returns or goes on.
LEMMA StepKeeps ==
  ASSUME SplitTyped', PiecesFollow',
         ReturnWhenFull, Len(pieces') = Len(pieces) + 1, Len(pieces) < EMBED_MAX_COUNT,
         Len(pieces) \in Nat,
         Len(pieces') < EMBED_MAX_COUNT => AtWorkInv',
         ~Parted' => PairsAreLong' /\ gathered' <= text'.size
  PROVE  EmbedSplitInv'
<1>1. split' <=> Len(pieces') = EMBED_MAX_COUNT
  <2>1. split' = (Len(pieces) + 1 >= EMBED_MAX_COUNT)
    BY DEF ReturnWhenFull
  <2>2. (Len(pieces) + 1 >= EMBED_MAX_COUNT) <=> Len(pieces') = EMBED_MAX_COUNT
    BY EmbedBounds
  <2> QED
    BY <2>1, <2>2
<1>2. Len(pieces') <= EMBED_MAX_COUNT /\ Len(pieces') \in Nat
  BY EmbedBounds
<1>3. ASSUME split' PROVE SplitEnds'
  <2>1. CASE Parted'
    BY <1>1, <1>3, <2>1 DEF SplitEnds
  <2>2. CASE ~Parted'
    <3>1. (SplitTyped /\ PairsAreLong /\ gathered <= text.size /\ Len(pieces) \in Nat
            => TextLength > ((Len(pieces) + 1) \div 2) * (EMBED_MAX_CHARS - 2 * BlankLine))'
      BY PairsSuffice, PTL
    <3>2. TextLength' > ((Len(pieces') + 1) \div 2) * (EMBED_MAX_CHARS - 2 * BlankLine)
      BY <1>2, <2>2, <3>1 DEF BlankLine
    <3> QED
      BY <1>1, <1>3, <3>2 DEF SplitEnds
  <2> QED
    BY <2>1, <2>2
<1>4. ASSUME ~split' PROVE Len(pieces') < EMBED_MAX_COUNT
  BY <1>1, <1>2, <1>4, EmbedBounds
<1> QED
  BY <1>2, <1>3, <1>4 DEF EmbedSplitInv

LEMMA FlushPieceKeeps ==
  ASSUME EmbedSplitInv, FlushPiece
  PROVE  EmbedSplitInv'
<1> DEFINE length == JoinedLength(gathered, para - 1)
<1>1. /\ SplitTyped /\ PiecesFollow /\ AtWorkInv /\ (~Parted => PairsAreLong) /\ text \in Texts
      /\ text.size \in Nat /\ para \in 1 .. text.size /\ gathered \in 1 .. para /\ ~split
  BY TextFacts DEF FlushPiece, AtWork, EmbedSplitInv, SplitTyped
<1>2. /\ gathered < para /\ chars + ParaLength(para) + BlankLine > EMBED_MAX_CHARS
      /\ text' = text /\ para' = para /\ offset' = offset /\ gathered' = para /\ chars' = 0
      /\ pieces' = Append(pieces, [from |-> Place(gathered, 0), to |-> Place(para, 0), length |-> length])
      /\ ReturnWhenFull
  BY DEF FlushPiece, Full, AddGathered, AddPiece
<1>3. offset = 0
  BY <1>1, <1>2 DEF AtWorkInv, SplitTyped
<1>4. /\ Until(para) \in Nat /\ Until(gathered) \in Nat /\ chars = Until(para) - Until(gathered)
      /\ length = chars - BlankLine /\ chars <= EMBED_MAX_CHARS + BlankLine
      /\ ParaLength(para) \in Nat /\ ParaLength(gathered) \in Nat
      /\ Until(gathered) + ParaLength(gathered) + BlankLine <= Until(para)
  <2>1. gathered \in 1 .. text.size /\ gathered + 1 \in 1 .. text.size + 1 /\ para \in 1 .. text.size + 1
        /\ gathered \in 1 .. text.size + 1 /\ gathered + 1 <= para
    BY <1>1, <1>2
  <2>2. Until(gathered + 1) <= Until(para)
        /\ Until(gathered + 1) = Until(gathered) + ParaLength(gathered) + BlankLine
    BY <1>1, <2>1, UntilFacts
  <2>3. /\ Until(para) \in Nat /\ Until(gathered) \in Nat
        /\ ParaLength(para) \in Nat /\ ParaLength(gathered) \in Nat
        /\ length = Until(para) - Until(gathered) - BlankLine
    BY <1>1, <1>2, <2>1, UntilFacts
  <2> QED
    BY <1>1, <2>2, <2>3 DEF AtWorkInv
<1>5. /\ pieces' \in Seq([from : [para : Int, offset : Int], to : [para : Int, offset : Int],
                          length : Int])
      /\ PiecesFollow'
      /\ Len(pieces') = Len(pieces) + 1 /\ Len(pieces) \in Nat
      /\ pieces'[Len(pieces')].to = Place(para, 0)
  <2>1. Place(para, 0) \in [para : Int, offset : Int] /\ length \in Int /\ length <= EMBED_MAX_CHARS
    BY <1>1, <1>4, EmbedBounds DEF Place, BlankLine
  <2> HIDE DEF length
  <2> QED
    BY <1>1, <1>2, <1>3, <2>1, PieceFollows
<1>6. SplitTyped'
  <2>1. split' \in BOOLEAN
    BY <1>2 DEF ReturnWhenFull
  <2> QED
    BY <1>1, <1>2, <1>3, <1>5, <2>1 DEF SplitTyped
<1>7. Len(pieces') < EMBED_MAX_COUNT => AtWorkInv'
  <2>1. Until(para)' = Until(para) /\ Until(gathered)' = Until(para)
    BY <1>2 DEF Until
  <2>2. Len(pieces') # 0
    BY <1>5
  <2> QED
    BY <1>2, <1>3, <1>4, <1>5, <2>1, <2>2, EmbedBounds DEF AtWorkInv, BlankLine, Place
<1>8. ASSUME ~Parted PROVE PairsAreLong'
  <2> DEFINE n == Len(pieces)
             w == EMBED_MAX_CHARS - 2 * BlankLine
             need == ((n + 1) \div 2) * w
             needNext == ((n + 1 + 1) \div 2) * w
  <2>1. w \in Int /\ n \in Nat
    BY <1>5, EmbedBounds DEF BlankLine
  <2>2. /\ need \in Int
        /\ n % 2 = 0 => (n + 1) % 2 # 0 /\ needNext = need + w
        /\ n % 2 # 0 => (n + 1) % 2 = 0 /\ needNext = need
    <3> HIDE DEF w, n
    <3> QED
      BY <2>1, Halves
  <2>3. IF n % 2 = 0 THEN Until(gathered) >= need ELSE Until(gathered) + ParaLength(gathered) > need
    BY <1>1, <1>8 DEF PairsAreLong
  <2>4. Until(gathered)' = Until(para) /\ ParaLength(gathered)' = ParaLength(para)
        /\ gathered' <= text'.size
    BY <1>1, <1>2 DEF Until, ParaLength
  <2> HIDE DEF need, needNext
  <2>5. IF (n + 1) % 2 = 0 THEN Until(para) >= needNext
        ELSE Until(para) + ParaLength(para) > needNext
    <3>1. CASE n % 2 = 0
      <4>1. Until(gathered) >= need /\ needNext = need + w /\ (n + 1) % 2 # 0
        BY <2>2, <2>3, <3>1
      <4>2. need + w < Until(para) + ParaLength(para)
        <5>1. EMBED_MAX_CHARS \in Nat /\ need \in Int /\ w = EMBED_MAX_CHARS - 4
          BY <2>2, EmbedBounds DEF BlankLine
        <5>2. chars + ParaLength(para) + 2 > EMBED_MAX_CHARS
          BY <1>2 DEF BlankLine
        <5> HIDE DEF w
        <5> QED
          BY <1>4, <4>1, <5>1, <5>2
      <4> QED
        BY <4>1, <4>2
    <3>2. CASE n % 2 # 0
      <4>1. Until(gathered) + ParaLength(gathered) > need /\ needNext = need /\ (n + 1) % 2 = 0
        BY <2>2, <2>3, <3>2
      <4> QED
        BY <1>4, <2>2, <4>1 DEF BlankLine
    <3> QED
      BY <3>1, <3>2
  <2> QED
    BY <1>5, <2>4, <2>5 DEF PairsAreLong, needNext, BlankLine
<1>9. ~Parted' => ~Parted
  BY <1>2 DEF Parted, ParaLength
<1> QED
  BY <1>1, <1>2, <1>5, <1>6, <1>7, <1>8, <1>9, StepKeeps DEF AtWorkInv

LEMMA GatherKeeps ==
  ASSUME EmbedSplitInv, GatherParagraph
  PROVE  EmbedSplitInv'
<1>1. /\ SplitTyped /\ PiecesFollow /\ AtWorkInv /\ (~Parted => PairsAreLong) /\ text \in Texts
      /\ text.size \in Nat /\ para \in 1 .. text.size /\ gathered \in 1 .. para /\ ~split
  BY TextFacts DEF GatherParagraph, AtWork, EmbedSplitInv, SplitTyped
<1>2. /\ ~Full /\ ParaLength(para) <= EMBED_MAX_CHARS
      /\ para' = para + 1 /\ chars' = chars + ParaLength(para) + BlankLine
      /\ UNCHANGED <<text, offset, gathered, pieces, split>>
  BY DEF GatherParagraph
<1>3. /\ ParaLength(para) \in Nat /\ Until(para) \in Nat /\ Until(gathered) \in Nat
      /\ Until(para + 1) = Until(para) + ParaLength(para) + BlankLine
      /\ chars = Until(para) - Until(gathered)
  <2>1. para \in 1 .. text.size + 1 /\ gathered \in 1 .. text.size + 1
    BY <1>1
  <2> QED
    BY <1>1, <2>1, UntilFacts DEF AtWorkInv
<1>4. offset = 0
  BY <1>1, <1>2, <1>3, EmbedBounds DEF AtWorkInv, SplitTyped
<1>5. chars' <= EMBED_MAX_CHARS + BlankLine
  BY <1>1, <1>2, <1>3, EmbedBounds DEF Full, BlankLine
<1>6. SplitTyped'
  <2>1. para' \in 1 .. text.size + 1 /\ gathered \in 1 .. para' /\ chars' \in Int
    BY <1>1, <1>2, <1>3 DEF BlankLine
  <2> QED
    BY <1>1, <1>2, <2>1 DEF SplitTyped
<1>7. AtWorkInv'
  <2>1. Until(para)' = Until(para + 1) /\ Until(gathered)' = Until(gathered)
    BY <1>2 DEF Until
  <2>2. chars' = Until(para)' - Until(gathered)'
    BY <1>2, <1>3, <2>1 DEF BlankLine
  <2> QED
    BY <1>1, <1>2, <1>4, <1>5, <2>2 DEF AtWorkInv
<1>8. PiecesFollow' /\ Parted' = Parted /\ PairsAreLong' = PairsAreLong
  BY <1>1, <1>2 DEF PiecesFollow, Parted, PairsAreLong, ParaLength, Until
<1> QED
  BY <1>1, <1>2, <1>6, <1>7, <1>8 DEF EmbedSplitInv

\* A slice is only cut from a paragraph that is alone and longer than a piece.
LEMMA SliceKeeps ==
  ASSUME EmbedSplitInv, SliceParagraph
  PROVE  EmbedSplitInv'
<1> DEFINE end == offset + EMBED_MAX_CHARS
<1>1. /\ SplitTyped /\ PiecesFollow /\ AtWorkInv /\ text \in Texts
      /\ text.size \in Nat /\ para \in 1 .. text.size /\ gathered \in 1 .. para /\ ~split
      /\ offset \in Nat
  BY TextFacts DEF SliceParagraph, AtWork, EmbedSplitInv, SplitTyped
<1>2. /\ ~Full /\ ParaLength(para) > EMBED_MAX_CHARS /\ ReturnWhenFull /\ chars' = chars
  BY DEF SliceParagraph
<1>3. /\ ParaLength(para) \in Nat /\ Until(para) \in Nat /\ Until(gathered) \in Nat
      /\ Until(para + 1) \in Nat
      /\ chars = Until(para) - Until(gathered)
  <2>1. para \in 1 .. text.size + 1 /\ gathered \in 1 .. text.size + 1
        /\ para + 1 \in 1 .. text.size + 1
    BY <1>1
  <2> QED
    BY <1>1, <2>1, UntilFacts DEF AtWorkInv
<1>4. gathered = para /\ chars = 0
  <2>1. gathered < para => Until(gathered) <= Until(para)
    <3>1. para \in 1 .. text.size + 1 /\ gathered \in 1 .. text.size + 1
      BY <1>1
    <3> QED
      BY <1>1, <3>1, UntilFacts
  <2>2. ~(gathered < para)
    <3> SUFFICES ASSUME gathered < para PROVE FALSE
      OBVIOUS
    <3>1. chars + ParaLength(para) + BlankLine > EMBED_MAX_CHARS
      BY <1>2, <1>3, <2>1, EmbedBounds DEF BlankLine
    <3> QED
      BY <1>2, <3>1 DEF Full
  <2>3. gathered = para
    BY <1>1, <2>2
  <2> QED
    BY <1>3, <2>3
<1>5. Parted
  BY <1>1, <1>2 DEF Parted
<1>6. CASE end < ParaLength(para)
  <2>1. /\ pieces' = Append(pieces, [from |-> Place(gathered, offset), to |-> Place(para, end),
                                     length |-> EMBED_MAX_CHARS])
        /\ text' = text /\ offset' = end /\ para' = para /\ gathered' = gathered
    BY <1>4, <1>6 DEF SliceParagraph, AddPiece
  <2>2. /\ pieces' \in Seq([from : [para : Int, offset : Int], to : [para : Int, offset : Int],
                            length : Int])
        /\ PiecesFollow'
        /\ Len(pieces') = Len(pieces) + 1 /\ Len(pieces) \in Nat
        /\ pieces'[Len(pieces')].to = Place(para, end)
    <3>1. Place(para, end) \in [para : Int, offset : Int] /\ EMBED_MAX_CHARS \in Int
          /\ EMBED_MAX_CHARS <= EMBED_MAX_CHARS
      BY <1>1, EmbedBounds DEF Place
    <3> HIDE DEF end
    <3> QED
      BY <1>1, <2>1, <3>1, PieceFollows
  <2>3. SplitTyped'
    <3>1. split' \in BOOLEAN /\ offset' \in Nat
      BY <1>1, <1>2, <2>1, EmbedBounds DEF ReturnWhenFull
    <3> QED
      BY <1>1, <1>2, <2>1, <2>2, <3>1 DEF SplitTyped
  <2>4. Len(pieces') < EMBED_MAX_COUNT => AtWorkInv'
    <3>1. Until(para)' = Until(para) /\ Until(gathered)' = Until(para) /\ ParaLength(para)' = ParaLength(para)
      BY <1>4, <2>1 DEF Until, ParaLength
    <3>2. Len(pieces') # 0
      BY <2>2
    <3> QED
      BY <1>1, <1>2, <1>3, <1>4, <1>6, <2>1, <2>2, <3>1, <3>2, EmbedBounds
         DEF AtWorkInv, BlankLine, Place
  <2>5. Parted'
    BY <1>5, <2>1 DEF Parted, ParaLength
  <2> QED
    BY <1>1, <1>2, <2>2, <2>3, <2>4, <2>5, StepKeeps DEF AtWorkInv
<1>7. CASE ~(end < ParaLength(para))
  <2> DEFINE length == ParaLength(para) - offset
  <2>1. /\ pieces' = Append(pieces, [from |-> Place(gathered, offset), to |-> EndOf(para),
                                     length |-> length])
        /\ text' = text /\ offset' = 0 /\ para' = para + 1 /\ gathered' = para + 1
    BY <1>4, <1>7 DEF SliceParagraph, AddPiece
  <2>2. /\ pieces' \in Seq([from : [para : Int, offset : Int], to : [para : Int, offset : Int],
                            length : Int])
        /\ PiecesFollow'
        /\ Len(pieces') = Len(pieces) + 1 /\ Len(pieces) \in Nat
        /\ pieces'[Len(pieces')].to = EndOf(para)
    <3>1. EndOf(para) \in [para : Int, offset : Int] /\ length \in Int /\ length <= EMBED_MAX_CHARS
      BY <1>1, <1>3, <1>7, EmbedBounds DEF EndOf, Place
    <3> HIDE DEF length
    <3> QED
      BY <1>1, <2>1, <3>1, PieceFollows
  <2>3. SplitTyped'
    <3>1. split' \in BOOLEAN /\ para' \in 1 .. text.size + 1 /\ gathered' \in 1 .. para'
      BY <1>1, <1>2, <2>1 DEF ReturnWhenFull
    <3> QED
      BY <1>1, <1>2, <2>1, <2>2, <3>1 DEF SplitTyped
  <2>4. Len(pieces') < EMBED_MAX_COUNT => AtWorkInv'
    <3>1. Until(para)' = Until(para + 1) /\ Until(gathered)' = Until(para + 1)
      BY <2>1 DEF Until
    <3>2. Len(pieces') # 0
      BY <2>2
    <3> QED
      BY <1>2, <1>3, <1>4, <2>1, <2>2, <3>1, <3>2, EmbedBounds
         DEF AtWorkInv, BlankLine, Place, EndOf
  <2>5. Parted'
    BY <1>5, <2>1 DEF Parted, ParaLength
  <2> QED
    BY <1>1, <1>2, <2>2, <2>3, <2>4, <2>5, StepKeeps DEF AtWorkInv
<1> QED
  BY <1>6, <1>7

\* The function returns with all that is left, and the text is whole.
LEMMA LastPieceKeeps ==
  ASSUME EmbedSplitInv, LastPiece
  PROVE  EmbedSplitInv'
<1>1. /\ SplitTyped /\ PiecesFollow /\ AtWorkInv /\ text \in Texts
      /\ text.size \in Nat /\ para = text.size + 1 /\ gathered \in 1 .. para /\ ~split
      /\ TextLength > EMBED_MAX_CHARS /\ offset \in Nat
  BY TextFacts DEF LastPiece, AtWork, EmbedSplitInv, SplitTyped
<1>2. text.size # 0
  BY <1>1, EmbedBounds DEF TextLength
<1>3. /\ split' = TRUE /\ UNCHANGED <<text, para, offset, gathered, chars>>
  BY DEF LastPiece, AddGathered, AddPiece
<1>4. offset = 0
  BY <1>1 DEF AtWorkInv
<1>5. CASE gathered < para
  <2> DEFINE length == JoinedLength(gathered, para - 1)
  <2>1. pieces' = Append(pieces, [from |-> Place(gathered, offset), to |-> Place(para, 0),
                                  length |-> length])
    BY <1>4, <1>5 DEF LastPiece, AddGathered, AddPiece
  <2>2. length \in Int /\ length <= EMBED_MAX_CHARS
    <3>1. gathered \in 1 .. text.size + 1 /\ para \in 1 .. text.size + 1
      BY <1>1
    <3>2. /\ length = Until(para) - Until(gathered) - BlankLine
          /\ Until(para) \in Nat /\ Until(gathered) \in Nat
      BY <1>1, <1>5, <3>1, UntilFacts
    <3>3. Until(para) - Until(gathered) <= EMBED_MAX_CHARS + BlankLine
      BY <1>1 DEF AtWorkInv
    <3> HIDE DEF length
    <3> QED
      BY <3>2, <3>3, EmbedBounds DEF BlankLine
  <2>3. Place(para, 0) \in [para : Int, offset : Int]
    BY <1>1 DEF Place
  <2>4. /\ pieces' \in Seq([from : [para : Int, offset : Int], to : [para : Int, offset : Int],
                            length : Int])
        /\ PiecesFollow'
        /\ Len(pieces') = Len(pieces) + 1 /\ Len(pieces) \in Nat
        /\ pieces'[Len(pieces')].to = Place(para, 0)
    <3> HIDE DEF length
    <3> QED
      BY <1>1, <2>1, <2>2, <2>3, PieceFollows
  <2>5. Len(pieces') <= EMBED_MAX_COUNT /\ pieces' # << >>
    BY <1>1, <2>4, EmbedBounds DEF AtWorkInv
  <2>6. Whole'
    BY <1>1, <1>3, <2>4, <2>5 DEF Whole, EndOf
  <2>7. SplitTyped'
    BY <1>1, <1>3, <2>4 DEF SplitTyped
  <2> QED
    BY <1>3, <2>4, <2>5, <2>6, <2>7 DEF EmbedSplitInv, SplitEnds
<1>6. CASE ~(gathered < para)
  <2>1. pieces' = pieces /\ gathered = para
    BY <1>1, <1>6 DEF LastPiece
  <2>2. Len(pieces) # 0 /\ pieces[Len(pieces)].to = Place(para, 0)
    BY <1>1, <1>2, <1>4, <2>1 DEF AtWorkInv
  <2>3. Whole'
    BY <1>1, <1>3, <2>1, <2>2 DEF Whole, EndOf
  <2>4. SplitTyped' /\ PiecesFollow'
    BY <1>1, <1>3, <2>1 DEF SplitTyped, PiecesFollow
  <2>5. Len(pieces') <= EMBED_MAX_COUNT
    BY <1>1, <2>1, EmbedBounds DEF AtWorkInv, SplitTyped
  <2> QED
    BY <1>3, <2>3, <2>4, <2>5 DEF EmbedSplitInv, SplitEnds
<1> QED
  BY <1>5, <1>6

LEMMA WholeTextKeeps ==
  ASSUME EmbedSplitInv, WholeText
  PROVE  EmbedSplitInv'
<1> DEFINE piece == [from |-> Place(1, 0), to |-> EndOf(text.size), length |-> TextLength]
           Piece == [from : [para : Int, offset : Int], to : [para : Int, offset : Int], length : Int]
<1>1. SplitTyped /\ text \in Texts /\ text.size \in Nat /\ TextLength \in Nat
  BY TextFacts, TextLengthTyped DEF EmbedSplitInv, SplitTyped
<1>2. /\ TextLength <= EMBED_MAX_CHARS /\ pieces' = << piece >> /\ split' = TRUE
      /\ UNCHANGED <<text, para, offset, gathered, chars>>
  BY DEF WholeText
<1>3. piece \in Piece
  BY <1>1 DEF Place, EndOf
<1>4. pieces' \in Seq(Piece) /\ Len(pieces') = 1 /\ pieces'[1] = piece /\ pieces' # << >>
  <2> HIDE DEF piece, Piece
  <2> QED
    BY <1>2, <1>3
<1>5. SplitTyped'
  BY <1>1, <1>2, <1>4 DEF SplitTyped
<1>6. PiecesFollow' /\ Whole'
  BY <1>2, <1>4 DEF PiecesFollow, Whole
<1> QED
  BY <1>2, <1>4, <1>5, <1>6, EmbedBounds DEF EmbedSplitInv, SplitEnds

LEMMA NextEmbedSplit ==
  ASSUME EmbedSplitInv, [EmbedSplitNext]_embedVars
  PROVE  EmbedSplitInv'
<1>1. CASE UNCHANGED embedVars
  BY <1>1 DEF embedVars, EmbedSplitInv, SplitTyped, PiecesFollow, AtWorkInv, Parted, PairsAreLong,
              SplitEnds, Whole, TextLength, JoinedLength, ParaLength, Until
<1> QED
  BY <1>1, WholeTextKeeps, FlushPieceKeeps, GatherKeeps, SliceKeeps, LastPieceKeeps
     DEF EmbedSplitNext

\* However a text falls into paragraphs, its pieces are at most so many and so
\* long, nothing between them is lost, and its end is left out only where the
\* pieces were needed, for all texts and all settings.
THEOREM TextIsCovered == EmbedSplitSpec => []PiecesFit
<1>1. EmbedSplitInv => PiecesFit
  <2> SUFFICES ASSUME EmbedSplitInv PROVE PiecesFit
    OBVIOUS
  <2>1. Len(pieces) <= EMBED_MAX_COUNT
    BY EmbedBounds DEF EmbedSplitInv, AtWorkInv, SplitTyped
  <2>2. DOMAIN pieces = 1 .. Len(pieces)
    BY DEF EmbedSplitInv, SplitTyped
  <2> QED
    BY <2>1, <2>2 DEF EmbedSplitInv, PiecesFollow, SplitEnds, PiecesFit
<1> QED
  BY <1>1, InitEmbedSplit, NextEmbedSplit, PTL DEF EmbedSplitSpec

-----------------------------------------------------------------------------
(* References: what a chunk refers to                                      *)

\* What a read of the table may yield.
Readable == Tables \cup {Unreadable}
Cached == Readable \cup {NotLoaded}

RefsTyped ==
  /\ table \in Tables /\ change \in Tables \cup {NotLoaded}
  /\ registry \in Cached /\ index \in Cached /\ lemmas \in Cached
  /\ load = NotLoaded \/ load \in [cache : {"registry", "index", "lemmas"}, value : Readable]
  /\ \/ work = [stage |-> "idle"]
     \/ /\ work \in [stage : {"rules", "morphology", "model", "done"}, text : Passages,
                     source : Uploads, article : ArticleNumbers, mode : Modes]
        /\ work.stage = "model" => work.mode # "morphology"
  /\ raced \in BOOLEAN

\* Unless a load overlapped a change, what was loaded is the table or what a
\* failed read yields, and the caches are empty when a change commits.
Current ==
  ~raced =>
    /\ \A c \in {registry, index, lemmas} : c # NotLoaded => c \in {table, Unreadable}
    /\ load # NotLoaded => load.value \in {table, Unreadable} /\ change = NotLoaded
    /\ change # NotLoaded =>
         /\ registry = NotLoaded
         /\ clearing # "index" => index = NotLoaded
         /\ clearing = "none" => lemmas = NotLoaded

Working == work.stage # "idle"

\* The histories cover the table, and what is remembered was in it once.
Known ==
  /\ SourcesOf(table) \subseteq past
  /\ Working => SourcesOf(table) \subseteq listed
  /\ ~raced => \A m \in remembered : \A r \in m.refs : r.source \in past

Led ==
  Working /\ ~raced =>
    \A r \in refs :
      \/ r.source \in {work.source} \cup listed
      \/ work.stage = "done" /\ r \in recalled /\ r.source \in past

Own ==
  Working /\ ~raced /\ work.mode = "morphology" /\ Sole(work.source) /\ NamesItselfOnly(work.text) =>
    \A r \in refs : r.source = work.source

NotItself == work.stage = "done" => Ref(work.source, work.article) \notin refs

ReferencesInv == RefsTyped /\ Current /\ Known /\ Led /\ Own /\ NotItself

-----------------------------------------------------------------------------
(* Resolution *)

LEMMA FirstIsIn ==
  ASSUME NEW t \in Seq(Infos), NEW S \in SUBSET DOMAIN t, S # {}
  PROVE  First(S) \in S /\ First(S) \in DOMAIN t
<1>1. S \subseteq Nat
  OBVIOUS
<1>2. \E i \in S : \A j \in S : i <= j
  BY <1>1, LeastElement
<1> QED
  BY <1>2 DEF First

\* What a search of a table returns is a source of it, or nothing.
LEMMA SourceAtIs ==
  ASSUME NEW t \in Seq(Infos), NEW S \in SUBSET DOMAIN t
  PROVE  /\ SourceAt(t, S) \in SourcesOf(t) \cup {Nowhere}
         /\ S # {} => \E i \in S : SourceAt(t, S) = t[i].source
BY FirstIsIn DEF SourceAt, SourcesOf

LEMMA Positioned ==
  /\ SecondaryCivilCode \subseteq DOMAIN registry
  /\ \A s : EntryOf(s) = {i \in DOMAIN index : index[i].source = s}
BY DEF SecondaryCivilCode, EntryOf

LEMMA PickIs ==
  ASSUME NEW t \in Seq(Infos), NEW S \in SUBSET DOMAIN t, NEW current
  PROVE  Pick(t, S, current) \in SourcesOf(t) \cup {Nowhere}
<1> DEFINE kin == {i \in S : \E c \in EntryOf(current) :
                     FamilyOf(index[c]) \cap FamilyOf(t[i]) # {}}
<1>1. kin \subseteq DOMAIN t
  OBVIOUS
<1>2. Pick(t, S, current) = SourceAt(t, IF kin # {} THEN kin ELSE S)
  BY DEF Pick
<1> HIDE DEF kin
<1> QED
  BY <1>1, <1>2, SourceAtIs

\* resolve_by_alias returns a source of the registry or of its index, or none.
LEMMA AliasResolves ==
  ASSUME registry \in Seq(Infos), index \in Seq(Infos), NEW alias, NEW current
  PROVE  ResolveByAlias(alias, current) \in SourcesOf(registry) \cup SourcesOf(index) \cup {Nowhere}
<1> DEFINE exact == {i \in DOMAIN registry : alias \in registry[i].aliases}
           civil == {i \in DOMAIN registry : registry[i].name = CivilCode}
<1>1. ResolveByAlias(alias, current) =
        IF alias \in CivilAliases
        THEN SourceAt(registry, IF SecondaryCivilCode # {} THEN SecondaryCivilCode ELSE civil)
        ELSE IF exact # {} THEN Pick(registry, exact, current)
             ELSE Pick(index, Relatives(alias), current)
  BY DEF ResolveByAlias
<1>2. exact \subseteq DOMAIN registry /\ civil \subseteq DOMAIN registry
      /\ Relatives(alias) \subseteq DOMAIN index
  BY DEF Relatives
<1> HIDE DEF exact, civil
<1>3. CASE alias \in CivilAliases
  <2>1. (IF SecondaryCivilCode # {} THEN SecondaryCivilCode ELSE civil) \subseteq DOMAIN registry
    BY <1>2, Positioned
  <2> QED
    BY <1>1, <1>3, <2>1, SourceAtIs
<1>4. CASE alias \notin CivilAliases
  BY <1>1, <1>2, <1>4, PickIs
<1> QED
  BY <1>3, <1>4

\* The sources of the family of the first entry of the current source.
LEMMA SameDocResolves ==
  ASSUME registry \in Seq(Infos), index \in Seq(Infos), NEW current
  PROVE  /\ ResolveSameDoc(current) \in SourcesOf(registry) \cup SourcesOf(index) \cup {current, Nowhere}
         /\ \/ NameOf[current] \in CivilAliases
            \/ ResolveSameDoc(current) = current
            \/ \E i, j \in DOMAIN index :
                 /\ index[i].source = current
                 /\ ResolveSameDoc(current) = index[j].source
                 /\ FamilyOf(index[i]) \cap FamilyOf(index[j]) # {}
<1> DEFINE info == index[First(EntryOf(current))]
           family == {i \in DOMAIN index : info.family[1] \in FamilyOf(index[i])}
<1>1. ResolveSameDoc(current) =
        IF NameOf[current] \in CivilAliases
        THEN IF SecondaryCivilCode # {} THEN SourceAt(registry, SecondaryCivilCode) ELSE current
        ELSE IF EntryOf(current) = {} THEN current
             ELSE IF info.family = << >> THEN current ELSE SourceAt(index, family)
  BY DEF ResolveSameDoc, Relatives
<1>2. EntryOf(current) \subseteq DOMAIN index /\ family \subseteq DOMAIN index
  BY Positioned
<1>3. ASSUME NameOf[current] \notin CivilAliases, EntryOf(current) # {}, info.family # << >>
      PROVE  \E i, j \in DOMAIN index :
                 /\ index[i].source = current
                 /\ SourceAt(index, family) = index[j].source
                 /\ FamilyOf(index[i]) \cap FamilyOf(index[j]) # {}
  <2> PICK i : i = First(EntryOf(current))
    OBVIOUS
  <2>1. i \in EntryOf(current) /\ i \in DOMAIN index /\ index[i].source = current
    BY <1>2, <1>3, FirstIsIn, Positioned
  <2>2. index[i] \in Infos
    BY <2>1
  <2>3. 1 \in DOMAIN index[i].family
    BY <1>3, <2>2, ReferencesAssumption
  <2>4. info.family[1] \in FamilyOf(index[i]) /\ i \in family
    BY <2>1, <2>3 DEF FamilyOf
  <2> HIDE DEF family
  <2>5. PICK j \in family : SourceAt(index, family) = index[j].source
    BY <1>2, <2>4, SourceAtIs
  <2>6. info.family[1] \in FamilyOf(index[j])
    BY <2>5 DEF family
  <2> QED
    BY <1>2, <2>1, <2>4, <2>5, <2>6
<1> HIDE DEF family, info
<1>4. SourceAt(registry, SecondaryCivilCode) \in SourcesOf(registry) \cup {Nowhere}
      /\ SourceAt(index, family) \in SourcesOf(index) \cup {Nowhere}
  BY <1>2, Positioned, SourceAtIs
<1>5. ResolveSameDoc(current) \in SourcesOf(registry) \cup SourcesOf(index) \cup {current, Nowhere}
  BY <1>1, <1>4
<1> QED
  BY <1>1, <1>3, <1>5

-----------------------------------------------------------------------------
(* What a pass finds *)

LEMMA Listing ==
  ASSUME NEW t \in Readable
  PROVE  t \in Seq(Infos) /\ \A i \in DOMAIN t : t[i] \in Infos /\ t[i].source \in SourcesOf(t)
<1>1. t \in Seq(Infos)
  <2>1. << >> \in Seq(Infos)
    OBVIOUS
  <2> QED
    BY <2>1, ReferencesAssumption DEF Readable, Unreadable
<1> QED
  BY <1>1 DEF SourcesOf

\* A pass of the rules leads to sources of the caches or to the source.
LEMMA RulesLead ==
  ASSUME registry \in Readable, index \in Readable, NEW x, NEW current,
         NEW r \in RuleBased(x, current)
  PROVE  r.source \in SourcesOf(registry) \cup SourcesOf(index) \cup {current}
<1>1. registry \in Seq(Infos) /\ index \in Seq(Infos)
  BY Listing
<1>2. r.source # Nowhere
  BY DEF RuleBased, Normalized
<1>3. CASE r \in SameDoc(x, current)
  <2>1. r.source = ResolveSameDoc(current)
    BY <1>3 DEF SameDoc, Ref
  <2> QED
    BY <1>1, <1>2, <2>1, SameDocResolves
<1>4. CASE r \in External(x, current)
  <2>1. PICK m : r.source = ResolveByAlias(m.alias, current)
    BY <1>4 DEF External, Ref
  <2> QED
    BY <1>1, <1>2, <2>1, AliasResolves
<1> QED
  BY <1>3, <1>4 DEF RuleBased, Normalized

\* The morphology may lead to a source of its own cache as well.
LEMMA MorphologyLeads ==
  ASSUME registry \in Readable, index \in Readable, lemmas \in Readable, NEW x, NEW current,
         NEW r \in Morphology(x, current)
  PROVE  r.source \in SourcesOf(registry) \cup SourcesOf(index) \cup SourcesOf(lemmas) \cup {current}
<1>1. registry \in Seq(Infos) /\ index \in Seq(Infos)
  BY Listing
<1>2. r.source # Nowhere
  BY DEF Morphology, Normalized
<1>3. CASE r \in SameDocMorphology(x, current)
  <2>1. r.source = ResolveSameDoc(current)
    BY <1>3 DEF SameDocMorphology, Ref
  <2> QED
    BY <1>1, <1>2, <2>1, SameDocResolves
<1>4. CASE r \in ExternalMorphology(x, current)
  <2>1. PICK i \in DOMAIN lemmas :
          \/ r.source = ResolveByAlias(lemmas[i].name, current)
          \/ r.source = lemmas[i].source
    BY <1>4 DEF ExternalMorphology, Ref
  <2> QED
    BY <1>1, <1>2, <2>1, AliasResolves, Listing
<1> QED
  BY <1>3, <1>4 DEF Morphology, Normalized

\* The model's answer leads nowhere else.
LEMMA ModelLeads ==
  ASSUME registry \in Readable, index \in Readable, NEW current, NEW c \in Coerced(current), NEW r \in c
  PROVE  r.source \in SourcesOf(registry) \cup SourcesOf(index)
<1>1. PICK n, a : c = Normalized({Ref(ResolveByAlias(n, current), a)})
  BY DEF Coerced
<1>2. r.source = ResolveByAlias(n, current) /\ r.source # Nowhere
  BY <1>1 DEF Normalized, Ref
<1> QED
  BY <1>2, Listing, AliasResolves

\* A text that names no other source leads, in a source that is the only one
\* of its family, to that source.
LEMMA ResolvesToItself ==
  ASSUME registry \in Readable, index \in Readable, NEW current, NameOf[current] \notin CivilAliases,
         \A o \in SourcesOf(index) \ {current} : SourceFamily(o) \cap SourceFamily(current) = {}
  PROVE  ResolveSameDoc(current) = current
<1> SUFFICES ASSUME NEW i \in DOMAIN index, NEW j \in DOMAIN index,
                    index[i].source = current,
                    ResolveSameDoc(current) = index[j].source,
                    FamilyOf(index[i]) \cap FamilyOf(index[j]) # {}
             PROVE  index[j].source = current
  BY Listing, SameDocResolves
<1>1. index[i] \in Infos /\ index[j] \in Infos /\ index[j].source \in SourcesOf(index)
  BY Listing
<1>2. /\ FamilyOf(index[i]) \subseteq SourceFamily(current)
      /\ FamilyOf(index[j]) \subseteq SourceFamily(index[j].source)
  BY <1>1 DEF SourceFamily
<1> QED
  BY <1>1, <1>2

LEMMA OwnText ==
  ASSUME registry \in Readable, index \in Readable, NEW x, NEW current, NamesItselfOnly(x),
         NameOf[current] \notin CivilAliases,
         \A o \in SourcesOf(index) \ {current} : SourceFamily(o) \cap SourceFamily(current) = {}
  PROVE  /\ \A r \in RuleBased(x, current) : r.source = current
         /\ \A r \in Morphology(x, current) : r.source = current
<1>1. ResolveSameDoc(current) = current
  BY ResolvesToItself
<1>2. External(x, current) = {} /\ ExternalMorphology(x, current) = {}
  BY DEF NamesItselfOnly, External, ExternalMorphology
<1>3. \A r \in SameDoc(x, current) \cup SameDocMorphology(x, current) : r.source = current
  BY <1>1 DEF SameDoc, SameDocMorphology, Ref
<1> QED
  BY <1>2, <1>3 DEF RuleBased, Morphology, Normalized

-----------------------------------------------------------------------------

LEMMA InitReferences == ReferencesInit => ReferencesInv
<1> SUFFICES ASSUME ReferencesInit PROVE ReferencesInv
  OBVIOUS
<1>1. work = [stage |-> "idle"] /\ work.stage = "idle"
  BY DEF ReferencesInit
<1>2. RefsTyped /\ Current
  BY <1>1 DEF ReferencesInit, RefsTyped, Current, Cached
<1> QED
  BY <1>1, <1>2 DEF ReferencesInit, ReferencesInv, Known, Led, Own, NotItself, Working

LEMMA TakeChunkKeeps == ReferencesInv /\ TakeChunk => ReferencesInv'
<1> SUFFICES ASSUME ReferencesInv, TakeChunk PROVE ReferencesInv'
  OBVIOUS
<1>1. PICK x \in Passages, s \in Uploads, a \in ArticleNumbers, m \in Modes :
        work' = [stage |-> "rules", text |-> x, source |-> s, article |-> a, mode |-> m]
  BY DEF TakeChunk
<1>2. /\ refs' = {} /\ listed' = SourcesOf(table)
      /\ UNCHANGED <<table, change, clearing, past, registry, index, lemmas, load, remembered, raced>>
  BY DEF TakeChunk, admin, caches
<1>3. RefsTyped'
  BY <1>1, <1>2 DEF ReferencesInv, RefsTyped
<1>4. Current'
  BY <1>2 DEF ReferencesInv, Current
<1>5. Known' /\ Led' /\ Own' /\ NotItself'
  BY <1>1, <1>2 DEF ReferencesInv, Known, Led, Own, NotItself, SourcesOf
<1> QED
  BY <1>3, <1>4, <1>5 DEF ReferencesInv

\* The caches and the table change under the work.
LEMMA WorkStands ==
  ASSUME ReferencesInv, UNCHANGED <<work, refs, remembered, recalled>>,
         listed \subseteq listed', past \subseteq past',
         raced' \in BOOLEAN, raced => raced'
  PROVE  Led' /\ Own' /\ NotItself'
<1>1. Led'
  BY DEF ReferencesInv, Led, Working
<1>2. Own'
  <2>1. Sole(work.source)' => Sole(work.source)
    BY DEF Sole
  <2> QED
    BY <2>1 DEF ReferencesInv, Own, Working, NamesItselfOnly
<1>3. NotItself'
  BY DEF ReferencesInv, NotItself
<1> QED
  BY <1>1, <1>2, <1>3

LEMMA LoadKeeps == ReferencesInv /\ (ReadSources \/ StoreCache) => ReferencesInv'
<1> SUFFICES ASSUME ReferencesInv, ReadSources \/ StoreCache PROVE ReferencesInv'
  OBVIOUS
<1>1. RefsTyped /\ Current /\ Known
  BY DEF ReferencesInv
<1>2. CASE ReadSources
  <2>1. /\ UNCHANGED <<table, change, clearing, past, registry, index, lemmas, work, refs,
                       remembered, recalled, listed>>
        /\ raced' = (raced \/ change # NotLoaded)
        /\ \E cache \in {"registry", "index", "lemmas"} :
             \/ load' = [cache |-> cache, value |-> table]
             \/ load' = [cache |-> cache, value |-> Unreadable]
             \/ registry # NotLoaded /\ load' = [cache |-> cache, value |-> registry]
    BY <1>2 DEF ReadSources, admin, Missing
  <2>2. PICK cache \in {"registry", "index", "lemmas"}, value \in Readable :
          /\ load' = [cache |-> cache, value |-> value]
          /\ value \in {table, Unreadable} \/ (registry # NotLoaded /\ value = registry)
    BY <1>1, <2>1 DEF RefsTyped, Readable, Cached
  <2>3. RefsTyped'
    BY <1>1, <2>1, <2>2 DEF RefsTyped
  <2>4. Current'
    <3> SUFFICES ASSUME ~raced'
                 PROVE  /\ \A c \in {registry, index, lemmas} : c # NotLoaded => c \in {table, Unreadable}
                        /\ load'.value \in {table, Unreadable} /\ change = NotLoaded
      BY <2>1 DEF Current, Unreadable
    <3>1. ~raced /\ change = NotLoaded
      BY <2>1
    <3>2. \A c \in {registry, index, lemmas} : c # NotLoaded => c \in {table, Unreadable}
      BY <1>1, <3>1 DEF Current
    <3> QED
      BY <2>2, <3>1, <3>2
  <2>5. Known'
    BY <1>1, <2>1 DEF Known, Working, SourcesOf
  <2>6. raced' \in BOOLEAN /\ (raced => raced') /\ listed \subseteq listed' /\ past \subseteq past'
    BY <2>1
  <2> QED
    BY <2>1, <2>3, <2>4, <2>5, <2>6, WorkStands DEF ReferencesInv
<1>3. CASE StoreCache
  <2>1. /\ UNCHANGED <<table, change, clearing, past, work, refs, remembered, recalled, listed, raced>>
        /\ load # NotLoaded /\ load' = NotLoaded
        /\ registry' = IF load.cache = "registry" THEN load.value ELSE registry
        /\ index' = IF load.cache = "index" THEN load.value ELSE index
        /\ lemmas' = IF load.cache = "lemmas" THEN load.value ELSE lemmas
    BY <1>3 DEF StoreCache, admin
  <2>2. RefsTyped'
    BY <1>1, <2>1 DEF RefsTyped, Cached
  <2>3. Current'
    BY <1>1, <2>1 DEF Current, Unreadable
  <2>4. Known'
    BY <1>1, <2>1 DEF Known, Working, SourcesOf
  <2>5. raced' \in BOOLEAN
    BY <2>2 DEF RefsTyped
  <2> QED
    BY <2>1, <2>2, <2>3, <2>4, <2>5, WorkStands DEF ReferencesInv
<1> QED
  BY <1>2, <1>3

LEMMA ChangeKeeps == ReferencesInv /\ (FlushChange \/ ClearNext \/ CommitChange) => ReferencesInv'
<1> SUFFICES ASSUME ReferencesInv, FlushChange \/ ClearNext \/ CommitChange PROVE ReferencesInv'
  OBVIOUS
<1>1. RefsTyped /\ Current /\ Known
  BY DEF ReferencesInv
<1>2. CASE FlushChange
  <2>1. /\ UNCHANGED <<table, past, index, lemmas, load, work, refs, remembered, recalled, listed>>
        /\ change' \in Tables /\ registry' = NotLoaded /\ clearing' = "index"
        /\ raced' = (raced \/ load # NotLoaded)
    BY <1>2 DEF FlushChange
  <2>2. RefsTyped'
    BY <1>1, <2>1 DEF RefsTyped, Cached
  <2>3. Current'
    BY <1>1, <2>1 DEF Current, Unreadable
  <2>4. Known'
    BY <1>1, <2>1 DEF Known, Working, SourcesOf
  <2>5. raced' \in BOOLEAN /\ (raced => raced') /\ listed \subseteq listed' /\ past \subseteq past'
    BY <2>1
  <2> QED
    BY <2>1, <2>2, <2>3, <2>4, <2>5, WorkStands DEF ReferencesInv
<1>3. CASE ClearNext
  <2>1. /\ UNCHANGED <<table, change, past, registry, load, work, refs, remembered, recalled, listed, raced>>
        /\ \/ clearing = "index" /\ clearing' = "lemmas" /\ index' = NotLoaded /\ lemmas' = lemmas
           \/ clearing = "lemmas" /\ clearing' = "none" /\ lemmas' = NotLoaded /\ index' = index
    BY <1>3 DEF ClearNext
  <2>2. RefsTyped'
    BY <1>1, <2>1 DEF RefsTyped, Cached
  <2>3. Current'
    BY <1>1, <2>1 DEF Current, Unreadable
  <2>4. Known'
    BY <1>1, <2>1 DEF Known, Working, SourcesOf
  <2>5. raced' \in BOOLEAN
    BY <2>2 DEF RefsTyped
  <2> QED
    BY <2>1, <2>2, <2>3, <2>4, <2>5, WorkStands DEF ReferencesInv
<1>4. CASE CommitChange
  <2>1. /\ UNCHANGED <<registry, index, lemmas, load, work, refs, remembered, recalled, raced>>
        /\ change # NotLoaded /\ clearing = "none" /\ table' = change /\ change' = NotLoaded
        /\ listed' = listed \cup SourcesOf(change) /\ past' = past \cup SourcesOf(change)
    BY <1>4 DEF CommitChange, caches
  <2>2. RefsTyped'
    BY <1>1, <2>1 DEF RefsTyped
  <2>3. Current'
    BY <1>1, <2>1 DEF Current
  <2>4. Known'
    BY <1>1, <2>1 DEF Known, Working, SourcesOf
  <2>5. raced' \in BOOLEAN /\ (raced => raced') /\ listed \subseteq listed' /\ past \subseteq past'
    BY <2>1, <2>2 DEF RefsTyped
  <2> QED
    BY <2>1, <2>2, <2>3, <2>4, <2>5, WorkStands DEF ReferencesInv
<1> QED
  BY <1>2, <1>3, <1>4

\* A pass that has the caches it needs.
LEMMA ReadyFacts ==
  ASSUME ReferencesInv, NEW pass \in {"rules", "morphology", "model"}, Ready(pass)
  PROVE  /\ registry \in Readable /\ index \in Readable /\ (pass = "morphology" => lemmas \in Readable)
         /\ work \in [stage : {"rules", "morphology", "model", "done"}, text : Passages,
                       source : Uploads, article : ArticleNumbers, mode : Modes]
         /\ work.stage = pass /\ Working
         /\ ~raced =>
              /\ SourcesOf(registry) \subseteq listed \cap past
              /\ SourcesOf(index) \subseteq listed \cap past
              /\ pass = "morphology" => SourcesOf(lemmas) \subseteq listed
<1>1. /\ registry # NotLoaded /\ index # NotLoaded /\ (pass = "morphology" => lemmas # NotLoaded)
      /\ work.stage = pass
  BY DEF Ready, Missing
<1>2. work # [stage |-> "idle"]
  BY <1>1
<1>3. ~raced => /\ registry \in {table, Unreadable} /\ index \in {table, Unreadable}
                /\ pass = "morphology" => lemmas \in {table, Unreadable}
  BY <1>1 DEF ReferencesInv, Current
<1>4. SourcesOf(Unreadable) = {}
  BY DEF SourcesOf, Unreadable
<1>5. Working /\ SourcesOf(table) \subseteq listed \cap past
  BY <1>1 DEF ReferencesInv, Known, Working
<1>6. ~raced =>
        /\ SourcesOf(registry) \subseteq listed \cap past
        /\ SourcesOf(index) \subseteq listed \cap past
        /\ pass = "morphology" => SourcesOf(lemmas) \subseteq listed
  BY <1>3, <1>4, <1>5
<1> QED
  BY <1>1, <1>2, <1>5, <1>6 DEF ReferencesInv, RefsTyped, Cached

\* A pass, whose references are known ones, or remembered if it is the last.
LEMMA FoundKeeps ==
  ASSUME ReferencesInv, NEW pass \in {"rules", "morphology", "model"}, Ready(pass),
         NEW more, NEW then \in {"morphology", "model", "done"}, Found(more, then),
         then = "model" => work.mode # "morphology",
         ~raced => \A r \in more : \/ r.source \in {work.source} \cup listed
                                   \/ then = "done" /\ r \in recalled' /\ r.source \in past,
         ~raced => \A m \in remembered' : \A r \in m.refs : r.source \in past,
         work.mode = "morphology" /\ NamesItselfOnly(work.text) /\ ~raced /\ Sole(work.source) =>
           \A r \in more : r.source = work.source
  PROVE  ReferencesInv'
<1>1. /\ refs' = IF then = "done" THEN WithoutSelf(refs \cup more) ELSE refs \cup more
      /\ work' = [work EXCEPT !.stage = then]
      /\ UNCHANGED <<table, change, clearing, past, registry, index, lemmas, load, listed, raced>>
  BY DEF Found, admin, caches
<1>2. /\ work \in [stage : {"rules", "morphology", "model", "done"}, text : Passages,
                    source : Uploads, article : ArticleNumbers, mode : Modes]
      /\ Working /\ work.stage \in {"rules", "morphology", "model"}
  BY ReadyFacts
<1>3. /\ work' \in [stage : {"rules", "morphology", "model", "done"}, text : Passages,
                     source : Uploads, article : ArticleNumbers, mode : Modes]
      /\ work'.stage = then /\ work'.text = work.text /\ work'.source = work.source
      /\ work'.article = work.article /\ work'.mode = work.mode
  BY <1>1, <1>2
<1>4. refs' \subseteq refs \cup more /\ Working'
  BY <1>1, <1>3 DEF WithoutSelf, Working
<1>5. RefsTyped'
  BY <1>1, <1>3 DEF ReferencesInv, RefsTyped
<1>6. Current' /\ Known'
  BY <1>1, <1>2 DEF ReferencesInv, Current, Known, SourcesOf
<1>7. Led'
  <2> SUFFICES ASSUME ~raced, NEW r \in refs'
               PROVE  \/ r.source \in {work.source} \cup listed
                      \/ then = "done" /\ r \in recalled' /\ r.source \in past
    BY <1>1, <1>3 DEF Led
  <2>1. r \in refs => r.source \in {work.source} \cup listed
    BY <1>2 DEF ReferencesInv, Led
  <2> QED
    BY <1>4, <2>1
<1>8. Own'
  BY <1>1, <1>2, <1>3, <1>4 DEF ReferencesInv, Own, Sole, NamesItselfOnly
<1>9. NotItself'
  BY <1>1, <1>3 DEF NotItself, WithoutSelf
<1> QED
  BY <1>5, <1>6, <1>7, <1>8, <1>9 DEF ReferencesInv

LEMMA PassesKeep == ReferencesInv /\ (RulesPass \/ MorphologyPass) => ReferencesInv'
<1> SUFFICES ASSUME ReferencesInv, RulesPass \/ MorphologyPass PROVE ReferencesInv'
  OBVIOUS
<1>0. ~raced => \A m \in remembered' : \A r \in m.refs : r.source \in past
  BY DEF RulesPass, MorphologyPass, ReferencesInv, Known
<1>1. CASE RulesPass
  <2>1. Ready("rules") /\ Found(RuleBased(work.text, work.source), AfterRules)
    BY <1>1 DEF RulesPass
  <2>2. /\ registry \in Readable /\ index \in Readable /\ work.mode \in Modes
        /\ ~raced => SourcesOf(registry) \subseteq listed /\ SourcesOf(index) \subseteq listed
    BY <2>1, ReadyFacts
  <2>3. \A r \in RuleBased(work.text, work.source) :
          r.source \in SourcesOf(registry) \cup SourcesOf(index) \cup {work.source}
    BY <2>2, RulesLead
  <2>4. NamesItselfOnly(work.text) /\ ~raced /\ Sole(work.source) =>
          \A r \in RuleBased(work.text, work.source) : r.source = work.source
    BY <2>2, OwnText DEF Sole
  <2>5. AfterRules \in {"morphology", "model"} /\ (AfterRules = "model" => work.mode # "morphology")
    BY DEF AfterRules
  <2> QED
    BY <1>0, <2>1, <2>2, <2>3, <2>4, <2>5, FoundKeeps
<1>2. CASE MorphologyPass
  <2>1. Ready("morphology") /\ Found(Morphology(work.text, work.source), AfterMorphology)
    BY <1>2 DEF MorphologyPass
  <2>2. /\ registry \in Readable /\ index \in Readable /\ lemmas \in Readable
        /\ ~raced => /\ SourcesOf(registry) \subseteq listed /\ SourcesOf(index) \subseteq listed
                     /\ SourcesOf(lemmas) \subseteq listed
    BY <2>1, ReadyFacts
  <2>3. \A r \in Morphology(work.text, work.source) :
          r.source \in SourcesOf(registry) \cup SourcesOf(index) \cup SourcesOf(lemmas) \cup {work.source}
    BY <2>2, MorphologyLeads
  <2>4. NamesItselfOnly(work.text) /\ ~raced /\ Sole(work.source) =>
          \A r \in Morphology(work.text, work.source) : r.source = work.source
    BY <2>2, OwnText DEF Sole
  <2>5. /\ AfterMorphology \in {"done", "model"}
        /\ AfterMorphology = "model" => work.mode # "morphology"
    BY DEF AfterMorphology
  <2> QED
    BY <1>0, <2>1, <2>2, <2>3, <2>4, <2>5, FoundKeeps
<1> QED
  BY <1>1, <1>2

LEMMA ModelKeeps == ReferencesInv /\ (RecallModel \/ ModelAnswers \/ ModelFails) => ReferencesInv'
<1> SUFFICES ASSUME ReferencesInv, RecallModel \/ ModelAnswers \/ ModelFails PROVE ReferencesInv'
  OBVIOUS
<1>1. Ready("model")
  BY DEF RecallModel, ModelAnswers, ModelFails
<1>2. /\ registry \in Readable /\ index \in Readable /\ work.mode # "morphology"
      /\ ~raced => /\ SourcesOf(registry) \subseteq listed \cap past
                   /\ SourcesOf(index) \subseteq listed \cap past
  BY <1>1, ReadyFacts DEF ReferencesInv, RefsTyped
<1>3. ~raced => \A m \in remembered : \A r \in m.refs : r.source \in past
  BY DEF ReferencesInv, Known
<1>4. CASE RecallModel
  <2>1. PICK m \in Recalled(work.text, work.source) : Found(m.refs, "done") /\ recalled' = m.refs
    BY <1>4 DEF RecallModel
  <2>2. remembered' = remembered /\ m \in remembered
    BY <1>4 DEF RecallModel, Recalled
  <2> QED
    BY <1>1, <1>2, <1>3, <2>1, <2>2, FoundKeeps
<1>5. CASE ModelAnswers
  <2>1. PICK c \in Coerced(work.source) :
          /\ Found(c, "done")
          /\ \E kept \in Kept(remembered) :
               remembered' = kept \cup {[text |-> work.text, source |-> work.source, refs |-> c]}
    BY <1>5 DEF ModelAnswers
  <2>2. \A r \in c : r.source \in SourcesOf(registry) \cup SourcesOf(index)
    BY <1>2, ModelLeads
  <2>3. \A m \in remembered' : m \in remembered \/ m.refs = c
    BY <2>1 DEF Kept
  <2>4. ~raced => \A r \in c : r.source \in listed \cap past
    BY <1>2, <2>2
  <2>5. ~raced => \A m \in remembered' : \A r \in m.refs : r.source \in past
    BY <1>3, <2>3, <2>4
  <2> QED
    BY <1>1, <1>2, <2>1, <2>4, <2>5, FoundKeeps
<1>6. CASE ModelFails
  <2>1. Found({}, "done") /\ remembered' = remembered
    BY <1>6 DEF ModelFails
  <2> QED
    BY <1>1, <1>2, <1>3, <2>1, FoundKeeps
<1> QED
  BY <1>4, <1>5, <1>6

LEMMA NextReferences == ReferencesInv /\ [ReferencesNext]_referenceVars => ReferencesInv'
<1> SUFFICES ASSUME ReferencesInv, [ReferencesNext]_referenceVars PROVE ReferencesInv'
  OBVIOUS
<1>1. CASE UNCHANGED referenceVars
  <2>1. UNCHANGED <<table, change, clearing, registry, index, lemmas, load, work, refs,
                    remembered, recalled, listed, past, raced>>
    BY <1>1 DEF referenceVars
  <2>2. RefsTyped' /\ Current' /\ Known'
    BY <2>1 DEF ReferencesInv, RefsTyped, Current, Known, Working, SourcesOf
  <2>3. raced' \in BOOLEAN
    BY <2>2 DEF RefsTyped
  <2> QED
    BY <2>1, <2>2, <2>3, WorkStands DEF ReferencesInv
<1>2. CASE ReferencesNext
  BY <1>2, TakeChunkKeeps, LoadKeeps, ChangeKeeps, PassesKeep, ModelKeeps DEF ReferencesNext
<1> QED
  BY <1>1, <1>2

\* The references that a chunk's passes find, those of the model's answer
\* included, lead to the chunk's own source or to one that the table held
\* meanwhile; those of an answer remembered from an earlier chunk to one that
\* the table held at some time.  The one exception is a cache that was loaded
\* while the table changed.  None leads to the article itself
\* (extract_references in app/rag/chunker.py, source_registry.py).
THEOREM ReferencesLeadSomewhere == ReferencesSpec => []ReferencesResolve
<1>1. ReferencesInv => ReferencesResolve
  <2> SUFFICES ASSUME ReferencesInv, work.stage = "done" PROVE ReferencesResolve
    BY DEF ReferencesResolve
  <2>1. Ref(work.source, work.article) \notin refs
    BY DEF ReferencesInv, NotItself
  <2>2. raced \/ \A r \in refs : \/ r.source \in {work.source} \cup listed
                                 \/ r \in recalled /\ r.source \in past
    BY DEF ReferencesInv, Led, Working, RefsTyped
  <2>3. ~raced /\ work.mode = "morphology" /\ Sole(work.source) /\ NamesItselfOnly(work.text) =>
          \A r \in refs : r.source = work.source
    BY DEF ReferencesInv, Own, Working
  <2> QED
    BY <2>1, <2>2, <2>3 DEF ReferencesResolve
<1> QED
  BY <1>1, InitReferences, NextReferences, PTL DEF ReferencesSpec

-----------------------------------------------------------------------------
(* Retrieval: gathering the norms of a deal                                *)

Phases == {"assist", "loop", "plan", "judge", "expand", "enrich", "search", "hop", "filter", "done"}

\* Candidates and norms are chunks, or points of the collection that stands
\* for its chunk.
NormsTyped ==
  /\ phase \in Phases /\ turn \in Nat /\ IsFiniteSet(asked)
  /\ fresh \subseteq Primal \cup Chunks /\ norms \subseteq Primal \cup Chunks
  /\ approved \cup found \cup cited \subseteq Chunks

\* Before anything is found.
Assisting ==
  phase = "assist" =>
    /\ Cardinality(asked) = turn /\ turn <= AssistQueries
    /\ approved = {} /\ norms = {} /\ found = {} /\ cited = {} /\ judged = {}

\* While queries are asked and judged.
Judging ==
  /\ phase \in {"loop", "plan", "judge"} =>
       /\ Cardinality(asked) = turn /\ turn <= MaxQueries
       /\ approved \subseteq (seen \cap chosen) \ (fresh \cup NoId)
       /\ judged \subseteq seen /\ fresh \cap judged = {}
       /\ phase = "judge" => fresh \subseteq seen \cap Chunks
  /\ phase \in {"plan", "judge"} => asked # {}
  /\ phase \in {"loop", "plan", "judge", "expand"} =>
       /\ norms = {} /\ found = {} /\ cited = {}
       /\ approved \subseteq chosen /\ Cardinality(approved) <= TargetArticles
       /\ approved # {} => asked # {}

\* What the iterative path has made of the approved norms.
Gathered(bound) ==
  /\ approved \subseteq chosen /\ Cardinality(approved) <= TargetArticles
  /\ norms \subseteq approved \cup cited \cup found
  /\ cited \subseteq Linked(approved)
  /\ approved = {} => norms = {}
  /\ Cardinality(norms) <= bound

RankedAtMost == Greatest(TargetArticles, ExpandedTopK)

Enriching ==
  /\ phase = "enrich" =>
       /\ asked # {} /\ approved # {} /\ turn <= MaxItems
       /\ Gathered(RankedAtMost + turn * SecondaryTopK)
  /\ phase = "done" /\ asked # {} => Gathered(RankedAtMost + MaxItems * SecondaryTopK)

\* What the classic path has found, at most `hops' citations away.
Reached(hops) ==
  /\ Keys(norms) \subseteq Within[hops]
  /\ norms = {} => found = {}

Hopping ==
  /\ phase = "search" => asked = {} /\ approved = {} /\ norms = {} /\ found = {} /\ turn = 0
  /\ phase = "hop" =>
       /\ asked = {} /\ approved = {} /\ fresh \subseteq norms /\ turn <= MaxHops
       /\ Reached(turn)
       /\ norms # {} => PrimaryTopK > 0

Filtering ==
  /\ phase = "filter" => asked = {} /\ fresh \subseteq norms /\ approved \subseteq Keys(norms)
  /\ phase = "filter" \/ (phase = "done" /\ asked = {}) =>
       Reached(MaxHops) /\ Cardinality(norms) <= Greatest(PrimaryTopK, ExpandedTopK)

RetrievalInv == NormsTyped /\ Assisting /\ Judging /\ Enriching /\ Hopping /\ Filtering

-----------------------------------------------------------------------------
(* The operators *)

\* The image of a finite set is finite, and no larger.
LEMMA ImageIsFinite ==
  ASSUME NEW S, IsFiniteSet(S), NEW T, NEW f \in [S -> T], \A y \in T : \E x \in S : f[x] = y
  PROVE  IsFiniteSet(T) /\ Cardinality(T) <= Cardinality(S)
<1>1. f \in Surjection(S, T)
  BY DEF Surjection
<1> QED
  BY <1>1, FS_Surjection

LEMMA RetrievalIsFinite ==
  /\ IsFiniteSet(Primal) /\ IsFiniteSet(Secondary) /\ IsFiniteSet(Chunks)
  /\ \A S \in SUBSET (Primal \cup Chunks) : IsFiniteSet(S) /\ Cardinality(S) \in Nat
<1>1. IsFiniteSet(Primal \cup Secondary)
  BY RetrievalAssumption, FS_Union
<1>2. IsFiniteSet(Chunks)
  <2> DEFINE f == [p \in Primal \cup Secondary |-> ChunkOf[p]]
  <2>1. f \in [Primal \cup Secondary -> Chunks]
    BY DEF Chunks
  <2>2. \A c \in Chunks : \E p \in Primal \cup Secondary : f[p] = c
    BY DEF Chunks
  <2> HIDE DEF f
  <2> QED
    BY <1>1, <2>1, <2>2, ImageIsFinite
<1>3. IsFiniteSet(Primal \cup Chunks)
  BY <1>2, RetrievalAssumption, FS_Union
<1> QED
  BY <1>2, <1>3, RetrievalAssumption, FS_Subset, FS_CardinalityType

LEMMA TopIsBounded ==
  ASSUME NEW S, IsFiniteSet(S), NEW n \in Nat, NEW T \in Top(S, n)
  PROVE  /\ T \subseteq S /\ IsFiniteSet(T)
         /\ Cardinality(T) \in Nat /\ Cardinality(T) <= n
         /\ n > 0 /\ S # {} => T # {}
<1>1. T \subseteq S /\ Cardinality(T) = Least(n, Cardinality(S))
  BY DEF Top
<1>2. IsFiniteSet(T) /\ Cardinality(T) \in Nat /\ Cardinality(S) \in Nat
  BY <1>1, FS_Subset, FS_CardinalityType
<1>3. S # {} => Cardinality(S) # 0
  BY FS_EmptySet
<1>4. T = {} => Cardinality(T) = 0
  BY FS_EmptySet
<1> QED
  BY <1>1, <1>2, <1>3, <1>4 DEF Least

LEMMA HeldIsBounded ==
  ASSUME NEW points \in SUBSET (Primal \cup Secondary)
  PROVE  /\ Held(points) \subseteq Chunks
         /\ Cardinality(Held(points)) \in Nat /\ Cardinality(points) \in Nat
         /\ Cardinality(Held(points)) <= Cardinality(points)
         /\ points # {} => Held(points) # {}
<1>1. IsFiniteSet(points) /\ Cardinality(points) \in Nat
  BY RetrievalAssumption, FS_Union, FS_Subset, FS_CardinalityType
<1>2. Held(points) = {ChunkOf[p] : p \in points}
  BY DEF Held
<1>3. IsFiniteSet(Held(points)) /\ Cardinality(Held(points)) <= Cardinality(points)
  <2> DEFINE f == [p \in points |-> ChunkOf[p]]
  <2>1. f \in [points -> Held(points)] /\ \A c \in Held(points) : \E p \in points : f[p] = c
    BY <1>2
  <2> HIDE DEF f
  <2> QED
    BY <1>1, <2>1, ImageIsFinite
<1> QED
  BY <1>1, <1>2, <1>3, FS_CardinalityType DEF Chunks

LEMMA KeysOfNorms ==
  /\ \A S \in SUBSET (Primal \cup Chunks) : Keys(S) \subseteq Chunks
  /\ \A S \in SUBSET Chunks : Keys(S) = S
  /\ \A S \in SUBSET Primal : Keys(S) = Held(S)
  /\ \A S, T : Keys(S \cup T) = Keys(S) \cup Keys(T)
  /\ \A S, T : S \subseteq T => Keys(S) \subseteq Keys(T)
BY RetrievalAssumption DEF Keys, Key, Held, Chunks

LEMMA LinkedGrows ==
  /\ \A S : S \subseteq Linked(S)
  /\ \A S, T : S \subseteq T => Linked(S) \subseteq Linked(T)
BY DEF Linked, Held

\* What is fetched for some chunks is one citation away from them.
LEMMA FetchedIsLinked ==
  ASSUME NEW S \in SUBSET Chunks, NEW linked \in Fetched(S)
  PROVE  linked \subseteq Chunks /\ linked \subseteq Linked(S)
<1> DEFINE named == UNION {Cites[c] : c \in S}
<1>1. PICK f \in [named -> SUBSET Secondary] :
        /\ \A r \in named : f[r] \in Top(Matches[r], CapOf[r])
        /\ linked = Held(UNION {f[r] : r \in named})
  BY DEF Fetched
<1>2. \A r \in named : f[r] \subseteq Matches[r] /\ f[r] \subseteq Secondary
  BY <1>1 DEF Top
<1> QED
  BY <1>1, <1>2 DEF Linked, Held, Chunks

\* The recursive definition of Within has a solution.
LEMMA WithinIs ==
  /\ Within[0] = found
  /\ \A h \in 0 .. MaxHops : h > 0 => Within[h] = Linked(Within[h - 1])
<1> DEFINE Solves(f, n) == f = [h \in 0 .. n |-> IF h = 0 THEN found ELSE Linked(f[h - 1])]
           Solvable == {n \in Nat : \E f : Solves(f, n)}
<1>1. 0 \in Solvable
  <2>1. Solves([h \in 0 .. 0 |-> found], 0)
    OBVIOUS
  <2> HIDE DEF Solves
  <2> QED
    BY <2>1
<1>2. ASSUME NEW n \in Nat, n \in Solvable PROVE n + 1 \in Solvable
  <2>1. PICK f : Solves(f, n)
    BY <1>2
  <2> DEFINE g == [h \in 0 .. n + 1 |-> IF h = 0 THEN found ELSE Linked(f[h - 1])]
  <2>2. \A k \in 0 .. n : g[k] = f[k]
    BY <2>1
  <2>3. \A h \in 0 .. n + 1 : h # 0 => h - 1 \in 0 .. n
    OBVIOUS
  <2>4. Solves(g, n + 1)
    <3>1. g = [h \in 0 .. n + 1 |-> IF h = 0 THEN found ELSE Linked(g[h - 1])]
      BY <2>2, <2>3
    <3> QED
      BY <3>1
  <2> HIDE DEF Solves, g
  <2> QED
    BY <2>4
<1>3. \E f : Solves(f, MaxHops)
  <2>1. MaxHops \in Nat
    BY RetrievalAssumption
  <2> HIDE DEF Solves
  <2>2. Nat \subseteq Solvable
    BY <1>1, <1>2, EveryNatural
  <2> QED
    BY <2>1, <2>2
<1>4. Within = CHOOSE f : Solves(f, MaxHops)
  BY DEF Within
<1>5. Solves(Within, MaxHops)
  <2> HIDE DEF Solves
  <2> QED
    BY <1>3, <1>4
<1>6. Within = [h \in 0 .. MaxHops |-> IF h = 0 THEN found ELSE Linked(Within[h - 1])]
  BY <1>5
<1>7. MaxHops \in Nat
  BY RetrievalAssumption
<1> HIDE DEF Solves, Solvable
<1>8. \A h \in 0 .. MaxHops : Within[h] = IF h = 0 THEN found ELSE Linked(Within[h - 1])
  BY <1>6
<1> QED
  BY <1>7, <1>8

LEMMA WithinGrows ==
  ASSUME NEW h \in 0 .. MaxHops
  PROVE  Within[h] \subseteq Within[MaxHops]
<1> DEFINE Up == {k \in Nat : h + k <= MaxHops => Within[h] \subseteq Within[h + k]}
<1>0. MaxHops \in Nat /\ h \in Nat /\ MaxHops - h \in Nat
  BY RetrievalAssumption
<1>1. 0 \in Up
  BY <1>0
<1>2. ASSUME NEW k \in Nat, k \in Up PROVE k + 1 \in Up
  <2> SUFFICES ASSUME h + (k + 1) <= MaxHops PROVE Within[h] \subseteq Within[h + (k + 1)]
    OBVIOUS
  <2>1. Within[h] \subseteq Within[h + k]
    BY <1>0, <1>2
  <2>2. h + (k + 1) \in 0 .. MaxHops /\ h + (k + 1) > 0 /\ (h + (k + 1)) - 1 = h + k
    BY <1>0
  <2>3. Within[h + (k + 1)] = Linked(Within[h + k])
    BY <2>2, WithinIs
  <2> QED
    BY <2>1, <2>3, LinkedGrows
<1>3. Nat \subseteq Up
  <2> HIDE DEF Up
  <2> QED
    BY <1>1, <1>2, EveryNatural
<1>4. MaxHops - h \in Up /\ h + (MaxHops - h) = MaxHops
  BY <1>0, <1>3
<1> QED
  BY <1>4

LEMMA WithinStays == found' = found => Within' = Within
BY DEF Within

LEMMA WithinIsAfter == Within'[0] = found'
<1>1. (Within[0] = found)'
  BY WithinIs, PTL
<1> QED
  BY <1>1

LEMMA Bounds ==
  /\ \A n \in {TargetArticles, MaxQueries, TopK} : n \in Nat /\ n > 0
  /\ \A n \in {ExpandedTopK, MaxItems, AssistQueries, SecondaryTopK, CandidateTopK,
               PrimaryTopK, MaxHops, HopCap, BatchSize} : n \in Nat
  /\ RankedAtMost \in Nat
  /\ Candidates \in Nat
  /\ Greatest(PrimaryTopK, ExpandedTopK) \in Nat
  /\ PrimaryTopK <= Greatest(PrimaryTopK, ExpandedTopK)
BY RetrievalAssumption DEF RankedAtMost, Greatest, Candidates

LEMMA OneMore ==
  ASSUME IsFiniteSet(asked), NEW q, q \notin asked
  PROVE  /\ IsFiniteSet(asked \cup {q}) /\ Cardinality(asked) \in Nat
         /\ Cardinality(asked \cup {q}) = Cardinality(asked) + 1
BY FS_AddElement, FS_CardinalityType

LEMMA InitRetrieval == RetrievalInit => RetrievalInv
BY RetrievalAssumption, FS_EmptySet DEF RetrievalInit, RetrievalInv, NormsTyped, Phases,
   Assisting, Judging, Enriching, Hopping, Filtering

-----------------------------------------------------------------------------
(* The steps of the iterative path *)

LEMMA AssistKeeps ==
  ASSUME RetrievalInv, AssistSearch \/ AssistEnds
  PROVE  RetrievalInv'
<1>1. CASE AssistSearch
  <2>1. PICK q \in Queries \ asked : asked' = asked \cup {q}
    BY <1>1 DEF AssistSearch
  <2>2. /\ IsFiniteSet(asked') /\ Cardinality(asked') = Cardinality(asked) + 1
    BY <2>1, OneMore DEF RetrievalInv, NormsTyped
  <2>3. Cardinality(asked') = turn' /\ turn' <= AssistQueries /\ turn' \in Nat
    BY <1>1, <2>2, Bounds DEF AssistSearch, RetrievalInv, NormsTyped, Assisting
  <2> QED
    BY <1>1, <2>2, <2>3 DEF AssistSearch, verdicts, RetrievalInv, NormsTyped, Assisting, Judging, Enriching,
                            Hopping, Filtering
<1>2. CASE AssistEnds
  <2>1. IsFiniteSet({}) /\ Cardinality({}) = 0
    BY FS_EmptySet
  <2> QED
    BY <1>2, <2>1, Bounds DEF AssistEnds, verdicts, RetrievalInv, NormsTyped, Phases, Assisting, Judging,
                              Enriching, Hopping, Filtering
<1> QED
  BY <1>1, <1>2

LEMMA SearchKeeps ==
  ASSUME RetrievalInv, IterativeSearch
  PROVE  RetrievalInv'
<1>1. PICK points \in Top(Primal, TopK) : fresh' = Held(points) \ seen
  BY DEF IterativeSearch
<1>2. fresh' \subseteq Chunks
  BY <1>1, HeldIsBounded DEF Top
<1>3. /\ IsFiniteSet(asked') /\ Cardinality(asked') = Cardinality(asked) + 1
      /\ asked' # {}
  BY OneMore DEF IterativeSearch, GoesOn, RetrievalInv, NormsTyped
<1>4. Cardinality(asked') = turn' /\ turn' <= MaxQueries /\ turn' \in Nat
  BY <1>3, Bounds DEF IterativeSearch, GoesOn, RetrievalInv, NormsTyped, Judging
<1>5. /\ approved \subseteq (seen' \cap chosen) \ (fresh' \cup NoId)
      /\ judged \subseteq seen' /\ fresh' \cap judged = {}
      /\ UNCHANGED <<judged, chosen>>
  BY <1>1 DEF IterativeSearch, RetrievalInv, Judging, verdicts
<1> QED
  BY <1>2, <1>3, <1>4, <1>5 DEF IterativeSearch, RetrievalInv, NormsTyped, Phases, Assisting, Judging,
                                Enriching, Hopping, Filtering

LEMMA LoopKeeps ==
  ASSUME RetrievalInv, StopLoop \/ PlanQuery \/ PlannerFinishes
  PROVE  RetrievalInv'
BY DEF StopLoop, PlanQuery, PlannerFinishes, verdicts, RetrievalInv, NormsTyped, Phases, Assisting, Judging,
       Enriching, Hopping, Filtering

LEMMA JudgeKeeps ==
  ASSUME RetrievalInv, Judge
  PROVE  RetrievalInv'
<1>1. PICK kept \in SUBSET (fresh \ NoId) :
        /\ chosen' = chosen \cup kept
        /\ \E cut \in Top(kept, TargetArticles - Cardinality(approved)) : approved' = approved \cup cut
  BY DEF Judge
<1> PICK cut \in Top(kept, TargetArticles - Cardinality(approved)) : approved' = approved \cup cut
  BY <1>1
<1>2. approved \subseteq Chunks /\ cut \subseteq kept /\ kept \subseteq Chunks
  BY DEF Top, Judge, RetrievalInv, NormsTyped, Judging
<1>3. /\ IsFiniteSet(approved) /\ Cardinality(approved) \in Nat /\ IsFiniteSet(kept)
      /\ Cardinality(approved) <= TargetArticles /\ TargetArticles \in Nat
  BY <1>2, RetrievalIsFinite, Bounds DEF Judge, RetrievalInv, Judging
<1>4. IsFiniteSet(cut) /\ Cardinality(cut) \in Nat
      /\ Cardinality(cut) <= TargetArticles - Cardinality(approved)
  <2>1. TargetArticles - Cardinality(approved) \in Nat
    BY <1>3
  <2> QED
    BY <1>3, <2>1, TopIsBounded
<1>5. Cardinality(approved') <= TargetArticles
  <2>1. Cardinality(approved \cup cut)
          = Cardinality(approved) + Cardinality(cut) - Cardinality(approved \cap cut)
    BY <1>3, <1>4, FS_Union
  <2>2. Cardinality(approved \cap cut) \in Nat
    BY <1>3, FS_Intersection, FS_CardinalityType
  <2> QED
    BY <1>1, <1>3, <1>4, <2>1, <2>2
<1>6. approved' \subseteq Chunks /\ approved' \subseteq (seen \cap chosen') \ NoId
  BY <1>1, <1>2 DEF Judge, RetrievalInv, Judging
<1>7. /\ UNCHANGED <<query, asked, seen, norms, turn, found, cited>> /\ fresh' = {}
      /\ phase = "judge" /\ phase' \in {"expand", "plan"}
      /\ judged' = judged \cup fresh /\ judged' \subseteq seen
  BY DEF Judge, RetrievalInv, Judging
<1> QED
  BY <1>5, <1>6, <1>7 DEF RetrievalInv, NormsTyped, Phases, Assisting, Judging,
                                Enriching, Hopping, Filtering

LEMMA JudgeFailsKeeps ==
  ASSUME RetrievalInv, JudgeFails
  PROVE  RetrievalInv'
<1>1. /\ UNCHANGED <<query, asked, seen, approved, norms, turn, chosen, found, cited>> /\ fresh' = {}
      /\ phase = "judge" /\ phase' = "plan"
      /\ judged' = judged \cup fresh /\ judged' \subseteq seen
  BY DEF JudgeFails, RetrievalInv, Judging
<1> QED
  BY <1>1 DEF RetrievalInv, NormsTyped, Phases, Assisting, Judging, Enriching, Hopping, Filtering

LEMMA ExpandKeeps ==
  ASSUME RetrievalInv, Expand
  PROVE  RetrievalInv'
<1>1. PICK linked \in Fetched(approved) : cited' = linked /\ norms' \in Top(approved \cup linked, RankedAtMost)
  BY DEF Expand, RankedAtMost
<1>2. approved \subseteq Chunks /\ linked \subseteq Chunks /\ linked \subseteq Linked(approved)
  BY FetchedIsLinked DEF RetrievalInv, NormsTyped
<1>3. norms' \subseteq approved \cup linked /\ Cardinality(norms') <= RankedAtMost
  <2>1. IsFiniteSet(approved \cup linked)
    BY <1>2, RetrievalIsFinite
  <2> QED
    BY <1>1, <2>1, Bounds, TopIsBounded
<1>4. /\ phase = "expand" /\ phase' = "enrich" /\ turn' = 0 /\ approved # {}
      /\ UNCHANGED <<query, asked, fresh, seen, approved, found, chosen>>
  BY DEF Expand, verdicts
<1>5. turn' * SecondaryTopK = 0 /\ turn' <= MaxItems /\ turn' \in Nat
  BY <1>4, Bounds
<1>6. RankedAtMost + turn' * SecondaryTopK = RankedAtMost
  BY <1>5, Bounds
<1>7. Enriching'
  <2>1. asked # {} /\ approved \subseteq chosen /\ Cardinality(approved) <= TargetArticles
    BY <1>4 DEF RetrievalInv, Judging
  <2> QED
    BY <1>1, <1>2, <1>3, <1>4, <1>5, <1>6, <2>1 DEF Enriching, Gathered, RankedAtMost
<1> QED
  BY <1>1, <1>2, <1>3, <1>4, <1>5, <1>7 DEF RetrievalInv, NormsTyped, Phases, Assisting, Judging,
                                            Hopping, Filtering

\* The product of the bound is one more summand with every turn.
LEMMA Products ==
  ASSUME NEW m \in Nat, NEW n \in Nat, NEW k \in Nat, m <= n
  PROVE  m * k \in Nat /\ n * k \in Nat /\ m * k <= n * k /\ (m + 1) * k = m * k + k
<1> PICK d \in Nat : n = m + d
  BY n - m \in Nat
<1>1. m * k \in Nat /\ d * k \in Nat /\ n * k = m * k + d * k /\ (m + 1) * k = m * k + k
  OBVIOUS
<1> QED
  BY <1>1

LEMMA NothingApprovedKeeps ==
  ASSUME RetrievalInv, NothingApproved
  PROVE  RetrievalInv'
<1>1. /\ phase = "expand" /\ phase' = "done" /\ approved = {} /\ norms = {} /\ found = {} /\ cited = {}
      /\ UNCHANGED <<query, asked, fresh, seen, approved, norms, turn, found, cited>>
      /\ Cardinality(approved) <= TargetArticles
  BY DEF NothingApproved, verdicts, RetrievalInv, Judging
<1>2. Cardinality({}) = 0 /\ RankedAtMost + MaxItems * SecondaryTopK \in Nat
  BY FS_EmptySet, Bounds, Products
<1>3. Enriching'
  BY <1>1, <1>2 DEF Enriching, Gathered, RankedAtMost
<1>4. Filtering'
  BY <1>1, <1>2, Bounds DEF Filtering, Reached, Keys
<1> QED
  BY <1>1, <1>3, <1>4 DEF RetrievalInv, NormsTyped, Phases, Assisting, Judging, Hopping

LEMMA EnrichKeeps ==
  ASSUME RetrievalInv, Enrich \/ EnrichmentEnds
  PROVE  RetrievalInv'
<1> DEFINE bound == RankedAtMost + turn * SecondaryTopK
<1>1. /\ phase = "enrich" /\ asked # {} /\ approved # {} /\ turn <= MaxItems /\ turn \in Nat
      /\ Gathered(bound)
      /\ UNCHANGED <<query, asked, fresh, seen, approved, cited, chosen>>
  BY DEF Enrich, EnrichmentEnds, verdicts, RetrievalInv, NormsTyped, Enriching
<1>2. /\ bound \in Nat /\ RankedAtMost + MaxItems * SecondaryTopK \in Nat
      /\ bound <= RankedAtMost + MaxItems * SecondaryTopK
      /\ RankedAtMost + (turn + 1) * SecondaryTopK = bound + SecondaryTopK
  <2>1. MaxItems \in Nat /\ SecondaryTopK \in Nat /\ RankedAtMost \in Nat
    BY Bounds
  <2>2. /\ turn * SecondaryTopK \in Nat /\ MaxItems * SecondaryTopK \in Nat
        /\ turn * SecondaryTopK <= MaxItems * SecondaryTopK
        /\ (turn + 1) * SecondaryTopK = turn * SecondaryTopK + SecondaryTopK
    BY <1>1, <2>1, Products
  <2> QED
    BY <2>1, <2>2
<1>3. norms \subseteq Chunks /\ IsFiniteSet(norms) /\ Cardinality(norms) \in Nat
  BY <1>1, RetrievalIsFinite DEF Gathered, RetrievalInv, NormsTyped
<1>4. CASE Enrich
  <2>1. PICK points \in SecondarySearch :
          found' = found \cup Held(points) /\ norms' = norms \cup Held(points)
    BY <1>4 DEF Enrich
  <2>2. points \subseteq Secondary /\ Cardinality(points) <= SecondaryTopK
    BY Bounds, TopIsBounded, RetrievalIsFinite DEF SecondarySearch
  <2>3. /\ Held(points) \subseteq Chunks /\ Cardinality(Held(points)) \in Nat
        /\ Cardinality(Held(points)) <= SecondaryTopK /\ IsFiniteSet(Held(points))
    BY <2>2, HeldIsBounded, RetrievalIsFinite, Bounds
  <2>4. Cardinality(norms') <= bound + SecondaryTopK
    <3>1. /\ Cardinality(norms') = Cardinality(norms) + Cardinality(Held(points))
                                   - Cardinality(norms \cap Held(points))
          /\ Cardinality(norms \cap Held(points)) \in Nat
      BY <1>3, <2>1, <2>3, FS_Union, FS_Intersection, FS_CardinalityType
    <3> QED
      BY <1>1, <1>2, <1>3, <2>3, <3>1, Bounds DEF Gathered
  <2>5. turn' = turn + 1 /\ turn < MaxItems /\ phase' = "enrich"
    BY <1>1, <1>4 DEF Enrich
  <2>6. Gathered(RankedAtMost + turn * SecondaryTopK)'
    <3>1. Cardinality(norms') <= RankedAtMost + turn' * SecondaryTopK
      BY <1>2, <2>4, <2>5
    <3> QED
      BY <1>1, <2>1, <3>1 DEF Gathered, RankedAtMost
  <2>7. Enriching'
    BY <1>1, <2>5, <2>6, Bounds DEF Enriching
  <2> QED
    BY <1>1, <1>3, <2>1, <2>3, <2>5, <2>7 DEF RetrievalInv, NormsTyped, Phases, Assisting, Judging,
                                              Hopping, Filtering
<1>5. CASE EnrichmentEnds
  <2>1. phase' = "done" /\ UNCHANGED <<norms, turn, found>>
    BY <1>5 DEF EnrichmentEnds
  <2>2. Cardinality(norms) <= RankedAtMost + MaxItems * SecondaryTopK
    BY <1>1, <1>2, <1>3 DEF Gathered
  <2>3. Enriching'
    BY <1>1, <2>1, <2>2 DEF Enriching, Gathered, RankedAtMost
  <2> QED
    BY <1>1, <2>1, <2>3 DEF RetrievalInv, NormsTyped, Phases, Assisting, Judging, Hopping, Filtering
<1> QED
  BY <1>4, <1>5

-----------------------------------------------------------------------------
(* The steps of the classic path *)

LEMMA SearchSpecificKeeps ==
  ASSUME RetrievalInv, SearchSpecific
  PROVE  RetrievalInv'
<1>1. PICK points \in Top(Primal, Candidates) :
        \E ranked \in Top(points, PrimaryTopK) :
          norms' = ranked /\ fresh' = ranked /\ found' = Held(ranked)
  BY DEF SearchSpecific
<1>2. points \subseteq Primal /\ IsFiniteSet(points)
  BY Bounds, TopIsBounded, RetrievalIsFinite
<1>3. PICK ranked \in Top(points, PrimaryTopK) :
        norms' = ranked /\ fresh' = ranked /\ found' = Held(ranked)
  BY <1>1
<1>4. ranked \subseteq Primal /\ IsFiniteSet(ranked) /\ Cardinality(ranked) <= PrimaryTopK
      /\ Cardinality(ranked) \in Nat
  BY <1>2, Bounds, TopIsBounded
<1>5. Keys(ranked) = Held(ranked) /\ Held(ranked) \subseteq Chunks
  BY <1>4, KeysOfNorms, HeldIsBounded
<1>6. ranked # {} => PrimaryTopK > 0
  BY <1>4, FS_EmptySet, Bounds
<1>7. /\ phase = "search" /\ phase' = "hop" /\ UNCHANGED <<query, asked, seen, approved, turn, cited>>
      /\ asked = {} /\ approved = {} /\ turn = 0
  BY DEF SearchSpecific, RetrievalInv, Hopping
<1>8. Hopping'
  <2>1. Reached(turn)'
    BY <1>3, <1>5, <1>7, WithinIsAfter DEF Reached, Held
  <2> QED
    BY <1>3, <1>6, <1>7, <2>1, Bounds DEF Hopping
<1> QED
  BY <1>3, <1>4, <1>5, <1>7, <1>8 DEF RetrievalInv, NormsTyped, Phases, Assisting, Judging,
                                      Enriching, Filtering

LEMMA HopKeeps ==
  ASSUME RetrievalInv, Hop
  PROVE  RetrievalInv'
<1>1. PICK linked \in Fetched(Keys(fresh)) : fresh' \in Top(linked \ Keys(norms), HopCap)
  BY DEF Hop
<1>2. /\ phase = "hop" /\ turn < MaxHops /\ fresh # {} /\ turn' = turn + 1 /\ turn \in Nat
      /\ norms' = norms \cup fresh' /\ cited' = cited \cup fresh'
      /\ UNCHANGED <<phase, query, asked, seen, approved, found>>
      /\ asked = {} /\ approved = {} /\ fresh \subseteq norms /\ norms \subseteq Primal \cup Chunks
      /\ Reached(turn) /\ (norms # {} => PrimaryTopK > 0)
  BY DEF Hop, RetrievalInv, NormsTyped, Hopping
<1>3. /\ Keys(fresh) \subseteq Chunks /\ Keys(fresh) \subseteq Within[turn]
  BY <1>2, KeysOfNorms DEF Reached
<1>4. fresh' \subseteq Chunks /\ fresh' \subseteq Linked(Keys(fresh))
  <2>1. linked \subseteq Chunks /\ linked \subseteq Linked(Keys(fresh))
    BY <1>3, FetchedIsLinked
  <2> QED
    BY <1>1, <2>1 DEF Top
<1>5. Within[turn + 1] = Linked(Within[turn])
  <2>1. turn + 1 \in 0 .. MaxHops /\ turn + 1 > 0 /\ (turn + 1) - 1 = turn
    BY <1>2, Bounds
  <2> QED
    BY <2>1, WithinIs
<1>6. Keys(norms') \subseteq Within[turn + 1]
  <2>1. Keys(norms') = Keys(norms) \cup fresh'
    <3>1. Keys(norms \cup fresh') = Keys(norms) \cup Keys(fresh')
      BY KeysOfNorms
    <3>2. Keys(fresh') = fresh'
      BY <1>4, KeysOfNorms
    <3> QED
      BY <1>2, <3>1, <3>2
  <2>2. Linked(Keys(fresh)) \subseteq Linked(Within[turn])
    BY <1>3, LinkedGrows
  <2>3. Keys(norms) \subseteq Linked(Within[turn])
    BY <1>2, LinkedGrows DEF Reached
  <2> QED
    BY <1>4, <1>5, <2>1, <2>2, <2>3
<1>7. Hopping'
  <2>1. Within' = Within
    BY <1>2, WithinStays
  <2>2. Reached(turn)'
    BY <1>2, <1>6, <2>1 DEF Reached
  <2> QED
    BY <1>2, <2>2, Bounds DEF Hopping
<1> QED
  BY <1>2, <1>4, <1>7 DEF RetrievalInv, NormsTyped, Phases, Assisting, Judging, Enriching, Filtering

LEMMA RerankKeeps ==
  ASSUME RetrievalInv, JointRerank
  PROVE  RetrievalInv'
<1> DEFINE n == Greatest(PrimaryTopK, ExpandedTopK)
<1>1. /\ phase = "hop" /\ norms' \in Top(norms, n) /\ fresh' \subseteq norms'
      /\ phase' \in {"filter", "done"}
      /\ UNCHANGED <<query, asked, seen, approved, turn, found, cited>>
  BY DEF JointRerank
<1>2. /\ asked = {} /\ approved = {} /\ turn \in 0 .. MaxHops /\ norms \subseteq Primal \cup Chunks
      /\ Reached(turn) /\ (norms # {} => PrimaryTopK > 0)
  BY <1>1, Bounds DEF RetrievalInv, NormsTyped, Hopping
<1>3. /\ norms' \subseteq norms /\ Cardinality(norms') <= n
      /\ norms # {} => norms' # {}
  <2>1. n \in Nat /\ PrimaryTopK <= n /\ PrimaryTopK \in Nat
    BY Bounds
  <2>2. norms # {} => n > 0
    BY <1>2, <2>1
  <2>3. IsFiniteSet(norms)
    BY <1>2, RetrievalIsFinite
  <2> QED
    BY <1>1, <2>1, <2>2, <2>3, TopIsBounded
<1>4. Keys(norms') \subseteq Within[MaxHops]
  BY <1>2, <1>3, KeysOfNorms, WithinGrows DEF Reached
<1>5. Reached(MaxHops)'
  BY <1>1, <1>2, <1>3, <1>4, WithinStays DEF Reached
<1>6. Filtering'
  BY <1>1, <1>2, <1>3, <1>5 DEF Filtering
<1> QED
  BY <1>1, <1>2, <1>3, <1>6 DEF RetrievalInv, NormsTyped, Phases, Assisting, Judging, Enriching, Hopping

LEMMA FilterKeeps ==
  ASSUME RetrievalInv, FilterBatch \/ FilterEnds
  PROVE  RetrievalInv'
<1>1. /\ phase = "filter" /\ asked = {} /\ fresh \subseteq norms /\ approved \subseteq Keys(norms)
      /\ Reached(MaxHops) /\ Cardinality(norms) <= Greatest(PrimaryTopK, ExpandedTopK)
      /\ norms \subseteq Primal \cup Chunks
      /\ UNCHANGED <<query, asked, seen, turn, found, cited>>
  BY DEF FilterBatch, FilterEnds, RetrievalInv, NormsTyped, Filtering
<1>2. Within' = Within
  BY <1>1, WithinStays
<1>3. CASE FilterBatch
  <2>1. phase' = phase /\ norms' = norms
    BY <1>3 DEF FilterBatch
  <2>2. fresh' \subseteq fresh /\ approved' \subseteq approved \cup Keys(fresh)
    <3>1. PICK k : \E batch \in Top(fresh, k) :
                     /\ \E kept \in SUBSET Keys(batch) \ {{}} : approved' = approved \cup kept
                     /\ fresh' = fresh \ batch
      BY <1>3 DEF FilterBatch
    <3>2. PICK batch \in Top(fresh, k) :
            /\ \E kept \in SUBSET Keys(batch) \ {{}} : approved' = approved \cup kept
            /\ fresh' = fresh \ batch
      BY <3>1
    <3>3. Keys(batch) \subseteq Keys(fresh)
      BY KeysOfNorms DEF Top
    <3> QED
      BY <3>2, <3>3
  <2>3. Keys(fresh) \subseteq Keys(norms) /\ Keys(norms) \subseteq Chunks
    BY <1>1, KeysOfNorms
  <2>4. Filtering'
    BY <1>1, <1>2, <2>1, <2>2, <2>3 DEF Filtering, Reached
  <2> QED
    BY <1>1, <2>1, <2>2, <2>3, <2>4 DEF RetrievalInv, NormsTyped, Assisting, Judging, Enriching, Hopping
<1>4. CASE FilterEnds
  <2>1. /\ norms' = IF approved = {} THEN norms ELSE {x \in norms : Key(x) \in approved}
        /\ phase' = "done" /\ UNCHANGED <<fresh, approved>>
    BY <1>4 DEF FilterEnds
  <2>2. norms' \subseteq norms /\ Keys(norms') \subseteq Keys(norms)
    BY <2>1, KeysOfNorms
  <2>3. norms # {} => norms' # {}
    BY <1>1, <2>1 DEF Keys
  <2>4. Cardinality(norms') <= Greatest(PrimaryTopK, ExpandedTopK)
    <3>1. /\ IsFiniteSet(norms) /\ Cardinality(norms) \in Nat /\ Cardinality(norms') \in Nat
          /\ Cardinality(norms') <= Cardinality(norms)
      BY <1>1, <2>2, RetrievalIsFinite, FS_Subset
    <3> QED
      BY <1>1, <3>1, Bounds
  <2>5. Filtering'
    BY <1>1, <1>2, <2>1, <2>2, <2>3, <2>4 DEF Filtering, Reached
  <2> QED
    BY <1>1, <2>1, <2>2, <2>5 DEF RetrievalInv, NormsTyped, Phases, Assisting, Judging, Enriching, Hopping
<1> QED
  BY <1>3, <1>4

LEMMA NextRetrieval ==
  ASSUME RetrievalInv, [RetrievalNext]_retrievalVars
  PROVE  RetrievalInv'
<1>1. CASE UNCHANGED retrievalVars
  <2>1. Within' = Within
    BY <1>1, WithinStays DEF retrievalVars
  <2> QED
    BY <1>1, <2>1 DEF retrievalVars, verdicts, RetrievalInv, NormsTyped, Assisting, Judging, Enriching, Gathered,
                      Hopping, Filtering, Reached
<1> QED
  BY <1>1, AssistKeeps, SearchKeeps, LoopKeeps, JudgeKeeps, JudgeFailsKeeps, ExpandKeeps, NothingApprovedKeeps,
     EnrichKeeps, SearchSpecificKeeps, HopKeeps, RerankKeeps, FilterKeeps DEF RetrievalNext

\* The norms that a deal gets can be traced to what was found, cited or kept by
\* an answer of the judge, within the bounds of the settings, for collections
\* of any size, any number of queries and hops; no query is asked twice and no
\* chunk judged twice, whatever calls fail (retrieve_norms in
\* app/agent/nodes.py).
THEOREM NormsAreTraceable == RetrievalSpec => []NormsTraceable
<1>1. RetrievalInv => NormsTraceable
  <2> SUFFICES ASSUME RetrievalInv PROVE NormsTraceable
    OBVIOUS
  <2>1. phase \in {"enrich", "done"} /\ asked # {} =>
          Gathered(RankedAtMost + MaxItems * SecondaryTopK)
    <3> SUFFICES ASSUME phase = "enrich"
                 PROVE  Gathered(RankedAtMost + MaxItems * SecondaryTopK)
      BY DEF RetrievalInv, Enriching
    <3>1. Gathered(RankedAtMost + turn * SecondaryTopK) /\ turn <= MaxItems /\ turn \in Nat
      BY DEF RetrievalInv, Enriching, NormsTyped
    <3>2. turn * SecondaryTopK \in Nat /\ MaxItems * SecondaryTopK \in Nat
          /\ turn * SecondaryTopK <= MaxItems * SecondaryTopK
      BY <3>1, Bounds, Products
    <3>3. Cardinality(norms) \in Nat
      BY RetrievalIsFinite DEF RetrievalInv, NormsTyped
    <3> QED
      BY <3>1, <3>2, <3>3, Bounds DEF Gathered
  <2>2. phase \notin {"assist", "search", "hop", "filter"} /\ asked # {}
          => Cardinality(approved) <= TargetArticles
    BY <2>1 DEF RetrievalInv, NormsTyped, Phases, Judging, Gathered
  <2>3. phase # "assist" /\ asked # {} => Cardinality(approved) <= TargetArticles
    BY <2>2 DEF RetrievalInv, Hopping, Filtering
  <2> QED
    BY <2>1, <2>3 DEF RetrievalInv, Assisting, Judging, Filtering, Gathered, Reached, RankedAtMost,
                      NormsTraceable
<1> QED
  BY <1>1, InitRetrieval, NextRetrieval, PTL DEF RetrievalSpec
=============================================================================
