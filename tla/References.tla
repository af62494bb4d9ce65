------------------------------ MODULE References ------------------------------
(***************************************************************************)
(* How the references of a chunk to other articles are found               *)
(* (app/rag/chunker.py, extract_references) and which source they are      *)
(* resolved to (app/rag/source_registry.py).                               *)
(*                                                                         *)
(* A worker thread takes one chunk at a time through the passes of its     *)
(* mode: the rules, the morphology and the model.  They consult three      *)
(* caches of the table npa_sources: the registry, and two derived from it, *)
(* its index by name and family and the lemmatized aliases.  They are      *)
(* cleared one after another by the transactions that change a source,     *)
(* before they commit.  What the model answered for a text is kept in a    *)
(* fourth cache, which nothing clears.                                     *)
(*                                                                         *)
(* A text is reduced to what the patterns find in it: see Texts.           *)
(***************************************************************************)
EXTENDS Integers, Sequences, FiniteSets

CONSTANTS
  Infos,         \* SourceInfo: [source, name, aliases, family, secondary]
  Tables,        \* what get_source_registry may read: sequences of Infos
  Passages,      \* texts of chunks
  Uploads,       \* sources whose text is cut
  ArticleNumbers,
  CivilAliases,  \* aliases for which _is_civil_code_alias holds
  CivilCode,     \* the alias "gk rf"
  CodeSources,   \* sources whose name says that they are a code
  NameOf,        \* NameOf[s]: _clean_alias of the name of source s
  Nowhere,       \* None
  NotLoaded,     \* an empty cache
  MemorySize,    \* maxsize of the cache of _llm_extract_cached
  MaxChanges     \* bound on the changes of npa_sources

\* A text: the articles named beside "this code" (near), those named with a
\* point (points), whether it has a marker of its own document, the articles
\* it names, the aliases found with the article that follows each, and the
\* windows of the morphology.
ASSUME ReferencesAssumption ==
  /\ Tables \subseteq Seq(Infos)
  /\ \A e \in Infos : e.family = << >> \/ 1 \in DOMAIN e.family
  /\ Nowhere \notin ArticleNumbers
  /\ \A x \in Passages :
       /\ x.near \cup x.points \subseteq x.numbers /\ x.numbers \subseteq ArticleNumbers
       /\ x.marker \in BOOLEAN
       /\ \A m \in x.mentions : m.article \in x.numbers \cup {Nowhere}
  /\ MemorySize \in Nat \ {0}
  /\ MaxChanges \in Nat

VARIABLES
  table,       \* the indexed rows of npa_sources, the last indexed first
  change,      \* what a transaction that has cleared the caches will commit
  changes,
  clearing,    \* which cache that transaction clears next, "none" when through
  registry,    \* the cache of get_source_registry
  index,       \* those of source_by_name, grouped_family_sources and
               \* get_known_sources, as the registry they are from
  lemmas,      \* those of _normalized_aliases and _normalized_same_doc_markers
  load,        \* what the thread is about to put into a cache
  work,        \* the chunk in the thread
  refs,        \* the references found in it
  remembered,  \* the cache of _llm_extract_cached
  recalled,    \* history: references of this chunk that were remembered
  listed,      \* history: sources in the table since this chunk was taken up
  past,        \* history: sources in the table at any time
  raced        \* history: a load overlapped a change

referenceVars ==
  <<table, change, changes, clearing, registry, index, lemmas, load, work, refs,
    remembered, recalled, listed, past, raced>>

SourcesOf(t) == {t[i].source : i \in DOMAIN t}
Modes == {"llm", "morphology", "hybrid"}

ReferencesInit ==
  /\ table \in Tables
  /\ change = NotLoaded /\ changes = 0 /\ clearing = "none"
  /\ registry = NotLoaded /\ index = NotLoaded /\ lemmas = NotLoaded /\ load = NotLoaded
  /\ work = [stage |-> "idle"]
  /\ refs = {} /\ remembered = {} /\ recalled = {}
  /\ listed = {} /\ past = SourcesOf(table) /\ raced = FALSE

-----------------------------------------------------------------------------
(* Resolution *)

First(S) == CHOOSE i \in S : \A j \in S : i <= j
SourceAt(t, S) == IF S = {} THEN Nowhere ELSE t[First(S)].source

FamilyOf(info) == {info.family[k] : k \in DOMAIN info.family}
EntryOf(s) == {i \in DOMAIN index : index[i].source = s}
Relatives(name) == {i \in DOMAIN index : name \in FamilyOf(index[i])}

\* _resolve_by_article_range, of the entries S of t: article ranges are always
\* None, so what counts is the family of the current source, then the order.
Pick(t, S, current) ==
  LET kin == {i \in S : \E c \in EntryOf(current) :
                          FamilyOf(index[c]) \cap FamilyOf(t[i]) # {}}
  IN  SourceAt(t, IF kin # {} THEN kin ELSE S)

SecondaryCivilCode ==
  {i \in DOMAIN registry : registry[i].secondary /\ CivilCode \in registry[i].aliases}

ResolveByAlias(alias, current) ==
  LET exact == {i \in DOMAIN registry : alias \in registry[i].aliases}
      civil == {i \in DOMAIN registry : registry[i].name = CivilCode}
  IN  IF alias \in CivilAliases
      THEN SourceAt(registry, IF SecondaryCivilCode # {} THEN SecondaryCivilCode ELSE civil)
      ELSE IF exact # {} THEN Pick(registry, exact, current)
           ELSE Pick(index, Relatives(alias), current)

\* The first of the family in the index, which is the current source only
\* if no other part of it was indexed later.
ResolveSameDoc(current) ==
  IF NameOf[current] \in CivilAliases
  THEN IF SecondaryCivilCode # {} THEN SourceAt(registry, SecondaryCivilCode) ELSE current
  ELSE IF EntryOf(current) = {} THEN current
       ELSE LET info == index[First(EntryOf(current))]
            IN  IF info.family = << >> THEN current
                ELSE SourceAt(index, Relatives(info.family[1]))

\* _normalize_reference: a source and an article, or no reference.
Normalized(pairs) == {p \in pairs : p.source # Nowhere /\ p.article # Nowhere}
Ref(s, a) == [source |-> s, article |-> a]

-----------------------------------------------------------------------------
(* The passes *)

SameDoc(x, current) ==
  LET found == x.near \cup (IF current \in CodeSources THEN x.points ELSE {})
                      \cup (IF x.marker THEN x.numbers ELSE {})
  IN  {Ref(ResolveSameDoc(current), a) : a \in found}

AllAliases == UNION {e.aliases \cup FamilyOf(e) : e \in {registry[i] : i \in DOMAIN registry}}

External(x, current) ==
  {Ref(ResolveByAlias(m.alias, current), m.article) :
     m \in {n \in x.mentions : n.alias \in AllAliases}}

RuleBased(x, current) == Normalized(SameDoc(x, current) \cup External(x, current))

SameDocMorphology(x, current) ==
  {Ref(ResolveSameDoc(current), a) : a \in UNION {w.numbers : w \in {v \in x.windows : v.marker}}}

\* Every source of the cached aliases that a window names, with the first
\* article of the window; a name that is not resolved stands for itself.
ExternalMorphology(x, current) ==
  {Ref(LET s == ResolveByAlias(n[1].name, current) IN IF s = Nowhere THEN n[1].source ELSE s,
       n[2].first) :
     n \in {p \in {lemmas[i] : i \in DOMAIN lemmas} \X x.windows :
              (p[1].aliases \cup FamilyOf(p[1])) \cap p[2].aliases # {}}}

Morphology(x, current) ==
  Normalized(SameDocMorphology(x, current) \cup ExternalMorphology(x, current))

ModelItems == {e.name : e \in Infos} \cup UNION {FamilyOf(e) : e \in Infos} \cup {Nowhere}

\* The model names anything; a source that is not known is dropped.  Mutant:
\* it is kept as it was written.
Coerced_KeepsUnknown(current) ==
  {Normalized({Ref(IF ResolveByAlias(n, current) = Nowhere THEN n ELSE ResolveByAlias(n, current), a)}) :
     n \in ModelItems, a \in ArticleNumbers \cup {Nowhere}}

Coerced(current) ==
  {Normalized({Ref(ResolveByAlias(n, current), a)}) :
     n \in ModelItems, a \in ArticleNumbers \cup {Nowhere}}

WithoutSelf(found) == found \ {Ref(work.source, work.article)}

-----------------------------------------------------------------------------
(* The worker thread *)

admin == <<table, change, changes, clearing, past>>
caches == <<registry, index, lemmas, load>>

TakeChunk ==
  /\ work.stage \in {"idle", "done"}
  /\ \E x \in Passages, s \in Uploads, a \in ArticleNumbers, m \in Modes :
       work' = [stage |-> "rules", text |-> x, source |-> s, article |-> a, mode |-> m]
  /\ refs' = {} /\ recalled' = {}
  /\ listed' = SourcesOf(table)
  /\ UNCHANGED <<admin, caches, remembered, raced>>

\* The next pass of the mode.
AfterRules == IF work.mode = "llm" THEN "model" ELSE "morphology"
AfterMorphology == IF work.mode = "morphology" THEN "done" ELSE "model"

\* A cache that is empty is filled first; the table is read, and the index
\* or the aliases are made, before the result is stored.
Missing == CASE registry = NotLoaded -> "registry"
             [] registry # NotLoaded /\ index = NotLoaded -> "index"
             [] OTHER -> IF work.stage = "morphology" /\ lemmas = NotLoaded THEN "lemmas"
                         ELSE "nothing"

\* Without the database the registry is empty, and that is kept like a result.
Unreadable == << >>

ReadSources ==
  /\ work.stage \in {"rules", "morphology", "model"} /\ load = NotLoaded
  /\ \/ /\ Missing = "registry"
        /\ \E value \in {table, Unreadable} : load' = [cache |-> "registry", value |-> value]
     \/ Missing \in {"index", "lemmas"} /\ load' = [cache |-> Missing, value |-> registry]
  /\ raced' = (raced \/ change # NotLoaded)
  /\ UNCHANGED <<admin, registry, index, lemmas, work, refs, remembered, recalled, listed>>

StoreCache ==
  /\ load # NotLoaded
  /\ registry' = IF load.cache = "registry" THEN load.value ELSE registry
  /\ index' = IF load.cache = "index" THEN load.value ELSE index
  /\ lemmas' = IF load.cache = "lemmas" THEN load.value ELSE lemmas
  /\ load' = NotLoaded
  /\ UNCHANGED <<admin, work, refs, remembered, recalled, listed, raced>>

Ready(stage) == work.stage = stage /\ load = NotLoaded /\ Missing = "nothing"

\* The last pass leaves out references to the article itself.
Found(found, next) ==
  /\ refs' = IF next = "done" THEN WithoutSelf(refs \cup found) ELSE refs \cup found
  /\ work' = [work EXCEPT !.stage = next]
  /\ UNCHANGED <<admin, caches, listed, raced>>

RulesPass ==
  /\ Ready("rules")
  /\ Found(RuleBased(work.text, work.source), AfterRules)
  /\ UNCHANGED <<remembered, recalled>>

MorphologyPass ==
  /\ Ready("morphology")
  /\ Found(Morphology(work.text, work.source), AfterMorphology)
  /\ UNCHANGED <<remembered, recalled>>

Recalled(x, s) == {r \in remembered : r.text = x /\ r.source = s}

\* A full cache makes room by forgetting one answer.
Kept(S) == IF Cardinality(S) < MemorySize THEN {S} ELSE {S \ {r} : r \in S}

\* A text the model was asked about before is not asked about again.
RecallModel ==
  /\ Ready("model")
  /\ \E r \in Recalled(work.text, work.source) : Found(r.refs, "done") /\ recalled' = r.refs
  /\ UNCHANGED remembered

ModelAnswers ==
  /\ Ready("model") /\ Recalled(work.text, work.source) = {}
  /\ \E c \in Coerced(work.source) :
       /\ Found(c, "done")
       /\ \E kept \in Kept(remembered) :
            remembered' = kept \cup {[text |-> work.text, source |-> work.source, refs |-> c]}
  /\ UNCHANGED recalled

\* Both calls fail: what the passes before found is kept.
ModelFails ==
  /\ Ready("model") /\ Recalled(work.text, work.source) = {}
  /\ Found({}, "done")
  /\ UNCHANGED <<remembered, recalled>>

-----------------------------------------------------------------------------
(* The event loop: an indexing job ends, or a source is deleted *)

\* The first cache is cleared with the row flushed, the others follow.
FlushChange ==
  /\ change = NotLoaded /\ changes < MaxChanges
  /\ \E t \in Tables \ {table} : change' = t
  /\ changes' = changes + 1
  /\ registry' = NotLoaded /\ clearing' = "index"
  /\ raced' = (raced \/ load # NotLoaded)
  /\ UNCHANGED <<table, past, index, lemmas, load, work, refs, remembered, recalled, listed>>

ClearNext ==
  /\ \/ clearing = "index" /\ index' = NotLoaded /\ clearing' = "lemmas" /\ UNCHANGED lemmas
     \/ clearing = "lemmas" /\ lemmas' = NotLoaded /\ clearing' = "none" /\ UNCHANGED index
  /\ UNCHANGED <<table, change, changes, past, registry, load, work, refs, remembered,
                 recalled, listed, raced>>

CommitChange ==
  /\ change # NotLoaded /\ clearing = "none"
  /\ table' = change /\ change' = NotLoaded
  /\ listed' = listed \cup SourcesOf(change)
  /\ past' = past \cup SourcesOf(change)
  /\ UNCHANGED <<changes, clearing, caches, work, refs, remembered, recalled, raced>>

ReferencesNext ==
  \/ TakeChunk \/ ReadSources \/ StoreCache
  \/ RulesPass \/ MorphologyPass \/ RecallModel \/ ModelAnswers \/ ModelFails
  \/ FlushChange \/ ClearNext \/ CommitChange

ReferencesSpec == ReferencesInit /\ [][ReferencesNext]_referenceVars

-----------------------------------------------------------------------------
(* Properties *)

SourceFamily(s) == UNION {FamilyOf(e) : e \in {i \in Infos : i.source = s}}

\* The source has no other part, and is not the civil code.
Sole(s) ==
  /\ NameOf[s] \notin CivilAliases
  /\ \A o \in listed \ {s} : SourceFamily(o) \cap SourceFamily(s) = {}

NamesItselfOnly(x) == x.mentions = {} /\ \A w \in x.windows : w.aliases = {}

\* The references of a chunk never include the chunk's own article.  Unless a
\* cache was loaded while a source changed, they lead to the source itself or
\* to sources that were in the table while the chunk was worked on, those of
\* the model too; an answer that was remembered from an earlier chunk leads to
\* sources that the table has once had.  "This code" is the source itself when
\* the source has a single part.
ReferencesResolve ==
  work.stage = "done" =>
    /\ Ref(work.source, work.article) \notin refs
    /\ ~raced => \A r \in refs :
         \/ r.source \in {work.source} \cup listed
         \/ r \in recalled /\ r.source \in past
    /\ ~raced /\ work.mode = "morphology" /\ Sole(work.source) /\ NamesItselfOnly(work.text) =>
         \A r \in refs : r.source = work.source
=============================================================================
