----------------------------- MODULE ModelMemory -----------------------------
(***************************************************************************)
(* The models that the runs of the agent share (app/agent/nodes.py,        *)
(* app/rag/retriever.py, app/rag/embedding_provider.py, app/rag/ollama.py):*)
(* the language model, which Ollama keeps, and the embedding model and the *)
(* reranker, which are objects of the process in two lru_caches.  In the   *)
(* memory_swap_mode the language model is unloaded after every call and    *)
(* before every search, and the embedding model is dropped after every     *)
(* search.                                                                 *)
(*                                                                         *)
(* The runs of several cases are threads of one process, and no lock joins *)
(* the steps of one with those of another: two threads may load the same   *)
(* model, and a thread may drop the copy another one is about to use.      *)
(***************************************************************************)
EXTENDS Integers, FiniteSets

CONSTANTS
  Workers,    \* the threads in which the runs of the agent execute
  Copies,     \* the embedding models a process may load, one after the other
  Preloaded,  \* the one that preload_startup_models loads
  NoCopy

ASSUME ModelMemoryAssumption ==
  /\ IsFiniteSet(Workers) /\ IsFiniteSet(Copies)
  /\ NoCopy \notin Copies /\ Preloaded \notin Copies \cup {NoCopy}
  /\ Cardinality(Copies) >= Cardinality(Workers) + 1

VARIABLES
  swap,       \* settings.memory_swap_mode
  embedder,   \* the cache of get_embedding_provider
  reranker,   \* the cache of _reranker
  llm,        \* Ollama holds the language model
  kept,       \* history: the latest unloading has failed, or none was made
  worker      \* worker[t]: its step, the copy it holds, and if it is in a search

memoryVars == <<swap, embedder, reranker, llm, kept, worker>>

Steps == {"idle", "asking", "asked", "searching", "loading", "encoding", "ranking",
          "loading reranker", "releasing"}
Rerankers == {"unknown", "requested device", "cpu", "off"}

\* A failure to preload is logged.
PreloadOutcomes == {NoCopy, Preloaded}

ModelMemoryInit ==
  /\ swap \in BOOLEAN
  /\ embedder \in PreloadOutcomes
  /\ reranker = "unknown"
  /\ llm \in BOOLEAN /\ kept = llm
  /\ worker = [t \in Workers |-> [step |-> "idle", copy |-> NoCopy, searches |-> FALSE]]

Alive == ({embedder} \cup {worker[t].copy : t \in Workers}) \ {NoCopy}
GoOn(t, step) == worker' = [worker EXCEPT ![t].step = step, ![t].copy = NoCopy]
Leaves(t) == worker' = [worker EXCEPT ![t] = [step |-> "idle", copy |-> NoCopy, searches |-> FALSE]]

-----------------------------------------------------------------------------
(* Calls of the language model *)

\* unload_ollama_model: the error of a failed request is logged; a model that
\* answers another request stays until that one's own unloading.
Unload(t) ==
  \/ kept' = TRUE /\ UNCHANGED llm
  \/ /\ IF \E u \in Workers \ {t} : worker[u].step = "asking"
        THEN UNCHANGED <<llm, kept>>
        ELSE llm' = FALSE /\ kept' = FALSE

AskModel(t) ==
  /\ worker[t].step = "idle"
  /\ llm' = TRUE
  /\ GoOn(t, "asking")
  /\ UNCHANGED <<swap, embedder, reranker, kept>>

\* The call returns or raises.
CallEnds(t) ==
  /\ worker[t].step = "asking"
  /\ IF swap THEN GoOn(t, "asked") ELSE Leaves(t)
  /\ UNCHANGED <<swap, embedder, reranker, llm, kept>>

UnloadAfterCall(t) ==
  /\ worker[t].step = "asked"
  /\ Unload(t)
  /\ Leaves(t)
  /\ UNCHANGED <<swap, embedder, reranker>>

-----------------------------------------------------------------------------
(* Searches: memory is prepared, the query embedded, the hits ranked, memory *)
(* released whatever has happened                                            *)

PrepareMemory(t) == IF swap THEN Unload(t) ELSE UNCHANGED <<llm, kept>>

StartSearch(t) ==
  /\ worker[t].step = "idle"
  /\ PrepareMemory(t)
  /\ worker' = [worker EXCEPT ![t] = [step |-> "searching", copy |-> NoCopy, searches |-> TRUE]]
  /\ UNCHANGED <<swap, embedder, reranker>>

GetEmbedder(t) ==
  /\ worker[t].step = "searching"
  /\ worker' = [worker EXCEPT ![t].step = IF embedder = NoCopy THEN "loading" ELSE "encoding",
                        ![t].copy = embedder]
  /\ UNCHANGED <<swap, embedder, reranker, llm, kept>>

\* A copy that was loaded meanwhile stays in the cache; the thread uses its own.
LoadEmbedder(t) ==
  /\ worker[t].step = "loading"
  /\ \E c \in Copies \ Alive :
       /\ worker' = [worker EXCEPT ![t].step = "encoding", ![t].copy = c]
       /\ embedder' = IF embedder = NoCopy THEN c ELSE embedder
  /\ UNCHANGED <<swap, reranker, llm, kept>>

\* The query is embedded and the collection searched; only some of the
\* searches rank what they find.
Encode(t) ==
  /\ worker[t].step = "encoding"
  /\ GoOn(t, "ranking") \/ GoOn(t, "releasing")
  /\ UNCHANGED <<swap, embedder, reranker, llm, kept>>

\* Mutant: nothing is released after an error.
SearchFails_NoFinally(t) ==
  /\ worker[t].searches
  /\ worker[t].step \in {"loading", "encoding", "ranking", "loading reranker"}
  /\ Leaves(t)
  /\ UNCHANGED <<swap, embedder, reranker, llm, kept>>

\* The model cannot be loaded, the store cannot be reached, the ranking raises.
SearchFails(t) ==
  /\ worker[t].searches
  /\ worker[t].step \in {"loading", "encoding", "ranking", "loading reranker"}
  /\ GoOn(t, "releasing")
  /\ UNCHANGED <<swap, embedder, reranker, llm, kept>>

ReleaseMemory(t) ==
  /\ worker[t].step = "releasing"
  /\ embedder' = IF swap THEN NoCopy ELSE embedder
  /\ Leaves(t)
  /\ UNCHANGED <<swap, reranker, llm, kept>>

-----------------------------------------------------------------------------
(* The reranker, which is never released *)

\* rerank_chunks: a ranking without a search.
RankOnly(t) ==
  /\ worker[t].step = "idle"
  /\ GoOn(t, "ranking")
  /\ UNCHANGED <<swap, embedder, reranker, llm, kept>>

RankingEnds(t) == IF worker[t].searches THEN GoOn(t, "releasing") ELSE Leaves(t)

Rank(t) ==
  /\ worker[t].step = "ranking"
  /\ IF reranker = "unknown" THEN GoOn(t, "loading reranker") ELSE RankingEnds(t)
  /\ UNCHANGED <<swap, embedder, reranker, llm, kept>>

\* A failure to load turns ranking off for the life of the process, unless the
\* CPU serves instead; a thread that finds the cache filled uses its own.
LoadReranker(t) ==
  /\ worker[t].step = "loading reranker"
  /\ reranker' \in IF reranker = "unknown" THEN Rerankers \ {"unknown"} ELSE {reranker}
  /\ RankingEnds(t)
  /\ UNCHANGED <<swap, embedder, llm, kept>>

\* Outside a search nothing catches the error, and the run ends.
RankOnlyFails(t) ==
  /\ ~worker[t].searches /\ worker[t].step \in {"ranking", "loading reranker"}
  /\ Leaves(t)
  /\ UNCHANGED <<swap, embedder, reranker, llm, kept>>

MemoryStep(t) ==
  \/ AskModel(t) \/ CallEnds(t) \/ UnloadAfterCall(t)
  \/ StartSearch(t) \/ GetEmbedder(t) \/ LoadEmbedder(t) \/ Encode(t)
  \/ SearchFails(t) \/ ReleaseMemory(t)
  \/ RankOnly(t) \/ Rank(t) \/ LoadReranker(t) \/ RankOnlyFails(t)

ModelMemoryNext == \E t \in Workers : MemoryStep(t)

ModelMemorySpec == ModelMemoryInit /\ [][ModelMemoryNext]_memoryVars

-----------------------------------------------------------------------------
(* Properties *)

ModelMemoryTypeOK ==
  /\ swap \in BOOLEAN /\ llm \in BOOLEAN /\ kept \in BOOLEAN
  /\ embedder \in Copies \cup {Preloaded, NoCopy}
  /\ reranker \in Rerankers
  /\ worker \in [Workers -> [step : Steps, copy : Copies \cup {Preloaded, NoCopy},
                       searches : BOOLEAN]]

\* In the swap mode the memory follows the work, although threads load the
\* same model twice and drop each other's copies: apart from the copy that the
\* start preloads, of which nothing is claimed, there are never more copies of
\* the embedding model than searches, so none is left when no search is under
\* way, whatever has failed; and the language model is loaded only for a call,
\* unless an unloading has failed.
MemoryFollowsWork ==
  swap =>
    /\ Cardinality(Alive \ {Preloaded}) <= Cardinality({t \in Workers : worker[t].searches})
    /\ llm /\ ~kept => \E t \in Workers : worker[t].step \in {"asking", "asked"}
=============================================================================
