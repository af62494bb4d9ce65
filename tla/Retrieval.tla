------------------------------ MODULE Retrieval ------------------------------
(***************************************************************************)
(* How the node retrieve_norms gathers the norms of a deal                 *)
(* (app/agent/nodes.py) with the searches of app/rag/retriever.py: the     *)
(* classic path and, when retrieval_iterative_enabled, the iterative one,  *)
(* in which a planner proposes queries and a judge approves what they      *)
(* find.                                                                   *)
(*                                                                         *)
(* A chunk is what _chunk_unique_key and _fallback_chunk_key identify; a   *)
(* search of a collection returns points, and two points may hold the same *)
(* chunk.  Vectors and scores are left out: a search, and a ranking, picks *)
(* any points up to its limit.  Every call of a model that fails or        *)
(* answers out of turn counts as the fallback the code gives it.  The      *)
(* searches that classify_deal makes to settle the type come first.        *)
(***************************************************************************)
EXTENDS Integers, FiniteSets

CONSTANTS
  Primal, Secondary,  \* points of the two collections
  ChunkOf,            \* the chunk a point holds
  NoId,               \* chunks without a chunk_id
  Cites,              \* Cites[c]: the references of chunk c
  Matches,            \* Matches[r]: points of Secondary that reference r names
  CapOf,              \* CapOf[r]: how many of them are fetched
  Queries, NoQuery,
  TargetArticles, MaxQueries, TopK,   \* retrieval_iterative_*
  ExpandedTopK,                       \* retrieval_specific_expanded_top_k
  MaxItems, SecondaryTopK,            \* of the vague-reference enrichment
  CandidateTopK, PrimaryTopK,         \* of the classic path
  MaxHops, HopCap,                    \* retrieval_reference_max_hops, _hop_chunk_cap
  BatchSize,                          \* retrieval_filter_batch_size
  AssistQueries                       \* classify_rag_assist_max_queries

Chunks == {ChunkOf[p] : p \in Primal \cup Secondary}

ASSUME RetrievalAssumption ==
  /\ IsFiniteSet(Primal) /\ IsFiniteSet(Secondary)
  /\ Primal \cap (Secondary \cup Chunks) = {}
  /\ Cites \in [Chunks -> SUBSET DOMAIN Matches]
  /\ Matches \in [DOMAIN Matches -> SUBSET Secondary]
  /\ CapOf \in [DOMAIN Matches -> Nat]
  /\ NoQuery \notin Queries
  /\ \A n \in {TargetArticles, MaxQueries, TopK} : n \in Nat \ {0}
  /\ \A n \in {ExpandedTopK, MaxItems, AssistQueries, SecondaryTopK, CandidateTopK,
               PrimaryTopK, MaxHops, HopCap, BatchSize} : n \in Nat

VARIABLES
  phase,
  query,      \* current_query
  asked,      \* query_history
  fresh,      \* the candidates of this query that were not seen before
  seen,       \* seen_candidate_keys
  approved,   \* the chunks the judge approved
  norms,      \* the union that is ranked, then what the node returns
  turn,       \* attempts of the loop, hops, or items of the enrichment
  judged,     \* history: chunks handed to the judge
  chosen,     \* history: chunks that an answer of the judge kept
  found,      \* history: chunks that came from a search and no judge saw
  cited       \* history: chunks fetched for a reference

verdicts == <<judged, chosen>>
retrievalVars ==
  <<phase, query, asked, fresh, seen, approved, norms, turn, verdicts, found, cited>>

Least(m, n) == IF m < n THEN m ELSE n
Greatest(m, n) == IF m > n THEN m ELSE n

\* The ways to take the first n of S in an order that is left open.
Top(S, n) == {T \in SUBSET S : Cardinality(T) = Least(n, Cardinality(S))}
Held(points) == {ChunkOf[p] : p \in points}

\* A norm of the classic path is a point of Primal or a fetched chunk.
Key(n) == IF n \in Primal THEN ChunkOf[n] ELSE n
Keys(S) == {Key(n) : n \in S}

\* What _fetch_reference_chunks returns for the references of the chunks S.
Fetched(S) ==
  LET named == UNION {Cites[c] : c \in S}
  IN  {Held(UNION {f[r] : r \in named}) :
         f \in {g \in [named -> SUBSET Secondary] :
                  \A r \in named : g[r] \in Top(Matches[r], CapOf[r])}}

RetrievalInit ==
  /\ phase = "assist"
  /\ query \in Queries \cup {NoQuery}
  /\ asked = {} /\ fresh = {} /\ seen = {} /\ approved = {} /\ norms = {}
  /\ turn = 0 /\ judged = {} /\ chosen = {} /\ found = {} /\ cited = {}

-----------------------------------------------------------------------------
(* The RAG assist of classify_deal: what it finds stays in its prompts *)

AssistSearch ==
  /\ phase = "assist" /\ turn < AssistQueries
  /\ \E q \in Queries \ asked : asked' = asked \cup {q}
  /\ turn' = turn + 1
  /\ UNCHANGED <<phase, query, fresh, seen, approved, norms, verdicts, found, cited>>

\* It is finished, has nothing new to ask, may ask no more, or is turned off.
AssistEnds ==
  /\ phase = "assist"
  /\ phase' \in {"loop", "search"}
  /\ asked' = {} /\ turn' = 0
  /\ UNCHANGED <<query, fresh, seen, approved, norms, verdicts, found, cited>>

-----------------------------------------------------------------------------
(* The iterative path: queries are planned and their results judged *)

GoesOn ==
  /\ turn < MaxQueries
  /\ Cardinality(approved) < TargetArticles
  /\ query # NoQuery /\ query \notin asked

IterativeSearch ==
  /\ phase = "loop" /\ GoesOn
  /\ \E points \in Top(Primal, TopK) : fresh' = Held(points) \ seen
  /\ seen' = seen \cup fresh'
  /\ asked' = asked \cup {query}
  /\ turn' = turn + 1
  /\ phase' = IF fresh' = {} THEN "plan" ELSE "judge"
  /\ UNCHANGED <<query, approved, norms, verdicts, found, cited>>

StopLoop ==
  /\ phase = "loop" /\ ~GoesOn
  /\ phase' = "expand"
  /\ UNCHANGED <<query, asked, fresh, seen, approved, norms, turn, verdicts, found, cited>>

\* The judge keeps some of the candidates that have an id; what it keeps
\* beyond the target is cut off.
Judge ==
  /\ phase = "judge"
  /\ \E kept \in SUBSET (fresh \ NoId) :
       /\ chosen' = chosen \cup kept
       /\ \E cut \in Top(kept, TargetArticles - Cardinality(approved)) : approved' = approved \cup cut
  /\ judged' = judged \cup fresh
  /\ fresh' = {}
  /\ phase' = IF Cardinality(approved') >= TargetArticles THEN "expand" ELSE "plan"
  /\ UNCHANGED <<query, asked, seen, norms, turn, found, cited>>

\* Mutant: the judge is as lenient as the filter of the classic path.
JudgeFails_KeepsAll ==
  /\ phase = "judge"
  /\ \E cut \in Top(fresh \ NoId, TargetArticles - Cardinality(approved)) : approved' = approved \cup cut
  /\ judged' = judged \cup fresh
  /\ fresh' = {}
  /\ phase' = IF Cardinality(approved') >= TargetArticles THEN "expand" ELSE "plan"
  /\ UNCHANGED <<query, asked, seen, norms, turn, chosen, found, cited>>

\* The call fails, or its answer is no list: none is kept, and none is judged
\* a second time.
JudgeFails ==
  /\ phase = "judge"
  /\ judged' = judged \cup fresh
  /\ fresh' = {}
  /\ phase' = "plan"
  /\ UNCHANGED <<query, asked, seen, approved, norms, turn, chosen, found, cited>>

PlanQuery ==
  /\ phase = "plan"
  /\ query' \in Queries
  /\ phase' = "loop"
  /\ UNCHANGED <<asked, fresh, seen, approved, norms, turn, verdicts, found, cited>>

PlannerFinishes ==
  /\ phase = "plan"
  /\ phase' = "expand"
  /\ UNCHANGED <<query, asked, fresh, seen, approved, norms, turn, verdicts, found, cited>>

\* The references of the approved norms are fetched, all of them are ranked
\* together.
Expand ==
  /\ phase = "expand" /\ approved # {}
  /\ \E refs \in Fetched(approved) :
       /\ cited' = refs
       /\ norms' \in Top(approved \cup refs, Greatest(TargetArticles, ExpandedTopK))
  /\ phase' = "enrich" /\ turn' = 0
  /\ UNCHANGED <<query, asked, fresh, seen, approved, verdicts, found>>

NothingApproved ==
  /\ phase = "expand" /\ approved = {}
  /\ phase' = "done"
  /\ UNCHANGED <<query, asked, fresh, seen, approved, norms, turn, verdicts, found, cited>>

SecondarySearch == Top(Secondary, SecondaryTopK)

\* One vague reference that was detected in the norms is searched for.
Enrich ==
  /\ phase = "enrich" /\ turn < MaxItems /\ norms # {}
  /\ \E points \in SecondarySearch :
       /\ found' = found \cup Held(points)
       /\ norms' = norms \cup Held(points)
  /\ turn' = turn + 1
  /\ UNCHANGED <<phase, query, asked, fresh, seen, approved, verdicts, cited>>

EnrichmentEnds ==
  /\ phase = "enrich"
  /\ phase' = "done"
  /\ UNCHANGED <<query, asked, fresh, seen, approved, norms, turn, verdicts, found, cited>>

-----------------------------------------------------------------------------
(* The classic path: search, expansion by references, ranking, filter *)

\* candidate_top_k, unless it is 0.
Candidates == IF CandidateTopK = 0 THEN PrimaryTopK ELSE CandidateTopK

SearchSpecific ==
  /\ phase = "search"
  /\ \E points \in Top(Primal, Candidates) :
     \E ranked \in Top(points, PrimaryTopK) :
       /\ norms' = ranked /\ fresh' = ranked
       /\ found' = Held(ranked)
  /\ phase' = "hop"
  /\ UNCHANGED <<query, asked, seen, approved, turn, verdicts, cited>>

\* The chunks that the last ones refer to, up to the cap, are the next ones.
Hop ==
  /\ phase = "hop" /\ turn < MaxHops /\ fresh # {}
  /\ \E refs \in Fetched(Keys(fresh)) : fresh' \in Top(refs \ Keys(norms), HopCap)
  /\ norms' = norms \cup fresh'
  /\ cited' = cited \cup fresh'
  /\ turn' = turn + 1
  /\ UNCHANGED <<phase, query, asked, seen, approved, verdicts, found>>

\* All are ranked together, and filtered unless the filter is turned off.
JointRerank ==
  /\ phase = "hop" /\ (turn = MaxHops \/ fresh = {})
  /\ norms' \in Top(norms, Greatest(PrimaryTopK, ExpandedTopK))
  /\ fresh' = {n \in norms' : Key(n) \notin NoId}
  /\ phase' \in {"filter", "done"}
  /\ UNCHANGED <<query, asked, seen, approved, turn, verdicts, found, cited>>

\* The filter keeps some of every batch, or all of it when the answer of the
\* model is of no use: never nothing.
FilterBatch ==
  /\ phase = "filter" /\ fresh # {}
  /\ \E batch \in Top(fresh, IF BatchSize = 0 THEN Cardinality(fresh) ELSE BatchSize) :
       /\ \E kept \in SUBSET Keys(batch) \ {{}} : approved' = approved \cup kept
       /\ fresh' = fresh \ batch
  /\ UNCHANGED <<phase, query, asked, seen, norms, turn, verdicts, found, cited>>

\* Only norms with an id are kept, unless none has one.
FilterEnds ==
  /\ phase = "filter" /\ fresh = {}
  /\ norms' = IF approved = {} THEN norms ELSE {n \in norms : Key(n) \in approved}
  /\ phase' = "done"
  /\ UNCHANGED <<query, asked, fresh, seen, approved, turn, verdicts, found, cited>>

RetrievalNext ==
  \/ AssistSearch \/ AssistEnds
  \/ IterativeSearch \/ StopLoop \/ Judge \/ JudgeFails \/ PlanQuery \/ PlannerFinishes
  \/ Expand \/ NothingApproved \/ Enrich \/ EnrichmentEnds
  \/ SearchSpecific \/ Hop \/ JointRerank \/ FilterBatch \/ FilterEnds

RetrievalSpec == RetrievalInit /\ [][RetrievalNext]_retrievalVars

-----------------------------------------------------------------------------
(* Properties *)

Linked(S) == S \cup Held(UNION {Matches[r] : r \in UNION {Cites[c] : c \in S}})

\* Within[h]: the chunks at most h citations away from a found one.
Within[h \in 0 .. MaxHops] == IF h = 0 THEN found ELSE Linked(Within[h - 1])

\* The iterative path returns norms that an answer of the judge kept, that one
\* of these cites or that the enrichment found, never more than the settings
\* allow and nothing when nothing was approved; no query is asked again, and no
\* chunk is handed to the judge again, kept, rejected or lost with a call that
\* failed.  The classic path returns something whenever it
\* found something, and nothing that is more than MaxHops citations away.
NormsTraceable ==
  /\ phase = "assist" => Cardinality(asked) = turn /\ turn <= AssistQueries
  /\ phase \in {"loop", "plan", "judge"} =>
       /\ Cardinality(asked) = turn /\ turn <= MaxQueries
       /\ approved \subseteq chosen \ (fresh \cup NoId)
       /\ fresh \cap judged = {}
  /\ phase # "assist" /\ asked # {} => Cardinality(approved) <= TargetArticles
  /\ phase \in {"enrich", "done"} /\ asked # {} =>
       /\ norms \subseteq approved \cup cited \cup found
       /\ approved \subseteq chosen
       /\ cited \subseteq Linked(approved)
       /\ approved = {} => norms = {}
       /\ Cardinality(norms) <=
            Greatest(TargetArticles, ExpandedTopK) + MaxItems * SecondaryTopK
  /\ phase = "done" /\ asked = {} =>
       /\ Keys(norms) \subseteq Within[MaxHops]
       /\ norms = {} => found = {}
       /\ Cardinality(norms) <= Greatest(PrimaryTopK, ExpandedTopK)
=============================================================================
