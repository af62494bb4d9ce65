# Verification of PactumAI

TLA+ models of the PactumAI back end, the TLC runs that check them on small
instances, and TLAPS proofs about them for every instance. Paths below are
relative to `src/`.

## 1. The system

PactumAI drafts Russian civil-law contracts in a chat. It is a FastAPI process
(`app/server.py`, one uvicorn worker, so one event loop), a LangGraph server in
another container that runs the contract agent (`app/agent`), PostgreSQL, an
S3 store (MinIO), a vector store (Qdrant) and language models behind Ollama or a
cloud API. Containers are restarted when they die (`restart: unless-stopped`).

Two facts decide what can interleave.

* `async def` handlers and background tasks share the event loop and are
  interrupted only at an `await`. Database calls are synchronous and block the
  loop: a piece of a coroutine between two awaits is atomic for the others.
* Plain `def` routes (most of the admin panel, lists, preferences) run in worker
  threads, and the LangGraph server is another process on the same database: both
  can act between any two transactions of a coroutine.

### Components

| Component | State | Operations | Talks to | Status |
|---|---|---|---|---|
| Billing (`app/billing`, plans in `app/admin/crud.py`) | `payment_intents`, `user_subscriptions`, `subscription_plans` | checkout, webhook, mark, `apply_purchase`, plan editing, seeding | YooKassa by HTTP and webhook | modelled: `Billing` |
| Case chat (`app/cases`) | `cases`, `messages`, the locks per case, tasks, runs | post a turn, background task, watchdog, clean-up | LangGraph server by HTTP; users by WebSocket | modelled: `CaseChat` |
| Contract agent (`app/agent`) | the state of the thread of a case, `contract_versions`, `cases.status` | 17 nodes, their routes, fresh and resumed runs | language models, Qdrant, S3, PostgreSQL | modelled: `AgentGraph` |
| NPA sources (`app/admin/tasks.py`, `app/rag/indexer.py`) | `npa_sources`, objects, points of three collections, job lock, live progress | upload, index, delete, snapshot, reset at start | Qdrant, S3, admins by WebSocket | modelled: `NpaJobs` |
| Generation quota (`app/billing/service.py`, `app/cases/routes.py`) | cases of the month, plan, subscription | `enforce_create_case`, two routes that create cases | case chat | modelled: `Quota` |
| Versions of a contract (`save_result`, `app/db/crud.py`, `app/cases/docx_paths.py`) | `contract_versions`, files, objects | render, upload, insert, download | agent, S3 | modelled in part: `Versions` |
| Retrieval of norms (`app/rag/retriever.py`, nodes of `app/agent/nodes.py`) | none between calls | classic and iterative search, filter by batches, expansion of references, enrichment | Qdrant, language models | modelled in part: `Retrieval` |
| References and registry (`app/rag/chunker.py`, `app/rag/source_registry.py`) | caches of `npa_sources` and of the model's answers | extract, resolve, clear | admin routes, agent | modelled in part: `References` |
| Chunker and splitter (`app/rag/chunker.py`, `app/rag/indexer.py`) | none | cut statutes into chunks, chunks into pieces | indexing jobs | modelled in part: `Chunker`, `EmbedSplit` |
| Models in memory (`app/rag/embedding_provider.py`, `app/rag/retriever.py`, `app/rag/ollama.py`) | two `lru_cache`s, what Ollama holds | load, use, unload | agent, retrieval | modelled: `ModelMemory` |
| Deal types (`app/agent/deal_types.py`) | an object in S3, one copy per process | read, replace, invalidate | admin routes, agent | modelled: `DealTypes` |
| Accounts (`app/auth/routes.py`, `app/db/crud.py`) | `users` | sign-in through Google or Yandex, seed account | OAuth providers | modelled: `Accounts` |
| Preferences (`app/preferences`) | `user_preferences` | read, save, reset at start | - | modelled: `Preferences` |
| Sessions, admin accounts (`app/admin/auth.py`, `app/auth`) | the session cookie, `admin_users` | sign in, sign out, guards, theme, create and delete admins | every route | modelled in part: `Sessions` |
| Live channels (`app/realtime.py`, `app/admin/realtime.py`, `app/server.py`) | sockets per recipient, snapshot of jobs | register, remove, broadcast, snapshot | all of the above, as sinks | modelled: `Feed` |
| Migrations (`app/db/migrate.py`) | schema | start-up | - | the data parts are in the models |
| Prompts, settings, DOCX layout, front end, scripts, notebooks | - | text, layout, browser, offline measurements | - | left out |

What makes each hard, and what must hold:

* **Billing.** Notifications are repeated, crossed and late; marking a payment and
  applying it are two transactions; an admin edits the catalogue from another
  thread between them; the process dies anywhere. A payment buys its period once,
  only if paid; periods of a user neither overlap nor leave holes nor shrink; an
  acknowledged payment is an applied one.
* **Case chat.** A task awaits the graph server many times; a run can outlive its
  watchdog, its task and the process. One open question per case; every question
  is closed; a closed one stays as it is; no turn shows another's text.
* **Agent.** A model decides at every node; runs are cut anywhere and leave a
  half-written thread to the next one. Loops end; no run gets past the checks; the
  reply says what was stored; contracts that need the written form are validated.
* **NPA jobs.** Jobs, deletions, failures and restarts meet over a row, an object, a
  collection and a dictionary in memory. A row that says INDEXING has a job;
  an index holds what the last job wrote; admins see the jobs that run.
* **Quota.** The check runs in a worker thread, the creation in the loop, and an admin
  edits the plan between them. The overshoot is bounded by the requests under way.
* **Versions.** Two reads of MAX + 1, no unique constraint, runs that outlive their
  turn, a save that fails between the file, the object and the row. A version saved
  alone keeps its number and its document for good.
* **Sessions.** The state is in the browser, and responses overtake each other. The id
  and the owner's flag of a session always belong together.
* **Caches and shared models.** Copies are filled, dropped and used by threads that
  share no lock. An answer is not older than the TTL; no model outlives its work.
* **Accounts, preferences, live channels.** Lookups in two columns, reads before
  writes, events that race a registration. A link never moves, a save changes its own
  fields only, a page that connects misses nothing.
* **Chunker, splitter, retrieval, references.** Long loops over boundaries, limits and
  fallbacks. No text is lost at a cut, every norm has a traceable origin, limits hold,
  a reference leads to a source that exists.

The hazards, each at its line and with the properties about it, are in
`PROJECT.json`.

## 2. The modules

| Module | What it is |
|---|---|
| `PaymentLedger` | abstract: a payment is settled once and credited at most once |
| `Billing` | checkout, webhook, purchases, catalogue, restart |
| `MCBilling` | instances |
| `BillingProofs` | 11 theorems |
| `Conversation` | abstract: questions of a case are answered one at a time, for good |
| `CaseChat`, `MCCaseChat` | a turn from the POST to the answer |
| `CaseChatProofs` | 7 theorems |
| `AgentGraph`, `MCAgentGraph` | the graph over the state of a thread |
| `AgentGraphProofs` | 8 theorems |
| `NpaJobs`, `MCNpaJobs` | uploads, indexing jobs, deletions, progress |
| `NpaJobsProofs` | 7 theorems |
| `Quota`, `Versions`, `Accounts`, `Preferences`, `Sessions`, `Feed`, `DealTypes`, `ModelMemory` | one part each of the back end that shares no state with the others |
| `MCServices` | an instance of each of these eight |
| `Chunker`, `EmbedSplit`, `References`, `Retrieval` | the four parts of the retrieval of norms |
| `MCRetrieval` | an instance of each of these four |
| `AccessProofs` | 7 theorems about `Accounts`, `Preferences` and `Sessions` |
| `CasesProofs` | 4 theorems about `Quota` and `Versions` |
| `CachesProofs` | 7 theorems about `DealTypes`, `ModelMemory` and `Feed` |
| `RetrievalProofs` | 4 theorems about `Chunker`, `EmbedSplit`, `References` and `Retrieval` |

A module's variables are the columns and process variables of the code, under
their names where TLA+ allows; history variables are marked `history`. Operators
called `X_Something`, under a comment `Mutant`, are faulty variants of `X` that no
specification uses: with one of them in place of `X`, the property named in
`PROJECT.json` fails.

### Billing

`plans`, `intents`, `subs` are the three tables. `loop` is the billing
handler the event loop is inside: its calls to the database and to YooKassa
block the loop, so there is one at most. Each transaction is one action:
`StartCheckout`, `PaymentCreated`, `LinkPayment`, `ConfirmPayment` (the
auto-confirm mode) for the checkout; `WebhookSucceeded` or `WebhookCanceled` and
then `ApplyPurchase` or `ApplyFails` for a notification. `Admin` acts between any
two of them. `provider` is YooKassa's record: a notification may come in any order
and any number of times once the payment has that verdict there. `Restart` drops
`loop` and seeds the catalogue.

Left out: prices, texts, the free plan (it cannot be bought, created or deleted
and has no duration), and the admission checks of the webhook.

`Ledger` in `Billing` is the refinement mapping to `PaymentLedger`: a payment is
credited when `apply_purchase` has committed for it, else settled or void by
the status of its intent, else open.

### Case chat

`msg[c][n]` is the status of the placeholder of turn `n` of case `c`; `pc` is where
its handler or task is; `lock` is `_case_locks`; `run`, `saved`, `thread` and
`pending` are the LangGraph side. One action is what a coroutine does from one
await to the next: `Post` (check and insert, no await between them), `Spawn`,
`Acquire`, `ReadState`, `PatchAnswer`, `StartRun`, `PollSuccess`, `Timeout`,
`Cancel`, `Fetch`, `MarkCaseError`, `Release`, each with its failure. `Fail` is the
`except` clause. The graph server runs the runs of a thread one after the other;
a cancelled run may still write `cases.status`, because the node that executes is
a thread that a cancellation does not stop. A node that has finished is checkpointed
(`RunCheckpoints`): its text and its question stay in the thread, in whatever way the
run ends.

Left out: texts, WebSocket events (sending never raises, nothing is read back),
the titles and descriptions of cases. After the lock is released the task only
reads and sends.

### Agent

`node` is the node that executes; the other variables are the fields of the state
that some guard reads, and the latest row of `contract_versions`. Every reply of a
model, and the fallback when a call fails, is a choice. `Start` and `Answer` are
`start_fresh_run` and `start_resume_run`: `Answer` patches the state *as the node
that asked*, so the run continues with that node's outgoing edge and the node is
not run again. `Cut` ends a run at any node: the watchdog, an exception, a dead
server. A cut `save_result` may have reached the database, and so may the status that a
refusal (`inform_user`, `inform_unsupported_deal`) writes. The state of the
thread is kept over runs, which is where most of the difficulty lies:
`contract = "old"` means drafted by an earlier run.

`LoadGeneralNorms`, `RetrieveNorms` and `EnrichRecommendations` are steps at which a
run can be cut; what they gather changes nothing that a guard reads and is the subject
of `Retrieval`. `SaveResult` is one step here and a sequence of calls in `Versions`. Runs
of a case come one at a time; their queue is `CaseChat`'s.

### NPA jobs

`row`, `object`, `points` are the table, the storage and the collections, `holder`
and `waiting` the fair `asyncio.Lock`, `live` the dictionary `_LIVE_PROGRESS`. A job
is scheduled (`start_index`), queues, takes the lock, and goes through `Begin`,
`Load`, `Clean`, `Upsert` once a batch, `Finish`; `Fail` is its `except` clause. The
deletion of a source is a thread in three steps that nothing keeps apart from the
steps of a job. Two rows may have one `Name`, as the name is that of the file.
`Restart` forgets tasks, lock and snapshot and resets the rows.

Left out: `run_chunking_job` (nothing calls it), rows without chunks (nothing
inserts one), the repeated progress events (each is tracked before the job
resumes, and finds its entry there).

### The parts in `MCServices`

* `Quota`: a POST to `/api/chat` reads subscription, plan and count in three
  transactions (`FindSubscription`, `ReadPlan`, `CountCases`) and creates its case later
  (`CreateCase`); `CreateCaseDirectly` is `/api/cases`, which has no check. `SetLimit`,
  `ChangeSubscription` and `NextMonth` happen at any moment.
* `Versions`: `Look`, `Render`, `Upload`, `Unlink`, `Number`, `Insert` and `Abandon` are the
  calls of `save_result` in their order, each of which can fail. `Number` reads `MAX + 1`
  and `Insert` commits the row that takes it: two steps of one transaction, which
  READ COMMITTED does not keep apart from another's. A document is identified with
  the run that wrote it; `written` and `object` say whose document is under a name.
* `Accounts`: `SignIn` looks up the identity, then the e-mail, then creates. A provider's
  id is stored where the account has none of that provider (`Bind`).
* `Preferences`: `ReadRow` and then `InsertRow` or `UpdateRow`; the ORM writes the columns
  that differ from what was read. `Migrate` is a restart.
* `Sessions`: the cookie, and for each request under way the copy it carries. `Handle`
  is any handler; `Answer` and `Receive` put the copy back, in any order.
* `Feed`: `Accept`, `Register`, `Snapshot`, `Disconnect`, `Unregister` for a socket; `Track`,
  `Copy`, `SendTo` for an event. A send fails where the connection is gone, and the
  others go on.
* `DealTypes`: a call reads the clock and looks for a copy (`Call`), then its stamp
  (`Check`), then its data (`Take`); without a fresh one it takes the lock and looks again
  (`Acquire`, `Check`, `Take`), or goes on to `Load` and `Store`. `Raise` is the `TypeError`
  of a copy that was dropped between two of these reads. `Invalidate` may or may not follow
  `Replace`: the module covers the admin's process and the other one.
* `ModelMemory`: a worker asks the language model (`AskModel`, `CallEnds`,
  `UnloadAfterCall`), searches (`StartSearch`, `GetEmbedder`, `LoadEmbedder`, `Encode`,
  `SearchFails`, `ReleaseMemory`) or ranks (`RankOnly`, `Rank`, `LoadReranker`). The
  `lru_cache`s are not locked while they load, so two threads may load at once.

### The parts in `MCRetrieval`

* `Chunker`: one iteration of `_split_long_section` is a step. An article is where its
  paragraphs end; how the parser finds articles is left out.
* `EmbedSplit`: the same for `_split_text_for_embedding`. A place in a text is a paragraph
  and an offset, so that a lost or doubled stretch shows.
* `References`: the rules, the morphology and the model over one chunk after another,
  with the registry, the index and the aliases derived from it and the remembered answers,
  while a transaction changes `npa_sources`: `FlushChange` drops the registry, `ClearNext`
  the derived caches one by one, and only then comes `CommitChange`. There are three such
  caches: those of the registry's module that are derived from it (`source_by_name`,
  `grouped_family_sources`, `get_known_sources`) are taken as one, the index, and so are the
  two of the chunker. `ReadSources` may
  fail, which leaves an empty registry in the cache. A text is what the patterns find in
  it. The history `recalled` tells an answer that was remembered from one just given.
* `Retrieval`: the assisted classification's searches, then the iterative or the classic
  path. Searches and rankings return any points up to their limit; planner, judge and
  filter answer anything, or fail. A failed call of the judge is a step of its own
  (`JudgeFails`), and the histories `judged` and `chosen` hold what the judge was given and
  what its answers kept.

## 3. The runs

| Run | Instance | What it shows |
|---|---|---|
| `billing_safety` | 1 user, 3 payments, 2 plans (one edited), clock to 2, faults | nothing is bought twice, unpaid, short, overlapping or with a hole; handlers never act on a stale view; `Billing` implements `PaymentLedger` |
| `billing_live` | 2 users, 2 payments, nobody edits, no faults | every paid payment is applied, and before it is acknowledged |
| `billing_lost_payment` | as safety, one edited plan | **violation**: a payment is acknowledged as a duplicate and never applied |
| `case_chat_safety` | 1 case, 4 turns, every fault | one open question, turns in order, own answers; `CaseChat` implements `Conversation` |
| `case_chat_live` | 1 case, 3 turns, every fault but the database's | every turn is answered or failed |
| `case_chat_indicator` | 1 turn, a timeout | **violation**: the case says completed under an error |
| `agent_graph` | any number of messages; 2 retries, 1 question on the type, 2 searches | limits, safe short cut, earned edits, one honest reply a run, required form validated, runs end |
| `agent_docx` | as above, 1 retry | **violation**: an invalid contract becomes a version |
| `agent_stale` | as above, 1 retry | **violation**: a run that drafts nothing stores a left-over contract |
| `npa_jobs` | 2 uploads of one file, 2 jobs of any mode, every fault | an owner for every INDEXING row, jobs at work shown, exact replacement, every job ends |
| `services` | eight parts, see below | the overshoot of the limit is bounded, versions serve themselves, accounts keep their identities, saves their fields, sessions are of one principal, no event is missed, no answer is older than the TTL, memory follows work |
| `retrieval` | four parts, see below | cuts lose nothing, pieces fit, references resolve, norms are traceable |

### Bounds

* Three payments are enough for the three cases of `apply_purchase` (fresh, extend,
  stack) in every order with an expiry between them; users only meet in the
  catalogue, hence one user with three payments. The clock runs to 2 with durations
  1 and 2, so rows expire, at the boundary too. `Symmetry` permutes users
  and payments, which the specification treats alike; it is used without liveness.
* Four turns let three orphaned runs stand in the queue before a turn that works.
  Cases share nothing but `Restart`, which acts on each alike.
* The agent needs no bound on messages: its state is finite. Two retries show a
  retry that is not the last; one question about the type and two searches reach
  both sides of their limits.
* Two jobs give every pair that shares a lock, a row or a name; the uploads have one
  and two batches, so a later version can be longer or shorter. Collections share
  nothing, so there is one.
* `services` and `retrieval` choose one part at the start and leave the others where they
  are, so each part is checked in full and the state spaces add up.

| Part | Instance |
|---|---|
| `Quota` | 2 requests, limits 1 and 2 and none, 4 cases: an overshoot by one, and a limit lowered between two transactions |
| `Versions` | 3 runs, 4 numbers: two saves that overlap and one that follows, with S3 and without, after a legacy version |
| `Accounts` | 2 accounts, 2 e-mails (one of the seed account), 2 Google and 1 Yandex identity: an e-mail that moves, an account with both |
| `Preferences` | 2 saves of any fields |
| `Sessions` | 2 requests that overtake each other, the owner, 1 admin with the owner's name, 1 user |
| `Feed` | 2 sockets, 2 events |
| `DealTypes` | 2 threads, TTL 2, clock to 4, 2 writes: a load that is overtaken and then expires |
| `ModelMemory` | 3 workers, 4 copies: a copy dropped by one, used by another and loaded again by the third |
| `Chunker` | articles of up to 4 paragraphs of length 1, 3, 9 (limit 8), several files, the four directories, a limit of 2 |
| `EmbedSplit` | texts of up to 5 paragraphs of length 1 to 20 (pieces of 9, at most 3) |
| `References` | 2 texts, 2 sources with chunks, 4 tables, 1 change, 1 remembered answer, reads that fail: names of a known and of an unknown source, by the rules, the morphology and the model |
| `Retrieval` | 5 and 4 points with chunks held twice and one without id, a chain of references, limits of 1 to 3 |

Deadlock is not checked where the system may stop: all payments are settled, all
turns posted, all jobs used. The agent can always be sent a message, and is checked.

### Fairness, and why the code gives it

* `Billing`: a handler that is under way goes on (nothing in it waits), and YooKassa
  repeats a notification until it gets 200 (strong fairness: `loop` may be busy
  again and again). Nobody has to check out or pay. `billing_live` is without admin
  edits and faults because with them the property is false (`billing_lost_payment`).
* `CaseChat`: requests to the graph server, model calls and database calls return
  or raise, and the watchdog fires. *Nothing* is assumed of the graph server: a run
  may hang. The call of the model in `_classify_yesno` is outside the watchdog and has
  no time limit of its own, so there the assumption is on Ollama. Database faults
  are off in `case_chat_live`: the reads before the `try` have no handler, and
  a failure there leaves the message PROCESSING until the next restart.
* `AgentGraph`: a node that executes ends.
* `NpaJobs`: a job that can go on does; the lock is first come, first served.

## 4. The proofs

All theorems are of the form `Spec => []Inv`, `Spec => [][A]_vars` or `Spec => Abstract`,
for all values of the constants, under the named assumptions of each module
(`BillingAssumption`, ...), which only say what kind of value each constant is. Two
theorems have hypotheses of their own: `BillingAcknowledgedIsApplied` (no edited plan, no
fault) and `CaseChatOpenHasTask` (no database fault).

**Billing.** `TypeOK` is not inductive: `ApplyPurchase` needs to know that the intent
of the handler exists. `BillingInv` is `TypeOK`, `HandlerViewHolds` and
`CreditedOnlyIfPaid` together: the view of a handler survives threads and the provider
because a payment's verdict is final there and only the loop writes intents.
`PeriodInv` (the periods of a user are disjoint and leave no hole) rests on
`PurchaseKeepsPeriods`, which takes the three cases of `Purchase` with the row that
expires last. The step to `PaymentLedger` follows by cases: marking
settles, applying credits an intent that `HandlerViewHolds` says is settled and not
yet applied, everything else stutters.

`PaidTimeConserved` counts: the days that the rows of a user cover are as many as were
bought. It is inductive beside `PeriodInv` once the sets are known to be finite
(`Conserved`), because a purchase adds an interval of its own days right behind the last
paid one, or at the present day, and that interval meets no other
(`PurchaseAddsDays`, with `FS_Interval` and `FS_Union`).
`AcknowledgedIsApplied` is proved for `Edited = {}` and `~Faults` only, and it is false
without these (`billing_lost_payment`). `ServedInv` says why it holds with them: nobody
touches a seeded plan (`Untouched`), so what is checked out can be bought (`Buyable`);
what a user can pay for is known by its id (`OfferedIsKnown`, `Fresh`); a marked payment is applied or being applied (`MarkedIsApplied`).

**Case chat.** `CaseChatTypeOK` is inductive alone. `ChatInv` is that rows exist up to
`posted` (`RowsPosted`), only the last can be open (`OnlyLastOpen`), a task that has
not yet answered or failed owns the open one (`WorkIsOpen`), the lock is held by the
task that is inside (`LockIsHeld`), no run precedes the request for it
(`RunIsStarted`), and `TurnsInOrder`: the last needs the others because it is the
placeholder, not the lock, that keeps a second task from queueing. `AnswerInv` adds
`QueueInOrder` (once a run has started, no earlier one is pending or running) and
`ThreadIsOwn` (from the success of its run to its read, a task finds its own run in
the thread), from which `AnswerIsOwn` follows.

**Agent.** `AgentInv` adds to the properties: a question has both its fields and is
open only where it is asked (`QuestionIsWhole`); what has been established when a
node is reached (`NodeIsReached`); and what a regeneration knows about its contract
when it writes recommendations (`FormIsSettled`). Cuts make these
necessary: each node's precondition has to follow from the thread alone.

**NPA jobs.** `NpaInv` adds that the lock is held by exactly the job that is past it
(`HolderIsInside`), and that a job under way knows its request. Two lemmas carry the
proof: a step outside the jobs (`OutsideKeeps`) and a step inside (`InsideKeeps`)
preserve the invariant under conditions that each action is then checked to meet.

**Quota.** `QuotaOvershootBounded` counts a request that passed and has not created
its case as if it had. The invariant says of each request that has read a limit and a
count how they stand to the present; the last request to pass sees every case but
those admitted beside it.

**Versions.** A version is saved alone when no other save is under way at any time of its
own (the history variable `overlapped` holds the others). `VersionsInv` carries such a save
through its calls: the number it looked up is still the next one, and what it has written
is still its own (`AloneIsNext`). Once its row is there, every save under way is for a
higher number (`RowsAreSafe`), whoever it overlaps with. `OverlapsAreKnown` says that two
saves under way at once are both in the history, and `LegacyStays` keeps the row of the old
deployment, whose document is where `docx_paths` looks.

**Accounts, preferences, sessions.** `KeepsAccount` and `FieldsIndependent` are action
properties; the first rests on `AccountsDistinct` (an identity is linked to one account
at most), the second on what a save remembers of the row it read.
`SessionIsOnePrincipal` is inductive over *all* copies of the cookie, in the browser and
under way: each handler keeps it for the copy it changes.

**Live channel.** `NothingMissed` follows from the exactness of the registry and from the
order in the endpoint: a socket is registered before the snapshot is taken, so an event
tracked after the snapshot finds the socket in the set that it copies.

**Deal types.** `DealInv`: the copy was current at its stamp, and what a thread has loaded
was current at the time it will be stamped with, because the clock is read before the
load. That is why an overtaken load is harmless for longer than the TTL, and why
reading the clock at the store would not be (the mutant). A thread that found the copy
fresh may take another one; any copy that can be there by then will do for it, the one
that a load is about to store included (`ReaderInv`, `StoreInv`).

**Models.** `MemoryInv`: a worker holds a copy only while it embeds; in the swap mode a
cached copy belongs to some search that is past loading and will drop it
(`SearchOwns`); a loaded language model belongs to a call. The bound on the copies is an
injection from the copies to the searches (`CopiesAreOwned`, with `FS_Injection`).

**Chunker.** `ChunkerInv` describes the loops between two iterations: what is gathered
goes on from the last chunk of its article and fits, or is a paragraph and its overlap
(`Gathering`); the chunks so far are sound (`Sound`) and come in the order of the text, so
no index is used twice (`InOrder`, `OneIndexEach`); what the loops have passed is covered
(`Covering`);
a limit that is reached stops everything (`Limited`); a group behind the current one is
stored (`Storing`).

**Splitter.** `EmbedSplitInv` places the work in the text (`AtWorkInv`): pieces and what is
gathered follow each other without a gap. That the end is dropped only from a long text
rests on `PairsAreLong`: two pieces in a row would not have fitted into one, so where no
paragraph is cut `n` pieces stand for `n / 2` times a piece's length.

**References.** `ReferencesInv`: unless a load met a transaction, each cache and the load under
way are of the table as it is, or empty after a failed read, and all caches are empty when
a change commits (`Current`); the sources of the table
are among those that the chunk at work may refer to, and those of a remembered answer were
in it once (`Known`); every reference so far leads to one of these, and only one that was
recalled for this very chunk to a former one (`Led`). What the model has just answered gets
no such exception: `ResolveByAlias` drops what it cannot find. What the patterns
find in a text is a parameter, of which little more is assumed than that the numbers
belong together.

**Retrieval.** `RetrievalInv` has one part for each loop. What is about to be judged has not
been seen before, and what was judged has (so nothing is judged twice, rejected or lost
chunks included); approvals come from answers only (`JudgeFailsKeeps`). `Within`, the chunks that a number
of hops reaches, is a recursive function: the proof needs that it exists and satisfies
its equation (`WithinIs`), and no more.

The four of them argue by induction. The library's induction theorems take an operator, which
the provers cannot instantiate; `EveryNatural` states induction for a *set* instead
(a set with 0 that is closed under successor contains every natural number) and is proved
by counting: were `n` missing, adding 1 would inject the members up to `n` into
themselves without 0.

Checked by TLC only: the four liveness properties (`PaidIsApplied`, `EveryTurnAnswered`,
`EveryRunEnds`, `EveryJobEnds`), because fairness is out of the prover's reach. Every
invariant, action property and refinement of the passing runs is proved.

**Towards the liveness properties.** What these rest on besides fairness is proved: a
measure that every step lowers, and that nobody waits in a circle.

* A run of the agent executes at most `12 + 4 * MaxIterations` nodes (`AgentRunsAreShort`),
  or `MaxSearches + 2` in a stage that only searches: `StepsLeft` is what a run has left
  at each node, and the one cycle through the validator is counted by `iteration_count`.
* Every step of a task of the chat lowers its `Distance` and no other step raises it
  (`CaseChatTasksGoOn`); a task in the queue waits only for one that has closed its message
  (`CaseChatLockIsGivenBack`); and a message that is open has a task
  (`CaseChatOpenHasTask`), unless the database fails, as the reads before the `try`
  have no handler.
* The queue of the indexing lock holds the waiting jobs, each once, and the lock is held by
  a job at work (`NpaQueueIsExact`). Each step of a job lowers its `Distance`, the
  batches left included, and a restart does not raise it (`NpaJobsGoOn`).
* A marked payment is applied or in the hands of a handler (`ServedInv`).

That the next step is taken, and so the conclusion, is TLC's.

## 5. What the models say about the code

The properties above hold, with these exceptions. Those with a violating run are quoted
in `PROJECT.json`; 2 and 6 are behaviours of `Billing` and `NpaJobs` without a run of
their own:

1. A payment whose purchase fails after it was marked is never applied: the retry of
   the webhook finds it terminal and answers 200 (`webhooks.py:85-92`).
2. A default plan deleted by an admin is seeded again at the next start
   (`migrate.py:313`), against its docstring.
3. A run that outlives its timeout sets a case to completed whose last message is the
   timeout error (`service.py:287`).
4. `save_result` stores contracts that failed the validation when the law does not
   require the written form, and any edit (`nodes.py:1880`).
5. After a cut, a run that should only write recommendations stores the contract
   the cut run left (`nodes.py:365`).
6. A failed indexing job stays in the live progress (`tasks.py:262`).

Not violations, and worth knowing: the retry limit counts `valid: true` with errors as
a failure, at the last attempt only; questions about missing data have no limit; a cut
between `check_written_form` and `ask_clarification` leaves a question the user has
not seen, and the next message is taken for its answer; a run has at most
`12 + 4 * max_iterations` nodes, which is 24 with the 3 of `docker-compose.yml:91`, 32 with
the default 5 of `app/config.py:165` and 52 with the 10 of `.env.example:87`, while the
request that starts a run (`langgraph.py:109-126`) sets no limit on its steps, so that of
the graph server applies; an edit announces a version
even when storing it failed; `already_completed` (`service.py:230`) reads the top
level of the thread state and is always false; deleting a source leaves its points
in the vector store, also when a job that began meanwhile is writing them
(`admin/routes.py:333`); a question is closed by the patch of the thread even if the run
that should follow cannot be created (`langgraph.py:306`); an answer about the type of the
deal is not classified again (`langgraph.py:273`).

From the parts: two requests together exceed the monthly limit by one, and
`/api/cases` is not limited at all; every start resets an explicit choice of the dark
theme, which the comment at `db/migrate.py:212-214` ascribes to legacy rows; without S3 a
contract is written to a directory (`contract_docx.py:14`) in which the download does not
look (`cases/docx_paths.py:18`); two saves of one case that overlap may take one
number; the registry of sources may keep old rows, because it is cleared before the
commit (`admin/crud.py:149`), and stays empty after one failed read
(`source_registry.py:166`) until a source changes; the model's remembered references
(`chunker.py:477`) are never dropped; candidates whose judging call failed count as seen
(`agent/nodes.py:1450`) and are lost for that draft; a read of the deal types raises a
`TypeError` if the invalidation falls between its looks at the copy (`deal_types.py:63-68`,
`:88`); the reranker stays off for the life of the process
once it could not be loaded.

## 6. Not modelled

* Text: prompts, messages, the layout of documents, the patterns and the morphology
  that recognise articles and references. The models start from what these find.
* The browser, the OAuth protocols, hashing, prices and the order of plans, titles and
  descriptions of cases.
* `scripts/` and `notebooks/`: offline measurements that share no state with the program.
* Code that nothing calls: `run_chunking_job`, `create_npa_source`,
  `emit_to_user_threadsafe`.
* A run of the chat as a behaviour of the agent: `CaseChat` and `AgentGraph` meet in
  the pending question and the saved status only, and each leaves the other's side open.
