------------------------------ MODULE DealTypes ------------------------------
(***************************************************************************)
(* The catalogue of supported deal types: one object in the storage that   *)
(* an admin replaces (app/admin/routes.py), and the copy that every        *)
(* process keeps for a few seconds (app/agent/deal_types.py).              *)
(*                                                                         *)
(* One process is modelled, with several threads.  The process that serves *)
(* the admin drops its copy after a change, the other one never hears of   *)
(* it: that is a behaviour of the same module in which Invalidate does not *)
(* occur, because nothing obliges it to.                                   *)
(***************************************************************************)
EXTENDS Integers

CONSTANTS
  Threads,    \* threads that read the catalogue
  TTL,        \* _TTL_SECONDS
  MaxTime,    \* bound on the clock
  MaxObject   \* bound on the changes of the catalogue

NoThread == "no thread"

ASSUME DealTypesAssumption ==
  /\ NoThread \notin Threads
  /\ TTL \in Nat \ {0}
  /\ MaxTime \in Nat
  /\ MaxObject \in Nat

VARIABLES
  clock,     \* time.monotonic()
  catalogue, \* how often the object in the storage was written, 0 without it
  due,       \* changes whose handler has yet to call invalidate_cache
  replaced,  \* history: replaced[v] is when version v stopped being current
  cache,     \* _cache: NoCache, or a stamp and the data
  holder,    \* the thread that holds _lock, NoThread if none
  reader     \* reader[t]: how far a call in thread t has come

dealVars == <<clock, catalogue, due, replaced, cache, holder, reader>>

Bundled == 0                \* supported_deal_types.json, beside the code
NoCache == [stamp |-> 0, data |-> -1]
Versions == 1 .. MaxObject
Data == 0 .. MaxObject
Caches == {NoCache} \cup [stamp : Nat, data : Data]

Out == [pc |-> "out"]
Called(pc, now) == [pc |-> pc, now |-> now]
Loaded(now, data) == [pc |-> "store", now |-> now, data |-> data]
Result(now, data) == [pc |-> "answered", now |-> now, data |-> data]
Readers ==
  {Out} \cup [pc : {"check", "take", "wait", "load", "raised"}, now : Nat]
        \cup [pc : {"store", "answered"}, now : Nat, data : Data]

\* seed_s3_if_missing ran at the start and has written the object or failed.
DealTypesInit ==
  /\ clock = 0
  /\ catalogue \in {0, 1} /\ catalogue <= MaxObject /\ due = 0
  /\ replaced = [v \in Versions |-> 0]
  /\ cache = NoCache
  /\ holder = NoThread
  /\ reader = [t \in Threads |-> Out]

-----------------------------------------------------------------------------
(* get_supported_deal_type_descriptions *)

\* _cache is read three times, to see that there is a copy, when it was
\* stamped, and what is in it: before the lock, where the clock is read once
\* as well, and again inside.
Call(t) ==
  /\ reader[t].pc \in {"out", "answered", "raised"}
  /\ reader' = [reader EXCEPT ![t] = Called(IF cache = NoCache THEN "wait" ELSE "check", clock)]
  /\ UNCHANGED <<clock, catalogue, due, replaced, cache, holder>>

Acquire(t) ==
  /\ reader[t].pc = "wait" /\ holder = NoThread
  /\ reader' = [reader EXCEPT ![t].pc = IF cache = NoCache THEN "load" ELSE "check"]
  /\ holder' = t
  /\ UNCHANGED <<clock, catalogue, due, replaced, cache>>

\* A call that returns or fails leaves the lock if it is inside.
Released(t) == IF holder = t THEN NoThread ELSE holder

\* A copy that is dropped between two of the reads is None: a TypeError.
Raise(t) ==
  /\ reader[t].pc \in {"check", "take"} /\ cache = NoCache
  /\ reader' = [reader EXCEPT ![t].pc = "raised"]
  /\ holder' = Released(t)
  /\ UNCHANGED <<clock, catalogue, due, replaced, cache>>

Fresh(now) == now - cache.stamp < TTL

Check(t) ==
  /\ reader[t].pc = "check" /\ cache # NoCache
  /\ reader' = [reader EXCEPT ![t].pc = IF Fresh(reader[t].now) THEN "take"
                                        ELSE IF holder = t THEN "load" ELSE "wait"]
  /\ UNCHANGED <<clock, catalogue, due, replaced, cache, holder>>

Take(t) ==
  /\ reader[t].pc = "take" /\ cache # NoCache
  /\ reader' = [reader EXCEPT ![t] = Result(reader[t].now, cache.data)]
  /\ holder' = Released(t)
  /\ UNCHANGED <<clock, catalogue, due, replaced, cache>>

\* _load_from_s3; without an object, an answer or a well-formed answer, the
\* bundled file.
Load(t) ==
  /\ reader[t].pc = "load"
  /\ \E data \in {Bundled, catalogue} :
       reader' = [reader EXCEPT ![t] = Loaded(reader[t].now, data)]
  /\ UNCHANGED <<clock, catalogue, due, replaced, cache, holder>>

\* Mutant: the clock is read when the copy is stored.
Stamp_AtStore(t) == clock

Stamp(t) == reader[t].now

Store(t) ==
  /\ reader[t].pc = "store"
  /\ cache' = [stamp |-> Stamp(t), data |-> reader[t].data]
  /\ reader' = [reader EXCEPT ![t] = Result(reader[t].now, reader[t].data)]
  /\ holder' = NoThread
  /\ UNCHANGED <<clock, catalogue, due, replaced>>

-----------------------------------------------------------------------------

\* PUT /api/admin/deal-types: the object is replaced, then the copy dropped.
Replace ==
  /\ catalogue < MaxObject
  /\ catalogue' = catalogue + 1 /\ due' = due + 1
  /\ replaced' = IF catalogue = 0 THEN replaced ELSE [replaced EXCEPT ![catalogue] = clock]
  /\ UNCHANGED <<clock, cache, holder, reader>>

\* invalidate_cache, without the lock, in the process of the admin.
Invalidate ==
  /\ due > 0 /\ due' = due - 1
  /\ cache' = NoCache
  /\ UNCHANGED <<clock, catalogue, replaced, holder, reader>>

Pass ==
  /\ clock < MaxTime
  /\ clock' = clock + 1
  /\ UNCHANGED <<catalogue, due, replaced, cache, holder, reader>>

DealTypesNext ==
  \/ \E t \in Threads :
       Call(t) \/ Acquire(t) \/ Raise(t) \/ Check(t) \/ Take(t) \/ Load(t) \/ Store(t)
  \/ Replace \/ Invalidate \/ Pass

DealTypesSpec == DealTypesInit /\ [][DealTypesNext]_dealVars

-----------------------------------------------------------------------------
(* Properties *)

DealTypesTypeOK ==
  /\ clock \in Nat
  /\ catalogue \in 0 .. MaxObject /\ due \in Nat
  /\ replaced \in [Versions -> Nat]
  /\ cache \in Caches
  /\ holder \in Threads \cup {NoThread}
  /\ reader \in [Threads -> Readers]

\* Version v was current at some moment later than `since'.
CurrentAfter(v, since) == v = catalogue \/ replaced[v] > since

\* A call that starts at time `now' and is answered from the storage gets a
\* catalogue that was current less than TTL before: although a load may be
\* overtaken by a change and its invalidation and store the old catalogue
\* after both, however long it waited for the lock or for the storage.
StaleAtMostTTL ==
  \A t \in Threads :
    reader[t].pc = "answered" /\ reader[t].data # Bundled
      => CurrentAfter(reader[t].data, reader[t].now - TTL)
=============================================================================
