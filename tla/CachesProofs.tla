---------------------------- MODULE CachesProofs ----------------------------
(* Proofs about what the threads and tasks of one process share: the cached  *)
(* catalogue of DealTypes, for any number of threads and any TTL, the models *)
(* of ModelMemory, for any number of workers, and the sockets of Feed, for   *)
(* any number of sockets and of events.                                      *)
EXTENDS DealTypes, ModelMemory, Feed, FiniteSetTheorems, TLAPS

-----------------------------------------------------------------------------
(* The catalogue of deal types *)

\* Catalogue v was still current at time `since' or later.
CurrentAt(v, since) == v = Bundled \/ v = catalogue \/ replaced[v] >= since

\* A call that started at time `now' may be answered with v.
Answers(v, now) == v # Bundled => CurrentAfter(v, now - TTL)

\* The copy was current at its stamp.
CopyInv ==
  cache # NoCache => cache.stamp <= clock /\ CurrentAt(cache.data, cache.stamp)

\* What a thread has loaded was current at the time it will be stamped with,
\* and replaces no copy that is fresh for it; a copy that it found fresh may
\* have been replaced since, but the one there now will do.
ReaderInv(t) ==
  /\ reader[t] # Out => reader[t].now <= clock
  /\ reader[t].pc \in {"load", "store"} =>
       holder = t /\ (cache # NoCache => reader[t].now - cache.stamp >= TTL)
  /\ reader[t].pc = "store" => CurrentAt(reader[t].data, reader[t].now)
  /\ reader[t].pc = "take" /\ cache # NoCache => Answers(cache.data, reader[t].now)
  /\ reader[t].pc = "answered" => Answers(reader[t].data, reader[t].now)

\* So will the one that a thread is about to store.
StoreInv(t, u) ==
  reader[t].pc = "store" /\ reader[u].pc = "take" => Answers(reader[t].data, reader[u].now)

DealInv ==
  /\ DealTypesTypeOK /\ CopyInv
  /\ \A t \in Threads : ReaderInv(t)
  /\ \A t, u \in Threads : StoreInv(t, u)

LEMMA StatesOfReader ==
  ASSUME NEW now \in Nat
  PROVE  /\ \A pc \in {"check", "take", "wait", "load", "raised"} : Called(pc, now) \in Readers
         /\ \A pc : Called(pc, now).pc = pc /\ Called(pc, now).now = now
         /\ \A d \in Data :
              /\ Loaded(now, d) \in Readers /\ Result(now, d) \in Readers
              /\ Loaded(now, d).pc = "store" /\ Loaded(now, d).now = now /\ Loaded(now, d).data = d
              /\ Result(now, d).pc = "answered" /\ Result(now, d).now = now
              /\ Result(now, d).data = d
BY DEF Called, Loaded, Result, Readers

LEMMA FieldsOfReader ==
  ASSUME DealTypesTypeOK, NEW t \in Threads
  PROVE  /\ reader[t] = Out <=> reader[t].pc = "out"
         /\ reader[t] # Out => reader[t].now \in Nat
         /\ reader[t].pc \in {"store", "answered"} => reader[t].data \in Data
         /\ reader[t].pc \in {"check", "take", "wait", "load", "raised"} =>
              reader[t] = Called(reader[t].pc, reader[t].now)
BY DEF DealTypesTypeOK, Readers, Out, Called

LEMMA FieldsOfCache ==
  ASSUME DealTypesTypeOK, cache # NoCache
  PROVE  cache.stamp \in Nat /\ cache.data \in Data
BY DEF DealTypesTypeOK, Caches

LEMMA InitDealTypes == DealTypesInit => DealInv
<1> SUFFICES ASSUME DealTypesInit PROVE DealInv
  OBVIOUS
<1>1. DealTypesTypeOK
  BY DealTypesAssumption DEF DealTypesInit, DealTypesTypeOK, Caches, Readers
<1> QED
  BY <1>1 DEF DealTypesInit, DealInv, CopyInv, ReaderInv, StoreInv, Out

-----------------------------------------------------------------------------

\* One reader moves on, while the copy, the catalogue and the clock stand
\* still, and takes the lock from no other.
LEMMA ReaderKeeps ==
  ASSUME DealInv, NEW t \in Threads, NEW new \in Readers,
         reader' = [reader EXCEPT ![t] = new],
         UNCHANGED <<clock, catalogue, due, replaced, cache>>,
         holder' \in Threads \cup {NoThread}, holder' = holder \/ holder \in {NoThread, t},
         new # Out => new.now <= clock,
         new.pc \in {"load", "store"} =>
           holder' = t /\ (cache # NoCache => new.now - cache.stamp >= TTL),
         new.pc = "store" => CurrentAt(new.data, new.now),
         new.pc = "take" /\ cache # NoCache => Answers(cache.data, new.now),
         new.pc = "answered" => Answers(new.data, new.now),
         \A u \in Threads :
           /\ new.pc = "store" /\ reader[u].pc = "take" => Answers(new.data, reader[u].now)
           /\ new.pc = "take" /\ reader[u].pc = "store" => Answers(reader[u].data, new.now)
  PROVE  DealInv'
<1>1. /\ reader' \in [Threads -> Readers] /\ reader'[t] = new
      /\ \A u \in Threads : u # t => reader'[u] = reader[u]
  BY DEF DealInv, DealTypesTypeOK
<1>2. DealTypesTypeOK'
  BY <1>1 DEF DealInv, DealTypesTypeOK
<1>3. CopyInv'
  BY DEF DealInv, CopyInv, CurrentAt
<1>4. ASSUME NEW u \in Threads PROVE ReaderInv(u)'
  <2>1. CASE u = t
    BY <1>1, <2>1 DEF ReaderInv, CurrentAt, Answers, CurrentAfter
  <2>2. CASE u # t
    <3>1. ReaderInv(u) /\ reader'[u] = reader[u]
      BY <1>1, <2>2 DEF DealInv
    <3>2. holder = u => holder' = u
      BY <2>2, DealTypesAssumption
    <3> QED
      BY <3>1, <3>2 DEF ReaderInv, CurrentAt, Answers, CurrentAfter
  <2> QED
    BY <2>1, <2>2
<1>5. ASSUME NEW u \in Threads, NEW v \in Threads PROVE StoreInv(u, v)'
  <2>1. StoreInv(u, v)
    BY DEF DealInv
  <2> QED
    BY <1>1, <2>1 DEF StoreInv, Answers, CurrentAfter
<1> QED
  BY <1>2, <1>3, <1>4, <1>5 DEF DealInv

\* A copy that is fresh at time `now' answers a call that started then, and
\* so does what another thread has loaded to replace it.
LEMMA FreshAnswers ==
  ASSUME DealInv, NEW v \in Data, NEW now \in Nat, NEW since \in Nat,
         CurrentAt(v, since), now - since < TTL
  PROVE  Answers(v, now)
<1> SUFFICES ASSUME v # Bundled PROVE CurrentAfter(v, now - TTL)
  BY DEF Answers
<1>1. v \in Versions
  BY DEF Data, Versions, Bundled
<1>2. replaced[v] \in Nat
  BY <1>1 DEF DealInv, DealTypesTypeOK
<1> QED
  BY <1>2, DealTypesAssumption DEF CurrentAt, CurrentAfter

LEMMA CallKeeps ==
  ASSUME DealInv, NEW t \in Threads, Call(t)
  PROVE  DealInv'
<1> DEFINE new == Called(IF cache = NoCache THEN "wait" ELSE "check", clock)
<1>1. reader' = [reader EXCEPT ![t] = new] /\ UNCHANGED <<clock, catalogue, due, replaced, cache, holder>>
  BY DEF Call
<1>2. clock \in Nat /\ holder \in Threads \cup {NoThread}
  BY DEF DealInv, DealTypesTypeOK
<1>3. new \in Readers /\ new.now = clock /\ new.pc \in {"wait", "check"}
  <2>1. PICK pc \in {"wait", "check"} : new = Called(pc, clock)
    OBVIOUS
  <2> HIDE DEF new
  <2> QED
    BY <1>2, <2>1, StatesOfReader
<1>4. /\ holder' \in Threads \cup {NoThread} /\ holder' = holder
      /\ UNCHANGED <<clock, catalogue, due, replaced, cache>> /\ new.now <= clock
      /\ new.pc \notin {"load", "store", "take", "answered"}
  BY <1>1, <1>2, <1>3
<1> HIDE DEF new
<1> QED
  BY <1>1, <1>3, <1>4, ReaderKeeps

\* What a thread that is under way knows of its call.
LEMMA UnderWay ==
  ASSUME DealInv, NEW t \in Threads, reader[t].pc \in {"check", "take", "wait", "load", "raised"}
  PROVE  /\ reader[t].now \in Nat /\ reader[t].now <= clock
         /\ \A pc \in {"check", "take", "wait", "load", "raised"} :
              [reader EXCEPT ![t].pc = pc] = [reader EXCEPT ![t] = Called(pc, reader[t].now)]
<1>1. DealTypesTypeOK /\ reader[t] # Out
  BY DEF DealInv, Out
<1>2. reader[t].now \in Nat /\ reader[t].now <= clock
  BY <1>1, FieldsOfReader DEF DealInv, ReaderInv
<1>3. reader[t] = Called(reader[t].pc, reader[t].now)
  BY <1>1, FieldsOfReader
<1>4. \A pc : [reader[t] EXCEPT !.pc = pc] = Called(pc, reader[t].now)
  BY <1>3 DEF Called
<1> QED
  BY <1>2, <1>4

LEMMA AcquireKeeps ==
  ASSUME DealInv, NEW t \in Threads, Acquire(t)
  PROVE  DealInv'
<1> DEFINE new == Called(IF cache = NoCache THEN "load" ELSE "check", reader[t].now)
<1>1. /\ reader[t].pc = "wait" /\ reader' = [reader EXCEPT ![t] = new] /\ holder = NoThread
      /\ UNCHANGED <<clock, catalogue, due, replaced, cache>> /\ holder' = t
  BY UnderWay DEF Acquire
<1>2. reader[t].now \in Nat /\ reader[t].now <= clock
  BY <1>1, UnderWay
<1>3. /\ new \in Readers /\ new.now = reader[t].now /\ new.pc \in {"load", "check"}
      /\ new.pc = "load" => cache = NoCache
  BY <1>2, StatesOfReader
<1> HIDE DEF new
<1> QED
  BY <1>1, <1>2, <1>3, ReaderKeeps

LEMMA ReleasedIs ==
  ASSUME DealInv, NEW t \in Threads
  PROVE  Released(t) \in Threads \cup {NoThread} /\ (Released(t) = holder \/ holder = t)
BY DEF Released, DealInv, DealTypesTypeOK

LEMMA RaiseKeeps ==
  ASSUME DealInv, NEW t \in Threads, Raise(t)
  PROVE  DealInv'
<1> DEFINE new == Called("raised", reader[t].now)
<1>1. /\ reader[t].pc \in {"check", "take"} /\ reader' = [reader EXCEPT ![t] = new]
      /\ UNCHANGED <<clock, catalogue, due, replaced, cache>> /\ holder' = Released(t)
  BY UnderWay DEF Raise
<1>2. reader[t].now \in Nat /\ reader[t].now <= clock
  BY <1>1, UnderWay
<1>3. new \in Readers /\ new.now = reader[t].now /\ new.pc = "raised"
  BY <1>2, StatesOfReader
<1> HIDE DEF new
<1> QED
  BY <1>1, <1>2, <1>3, ReaderKeeps, ReleasedIs

LEMMA CheckKeeps ==
  ASSUME DealInv, NEW t \in Threads, Check(t)
  PROVE  DealInv'
<1> DEFINE now == reader[t].now
           new == Called(IF Fresh(now) THEN "take" ELSE IF holder = t THEN "load" ELSE "wait", now)
<1>1. /\ reader[t].pc = "check" /\ reader' = [reader EXCEPT ![t] = new] /\ cache # NoCache
      /\ UNCHANGED <<clock, catalogue, due, replaced, cache, holder>>
  BY UnderWay DEF Check
<1>2. /\ now \in Nat /\ now <= clock /\ holder \in Threads \cup {NoThread}
      /\ cache.stamp \in Nat /\ cache.data \in Data /\ CurrentAt(cache.data, cache.stamp)
  BY <1>1, UnderWay, FieldsOfCache DEF DealInv, DealTypesTypeOK, CopyInv
<1> HIDE DEF now
<1>3. /\ new \in Readers /\ new.now = now /\ new.pc \in {"take", "load", "wait"}
      /\ new.pc = "take" => now - cache.stamp < TTL
      /\ new.pc = "load" => holder = t /\ ~(now - cache.stamp < TTL)
  BY <1>2, StatesOfReader DEF Fresh
<1>4. new.pc = "take" => Answers(cache.data, new.now)
  BY <1>2, <1>3, FreshAnswers
<1>5. ASSUME NEW u \in Threads, new.pc = "take", reader[u].pc = "store"
      PROVE  Answers(reader[u].data, new.now)
  <2>1. reader[u] # Out /\ DealTypesTypeOK
    BY <1>5 DEF DealInv, Out
  <2>2. reader[u].now \in Nat /\ reader[u].data \in Data
    BY <1>5, <2>1, FieldsOfReader
  <2>3. reader[u].now - cache.stamp >= TTL /\ CurrentAt(reader[u].data, reader[u].now)
    BY <1>1, <1>5 DEF DealInv, ReaderInv
  <2>4. now - reader[u].now < TTL
    BY <1>2, <1>3, <1>5, <2>2, <2>3, DealTypesAssumption
  <2> QED
    BY <1>2, <1>3, <2>2, <2>3, <2>4, FreshAnswers
<1>6. new.pc = "load" => now - cache.stamp >= TTL
  BY <1>2, <1>3, DealTypesAssumption
<1> HIDE DEF new
<1> QED
  BY <1>1, <1>2, <1>3, <1>4, <1>5, <1>6, ReaderKeeps

LEMMA TakeKeeps ==
  ASSUME DealInv, NEW t \in Threads, Take(t)
  PROVE  DealInv'
<1> DEFINE now == reader[t].now
           new == Result(now, cache.data)
<1>1. /\ reader[t].pc = "take" /\ reader' = [reader EXCEPT ![t] = new] /\ cache # NoCache
      /\ UNCHANGED <<clock, catalogue, due, replaced, cache>> /\ holder' = Released(t)
  BY DEF Take
<1>2. /\ now \in Nat /\ now <= clock /\ cache.data \in Data /\ Answers(cache.data, now)
  BY <1>1, UnderWay, FieldsOfCache DEF DealInv, ReaderInv
<1> HIDE DEF now
<1>3. new \in Readers /\ new.now = now /\ new.pc = "answered" /\ new.data = cache.data
  BY <1>2, StatesOfReader
<1> HIDE DEF new
<1> QED
  BY <1>1, <1>2, <1>3, ReaderKeeps, ReleasedIs

LEMMA LoadKeeps ==
  ASSUME DealInv, NEW t \in Threads, Load(t)
  PROVE  DealInv'
<1> DEFINE now == reader[t].now
<1>1. DealTypesTypeOK /\ catalogue \in Data /\ Bundled \in Data /\ holder \in Threads \cup {NoThread}
  BY DealTypesAssumption DEF DealInv, DealTypesTypeOK, Data, Bundled
<1>2. /\ reader[t].pc = "load" /\ now \in Nat /\ now <= clock
      /\ holder = t /\ (cache # NoCache => now - cache.stamp >= TTL)
  BY UnderWay DEF Load, DealInv, ReaderInv
<1> HIDE DEF now
<1>3. PICK data \in {Bundled, catalogue} :
        /\ reader' = [reader EXCEPT ![t] = Loaded(now, data)]
        /\ UNCHANGED <<clock, catalogue, due, replaced, cache, holder>>
  BY DEF Load, now
<1> DEFINE new == Loaded(now, data)
<1>4. new \in Readers /\ new.now = now /\ new.pc = "store" /\ new.data = data
  BY <1>1, <1>2, <1>3, StatesOfReader
<1>5. CurrentAt(new.data, new.now) /\ \A u \in Threads : Answers(new.data, reader[u].now)
  BY <1>3, <1>4 DEF CurrentAt, Answers, CurrentAfter
<1> HIDE DEF new
<1> QED
  BY <1>1, <1>2, <1>3, <1>4, <1>5, ReaderKeeps DEF new

\* Only the thread inside stores, so no other is between its check and its
\* store.
LEMMA StoreKeeps ==
  ASSUME DealInv, NEW t \in Threads, Store(t)
  PROVE  DealInv'
<1> DEFINE now == reader[t].now
           data == reader[t].data
           new == Result(now, data)
<1>1. /\ reader[t].pc = "store" /\ reader' = [reader EXCEPT ![t] = new]
      /\ cache' = [stamp |-> now, data |-> data] /\ holder' = NoThread
      /\ UNCHANGED <<clock, catalogue, due, replaced>>
  BY DEF Store, Stamp
<1>2. DealTypesTypeOK /\ reader[t] # Out
  BY <1>1 DEF DealInv, Out
<1>3. /\ now \in Nat /\ now <= clock /\ data \in Data /\ CurrentAt(data, now) /\ holder = t
      /\ \A u \in Threads : reader[u].pc = "take" => Answers(data, reader[u].now)
  BY <1>1, <1>2, FieldsOfReader DEF DealInv, ReaderInv, StoreInv
<1> HIDE DEF now, data
<1>4. new \in Readers /\ new.now = now /\ new.pc = "answered" /\ new.data = data
  BY <1>3, StatesOfReader
<1>5. Answers(data, now)
  <2>1. now - now < TTL
    BY <1>3, DealTypesAssumption
  <2> QED
    BY <1>3, <2>1, FreshAnswers
<1>6. reader' \in [Threads -> Readers] /\ reader'[t] = new
      /\ \A u \in Threads : u # t => reader'[u] = reader[u]
  BY <1>1, <1>2, <1>4 DEF DealTypesTypeOK
<1>7. cache'.stamp = now /\ cache'.data = data /\ cache' \in Caches
  BY <1>1, <1>3 DEF Caches
<1>8. DealTypesTypeOK'
  BY <1>1, <1>2, <1>6, <1>7 DEF DealTypesTypeOK
<1>9. CopyInv'
  BY <1>1, <1>3, <1>7 DEF CopyInv, CurrentAt
<1>10. ASSUME NEW u \in Threads PROVE ReaderInv(u)'
  <2>1. CASE u = t
    BY <1>1, <1>3, <1>4, <1>5, <1>6, <2>1 DEF ReaderInv, Answers, CurrentAfter
  <2>2. CASE u # t
    <3>1. ReaderInv(u) /\ reader'[u] = reader[u] /\ reader[u].pc \notin {"load", "store"}
      BY <1>3, <1>6, <2>2 DEF DealInv, ReaderInv
    <3> QED
      BY <1>1, <1>3, <1>7, <3>1 DEF ReaderInv, Answers, CurrentAfter
  <2> QED
    BY <2>1, <2>2
<1>11. ASSUME NEW u \in Threads, NEW v \in Threads PROVE StoreInv(u, v)'
  <2>1. reader'[u].pc # "store"
    BY <1>3, <1>4, <1>6 DEF DealInv, ReaderInv
  <2> QED
    BY <2>1 DEF StoreInv
<1> QED
  BY <1>8, <1>9, <1>10, <1>11 DEF DealInv

-----------------------------------------------------------------------------

\* The version that a change replaces was current until now.
LEMMA ReplaceKeeps ==
  ASSUME DealInv, Replace
  PROVE  DealInv'
<1>1. /\ catalogue \in Nat /\ catalogue < MaxObject /\ catalogue' = catalogue + 1
      /\ UNCHANGED <<clock, cache, holder, reader>> /\ due' = due + 1 /\ due \in Nat
      /\ replaced' = IF catalogue = 0 THEN replaced ELSE [replaced EXCEPT ![catalogue] = clock]
  BY DEF Replace, DealInv, DealTypesTypeOK
<1>2. DealTypesTypeOK /\ clock \in Nat /\ replaced \in [Versions -> Nat]
  BY DEF DealInv, DealTypesTypeOK
<1>3. DealTypesTypeOK'
  BY <1>1, <1>2, DealTypesAssumption DEF DealTypesTypeOK, Versions
<1>4. ASSUME NEW v \in Data, NEW since \in Int, CurrentAt(v, since), since <= clock
      PROVE  CurrentAt(v, since)'
  <2>1. CASE v = Bundled
    BY <2>1 DEF CurrentAt
  <2>2. CASE v # Bundled /\ v = catalogue
    <3>1. replaced'[v] = clock
      BY <1>1, <1>2, <2>2, DealTypesAssumption DEF Bundled, Versions
    <3> QED
      BY <1>4, <3>1 DEF CurrentAt
  <2>3. CASE v # Bundled /\ v # catalogue
    <3>1. v \in Versions /\ replaced'[v] = replaced[v]
      BY <1>1, <1>2, <2>3 DEF Data, Versions, Bundled
    <3> QED
      BY <1>4, <2>3, <3>1 DEF CurrentAt
  <2> QED
    BY <2>1, <2>2, <2>3
<1>5. ASSUME NEW v \in Data, NEW now \in Nat, Answers(v, now), now <= clock
      PROVE  Answers(v, now)'
  <2> SUFFICES ASSUME v # Bundled PROVE CurrentAfter(v, now - TTL)'
    BY DEF Answers
  <2>1. v \in Versions /\ CurrentAfter(v, now - TTL)
    BY <1>5 DEF Data, Versions, Bundled, Answers
  <2>2. CASE v = catalogue
    <3>1. replaced'[v] = clock
      BY <1>1, <1>2, <2>1, <2>2 DEF Versions
    <3> QED
      BY <1>2, <1>5, <3>1, DealTypesAssumption DEF CurrentAfter
  <2>3. CASE v # catalogue
    <3>1. replaced'[v] = replaced[v]
      BY <1>1, <1>2, <2>1, <2>3 DEF Versions
    <3> QED
      BY <2>1, <2>3, <3>1 DEF CurrentAfter
  <2> QED
    BY <2>2, <2>3
<1>6. CopyInv'
  <2> SUFFICES ASSUME cache # NoCache
               PROVE  cache.stamp <= clock /\ CurrentAt(cache.data, cache.stamp)'
    BY <1>1 DEF CopyInv, CurrentAt
  <2>1. cache.stamp \in Nat /\ cache.data \in Data
    BY <1>2, FieldsOfCache
  <2>2. cache.stamp <= clock /\ CurrentAt(cache.data, cache.stamp)
    BY DEF DealInv, CopyInv
  <2> QED
    BY <1>1, <1>4, <2>1, <2>2 DEF CurrentAt
<1>7. ASSUME NEW t \in Threads
      PROVE  /\ reader[t] # Out => reader[t].now \in Nat /\ reader[t].now <= clock
             /\ reader[t].pc \in {"store", "answered"} => reader[t].data \in Data
             /\ reader[t].pc \in {"take", "load", "store", "answered"} => reader[t] # Out
  BY <1>2, FieldsOfReader DEF DealInv, ReaderInv, Out
<1>8. ASSUME NEW t \in Threads PROVE ReaderInv(t)'
  <2>1. ReaderInv(t) /\ reader'[t] = reader[t]
    BY <1>1 DEF DealInv
  <2>2. reader[t].pc = "store" => CurrentAt(reader[t].data, reader[t].now)'
    BY <1>1, <1>4, <1>7, <2>1 DEF ReaderInv, CurrentAt
  <2>3. reader[t].pc = "take" /\ cache # NoCache => Answers(cache.data, reader[t].now)'
    BY <1>1, <1>2, <1>5, <1>7, <2>1, FieldsOfCache DEF ReaderInv, Answers, CurrentAfter
  <2>4. reader[t].pc = "answered" => Answers(reader[t].data, reader[t].now)'
    BY <1>1, <1>5, <1>7, <2>1 DEF ReaderInv, Answers, CurrentAfter
  <2> QED
    BY <1>1, <2>1, <2>2, <2>3, <2>4 DEF ReaderInv
<1>9. ASSUME NEW t \in Threads, NEW u \in Threads PROVE StoreInv(t, u)'
  <2>1. StoreInv(t, u)
    BY DEF DealInv
  <2> QED
    BY <1>1, <1>5, <1>7, <2>1 DEF StoreInv, Answers, CurrentAfter
<1> QED
  BY <1>3, <1>6, <1>8, <1>9 DEF DealInv

\* The copy is dropped, or the clock moves on: less is claimed than before.
LEMMA QuietKeeps ==
  ASSUME DealInv, Invalidate \/ Pass \/ UNCHANGED dealVars
  PROVE  DealInv'
<1>1. /\ UNCHANGED <<catalogue, replaced, holder, reader>>
      /\ cache' = cache \/ cache' = NoCache
      /\ clock' = clock \/ clock' = clock + 1
      /\ due' \in Nat /\ clock \in Nat /\ DealTypesTypeOK
  BY DEF Invalidate, Pass, dealVars, DealInv, DealTypesTypeOK
<1>2. DealTypesTypeOK'
  BY <1>1 DEF DealTypesTypeOK, Caches
<1>3. CopyInv'
  BY <1>1, FieldsOfCache DEF DealInv, CopyInv, CurrentAt
<1>4. ASSUME NEW t \in Threads PROVE ReaderInv(t)'
  <2>1. ReaderInv(t) /\ (reader[t] # Out => reader[t].now \in Nat)
    BY <1>1, FieldsOfReader DEF DealInv
  <2> QED
    BY <1>1, <2>1 DEF ReaderInv, CurrentAt, Answers, CurrentAfter
<1>5. ASSUME NEW t \in Threads, NEW u \in Threads PROVE StoreInv(t, u)'
  <2>1. StoreInv(t, u)
    BY DEF DealInv
  <2> QED
    BY <1>1, <2>1 DEF StoreInv, Answers, CurrentAfter
<1> QED
  BY <1>2, <1>3, <1>4, <1>5 DEF DealInv

LEMMA DealNext ==
  ASSUME DealInv, [DealTypesNext]_dealVars
  PROVE  DealInv'
BY CallKeeps, AcquireKeeps, RaiseKeeps, CheckKeeps, TakeKeeps, LoadKeeps, StoreKeeps, ReplaceKeeps,
   QuietKeeps DEF DealTypesNext

\* The copy, the lock and every reader have the shape the code gives them.
THEOREM DealTypesAreTyped == DealTypesSpec => []DealTypesTypeOK
<1>1. DealInv => DealTypesTypeOK
  BY DEF DealInv
<1> QED
  BY <1>1, InitDealTypes, DealNext, PTL DEF DealTypesSpec

\* An answer from the storage was current less than TTL before the call began,
\* however long the call waited and whatever overtook it, in the lock or
\* between its reads of the copy.
THEOREM DealTypesStaleAtMostTTL == DealTypesSpec => []StaleAtMostTTL
<1>1. DealInv => StaleAtMostTTL
  BY DEF DealInv, ReaderInv, Answers, StaleAtMostTTL
<1> QED
  BY <1>1, InitDealTypes, DealNext, PTL DEF DealTypesSpec

-----------------------------------------------------------------------------
(* The models *)

Jobs == [step : Steps, copy : Copies \cup {Preloaded, NoCopy}, searches : BOOLEAN]

\* Worker t is in a search that will drop the cached copy.
SearchOwns(t) ==
  /\ worker[t].searches
  /\ worker[t].step \in {"encoding", "ranking", "loading reranker", "releasing"}
  /\ worker[t].copy \in {embedder, NoCopy}

\* The inductive invariant: a copy is held only while a query is embedded, the
\* cached one belongs to a search, and the language model to a call.
MemoryInv ==
  /\ ModelMemoryTypeOK
  /\ \A t \in Workers :
       /\ worker[t].step \in {"searching", "loading", "encoding", "releasing"}
            => worker[t].searches
       /\ worker[t].copy # NoCopy => worker[t].step = "encoding"
  /\ swap /\ embedder \in Copies => \E t \in Workers : SearchOwns(t)
  /\ swap /\ llm /\ ~kept => \E t \in Workers : worker[t].step \in {"asking", "asked"}

LEMMA InitMemory == ModelMemoryInit => MemoryInv
BY ModelMemoryAssumption
   DEF ModelMemoryInit, MemoryInv, ModelMemoryTypeOK, PreloadOutcomes, Steps, Rerankers

LEMMA GoesOn ==
  ASSUME MemoryInv, NEW t \in Workers, NEW step \in Steps, GoOn(t, step)
  PROVE  /\ worker' \in [Workers -> Jobs]
         /\ \A u \in Workers : u # t => worker'[u] = worker[u]
         /\ worker'[t].step = step /\ worker'[t].copy = NoCopy
         /\ worker'[t].searches = worker[t].searches
BY DEF MemoryInv, ModelMemoryTypeOK, GoOn, Jobs

LEMMA HasLeft ==
  ASSUME MemoryInv, NEW t \in Workers, Leaves(t)
  PROVE  /\ worker' \in [Workers -> Jobs]
         /\ \A u \in Workers : u # t => worker'[u] = worker[u]
         /\ worker'[t].step = "idle" /\ worker'[t].copy = NoCopy
BY DEF MemoryInv, ModelMemoryTypeOK, Leaves, Jobs, Steps

\* One worker moves on: it leaves the cached copy to a search, and the
\* language model to a call.
LEMMA WorkerKeeps ==
  ASSUME MemoryInv, NEW t \in Workers,
         swap' = swap, llm' \in BOOLEAN, kept' \in BOOLEAN,
         embedder' \in Copies \cup {Preloaded, NoCopy}, reranker' \in Rerankers,
         worker' \in [Workers -> Jobs],
         \A u \in Workers : u # t => worker'[u] = worker[u],
         worker'[t].step \in {"searching", "loading", "encoding", "releasing"}
           => worker'[t].searches,
         worker'[t].copy # NoCopy => worker'[t].step = "encoding",
         \/ swap /\ embedder' = NoCopy
         \/ ~swap
         \/ embedder' = embedder /\ (SearchOwns(t) => SearchOwns(t)')
         \/ SearchOwns(t)',
         swap /\ llm' /\ ~kept'
           => \/ worker'[t].step \in {"asking", "asked"}
              \/ \E u \in Workers : u # t /\ worker[u].step \in {"asking", "asked"}
  PROVE  MemoryInv'
<1>1. ModelMemoryTypeOK'
  BY DEF MemoryInv, ModelMemoryTypeOK, Jobs
<1>2. ASSUME NEW u \in Workers
      PROVE  /\ worker'[u].step \in {"searching", "loading", "encoding", "releasing"}
                  => worker'[u].searches
             /\ worker'[u].copy # NoCopy => worker'[u].step = "encoding"
  BY DEF MemoryInv
<1>3. ASSUME swap', embedder' \in Copies
      PROVE  \E u \in Workers : SearchOwns(u)'
  <2>1. CASE embedder' = embedder /\ (SearchOwns(t) => SearchOwns(t)')
    <3>1. PICK u \in Workers : SearchOwns(u)
      BY <1>3, <2>1 DEF MemoryInv
    <3>2. CASE u = t
      BY <2>1, <3>1, <3>2
    <3>3. CASE u # t
      BY <2>1, <3>1, <3>3 DEF SearchOwns
    <3> QED
      BY <3>2, <3>3
  <2>2. CASE SearchOwns(t)'
    BY <2>2
  <2> QED
    BY <1>3, <2>1, <2>2, ModelMemoryAssumption
<1>4. ASSUME swap', llm', ~kept'
      PROVE  \E u \in Workers : worker'[u].step \in {"asking", "asked"}
  <2>1. CASE worker'[t].step \in {"asking", "asked"}
    BY <2>1
  <2>2. CASE \E u \in Workers : u # t /\ worker[u].step \in {"asking", "asked"}
    BY <2>2
  <2> QED
    BY <1>4, <2>1, <2>2
<1> QED
  BY <1>1, <1>2, <1>3, <1>4 DEF MemoryInv

\* Whoever is not in a call leaves the language model to those who are.
LEMMA NotMine ==
  ASSUME MemoryInv, NEW t \in Workers, worker[t].step \notin {"asking", "asked"},
         UNCHANGED <<llm, kept>>
  PROVE  /\ llm' \in BOOLEAN /\ kept' \in BOOLEAN
         /\ swap /\ llm' /\ ~kept'
              => \E u \in Workers : u # t /\ worker[u].step \in {"asking", "asked"}
BY DEF MemoryInv, ModelMemoryTypeOK

LEMMA Unloaded ==
  ASSUME MemoryInv, NEW t \in Workers, Unload(t)
  PROVE  /\ llm' \in BOOLEAN /\ kept' \in BOOLEAN
         /\ swap /\ llm' /\ ~kept'
              => \E u \in Workers : u # t /\ worker[u].step \in {"asking", "asked"}
BY DEF MemoryInv, ModelMemoryTypeOK, Unload

LEMMA TypedMemory ==
  ASSUME MemoryInv
  PROVE  /\ swap \in BOOLEAN /\ llm \in BOOLEAN /\ kept \in BOOLEAN
         /\ embedder \in Copies \cup {Preloaded, NoCopy} /\ reranker \in Rerankers
         /\ worker \in [Workers -> Jobs]
BY DEF MemoryInv, ModelMemoryTypeOK, Jobs

LEMMA StepSet ==
  /\ {"idle", "asking", "asked", "searching", "loading", "encoding", "ranking",
      "loading reranker", "releasing"} \subseteq Steps
BY DEF Steps

\* The steps of a call of the language model.
LEMMA CallsKeep ==
  ASSUME MemoryInv, NEW t \in Workers, AskModel(t) \/ CallEnds(t) \/ UnloadAfterCall(t)
  PROVE  MemoryInv'
<1>1. worker[t].step \in {"idle", "asking", "asked"}
  BY DEF AskModel, CallEnds, UnloadAfterCall
<1>2. ~SearchOwns(t)
  BY <1>1 DEF SearchOwns
<1>3. CASE AskModel(t)
  <2>1. /\ llm' = TRUE /\ GoOn(t, "asking") /\ UNCHANGED <<swap, embedder, reranker, kept>>
    BY <1>3 DEF AskModel
  <2>2. /\ worker' \in [Workers -> Jobs] /\ \A u \in Workers : u # t => worker'[u] = worker[u]
        /\ worker'[t].step = "asking" /\ worker'[t].copy = NoCopy
    BY <2>1, GoesOn, StepSet
  <2> QED
    BY <1>2, <2>1, <2>2, TypedMemory, WorkerKeeps
<1>4. CASE CallEnds(t)
  <2>1. /\ UNCHANGED <<swap, embedder, reranker, llm, kept>>
        /\ IF swap THEN GoOn(t, "asked") ELSE Leaves(t)
    BY <1>4 DEF CallEnds
  <2>2. /\ worker' \in [Workers -> Jobs] /\ \A u \in Workers : u # t => worker'[u] = worker[u]
        /\ worker'[t].step \in {"asked", "idle"} /\ worker'[t].copy = NoCopy
        /\ swap => worker'[t].step = "asked"
    BY <2>1, GoesOn, HasLeft, StepSet, TypedMemory
  <2> QED
    BY <1>2, <2>1, <2>2, TypedMemory, WorkerKeeps
<1>5. CASE UnloadAfterCall(t)
  <2>1. Unload(t) /\ Leaves(t) /\ UNCHANGED <<swap, embedder, reranker>>
    BY <1>5 DEF UnloadAfterCall
  <2>2. /\ worker' \in [Workers -> Jobs] /\ \A u \in Workers : u # t => worker'[u] = worker[u]
        /\ worker'[t].step = "idle" /\ worker'[t].copy = NoCopy
    BY <2>1, HasLeft
  <2> QED
    BY <1>2, <2>1, <2>2, TypedMemory, Unloaded, WorkerKeeps
<1> QED
  BY <1>3, <1>4, <1>5

\* The steps of a search up to the copy it embeds the query with.
LEMMA SearchKeeps ==
  ASSUME MemoryInv, NEW t \in Workers, StartSearch(t) \/ GetEmbedder(t) \/ LoadEmbedder(t)
  PROVE  MemoryInv'
<1>1. worker[t].step \in {"idle", "searching", "loading"}
  BY DEF StartSearch, GetEmbedder, LoadEmbedder
<1>2. ~SearchOwns(t)
  BY <1>1 DEF SearchOwns
<1>3. CASE StartSearch(t)
  <2>1. /\ worker' = [worker EXCEPT ![t] = [step |-> "searching", copy |-> NoCopy, searches |-> TRUE]]
        /\ PrepareMemory(t) /\ UNCHANGED <<swap, embedder, reranker>>
    BY <1>3 DEF StartSearch
  <2>2. [step |-> "searching", copy |-> NoCopy, searches |-> TRUE] \in Jobs
    BY StepSet DEF Jobs
  <2>3. /\ worker' \in [Workers -> Jobs] /\ \A u \in Workers : u # t => worker'[u] = worker[u]
        /\ worker'[t].step = "searching" /\ worker'[t].copy = NoCopy /\ worker'[t].searches
    BY <2>1, <2>2, TypedMemory
  <2>4. /\ llm' \in BOOLEAN /\ kept' \in BOOLEAN
        /\ swap /\ llm' /\ ~kept'
             => \E u \in Workers : u # t /\ worker[u].step \in {"asking", "asked"}
    BY <1>1, <2>1, NotMine, Unloaded DEF PrepareMemory
  <2> QED
    BY <1>2, <2>1, <2>3, <2>4, TypedMemory, WorkerKeeps
<1>4. CASE GetEmbedder(t)
  <2> DEFINE next == IF embedder = NoCopy THEN "loading" ELSE "encoding"
  <2>1. /\ worker[t].step = "searching" /\ UNCHANGED <<swap, embedder, reranker, llm, kept>>
        /\ worker' = [worker EXCEPT ![t].step = next, ![t].copy = embedder]
    BY <1>4 DEF GetEmbedder
  <2>2. next \in Steps /\ next \in {"loading", "encoding"}
        /\ (embedder # NoCopy => next = "encoding")
    BY StepSet
  <2> HIDE DEF next
  <2>3. /\ worker' \in [Workers -> Jobs] /\ \A u \in Workers : u # t => worker'[u] = worker[u]
        /\ worker'[t].step = next /\ worker'[t].copy = embedder
        /\ worker'[t].searches = worker[t].searches
    BY <2>1, <2>2, TypedMemory DEF Jobs
  <2>4. worker[t].searches
    BY <2>1 DEF MemoryInv
  <2> QED
    BY <1>1, <1>2, <2>1, <2>2, <2>3, <2>4, TypedMemory, NotMine, WorkerKeeps
<1>5. CASE LoadEmbedder(t)
  <2>1. PICK c \in Copies \ Alive :
          /\ worker' = [worker EXCEPT ![t].step = "encoding", ![t].copy = c]
          /\ embedder' = IF embedder = NoCopy THEN c ELSE embedder
    BY <1>5 DEF LoadEmbedder
  <2>2. worker[t].step = "loading" /\ UNCHANGED <<swap, reranker, llm, kept>>
    BY <1>5 DEF LoadEmbedder
  <2>3. /\ worker' \in [Workers -> Jobs] /\ \A u \in Workers : u # t => worker'[u] = worker[u]
        /\ worker'[t].step = "encoding" /\ worker'[t].copy = c
        /\ worker'[t].searches = worker[t].searches
    BY <2>1, StepSet, TypedMemory DEF Jobs
  <2>4. worker[t].searches
    BY <2>2 DEF MemoryInv
  <2>5. embedder' \in Copies \cup {Preloaded, NoCopy}
    BY <2>1, TypedMemory
  <2>6. embedder' = embedder \/ SearchOwns(t)'
    BY <2>1, <2>3, <2>4 DEF SearchOwns
  <2> QED
    BY <1>1, <1>2, <2>2, <2>3, <2>4, <2>5, <2>6, TypedMemory, NotMine, WorkerKeeps
<1> QED
  BY <1>3, <1>4, <1>5

\* A worker that searches or ranks goes on without a copy, or ends.
LEMMA GoOnKeeps ==
  ASSUME MemoryInv, NEW t \in Workers, UNCHANGED <<swap, embedder, llm, kept>>,
         reranker' \in Rerankers,
         worker[t].step \in {"loading", "encoding", "ranking", "loading reranker"}
           \/ worker[t].step = "idle",
         NEW step \in {"ranking", "loading reranker", "releasing"}, GoOn(t, step),
         step = "releasing" => worker[t].searches
  PROVE  MemoryInv'
<1>1. step \in Steps
  BY StepSet
<1>2. /\ worker' \in [Workers -> Jobs] /\ \A u \in Workers : u # t => worker'[u] = worker[u]
      /\ worker'[t].step = step /\ worker'[t].copy = NoCopy
      /\ worker'[t].searches = worker[t].searches
  BY <1>1, GoesOn
<1>3. SearchOwns(t) => SearchOwns(t)'
  BY <1>2 DEF SearchOwns
<1> QED
  BY <1>2, <1>3, TypedMemory, NotMine, WorkerKeeps

LEMMA LeaveKeeps ==
  ASSUME MemoryInv, NEW t \in Workers, UNCHANGED <<swap, embedder, llm, kept>>,
         reranker' \in Rerankers, ~worker[t].searches,
         worker[t].step \in {"ranking", "loading reranker"}, Leaves(t)
  PROVE  MemoryInv'
<1>1. /\ worker' \in [Workers -> Jobs] /\ \A u \in Workers : u # t => worker'[u] = worker[u]
      /\ worker'[t].step = "idle" /\ worker'[t].copy = NoCopy
  BY HasLeft
<1>2. ~SearchOwns(t)
  BY DEF SearchOwns
<1> QED
  BY <1>1, <1>2, TypedMemory, NotMine, WorkerKeeps

LEMMA ReleaseKeeps ==
  ASSUME MemoryInv, NEW t \in Workers, ReleaseMemory(t)
  PROVE  MemoryInv'
<1>1. /\ worker[t].step = "releasing" /\ Leaves(t)
      /\ embedder' = IF swap THEN NoCopy ELSE embedder
      /\ UNCHANGED <<swap, reranker, llm, kept>>
  BY DEF ReleaseMemory
<1>2. /\ worker' \in [Workers -> Jobs] /\ \A u \in Workers : u # t => worker'[u] = worker[u]
      /\ worker'[t].step = "idle" /\ worker'[t].copy = NoCopy
  BY <1>1, HasLeft
<1>3. embedder' \in Copies \cup {Preloaded, NoCopy} /\ (swap => embedder' = NoCopy)
  BY <1>1, TypedMemory
<1> QED
  BY <1>1, <1>2, <1>3, TypedMemory, NotMine, WorkerKeeps

LEMMA MemoryNext ==
  ASSUME MemoryInv, [ModelMemoryNext]_memoryVars
  PROVE  MemoryInv'
<1>1. CASE UNCHANGED memoryVars
  BY <1>1 DEF memoryVars, MemoryInv, ModelMemoryTypeOK, SearchOwns
<1>2. ASSUME NEW t \in Workers, MemoryStep(t)
      PROVE  MemoryInv'
  <2>1. CASE AskModel(t) \/ CallEnds(t) \/ UnloadAfterCall(t)
    BY <2>1, CallsKeep
  <2>2. CASE StartSearch(t) \/ GetEmbedder(t) \/ LoadEmbedder(t)
    BY <2>2, SearchKeeps
  <2>3. CASE Encode(t)
    <3>1. worker[t].searches
      BY <2>3 DEF Encode, MemoryInv
    <3> QED
      BY <2>3, <3>1, TypedMemory, GoOnKeeps DEF Encode
  <2>4. CASE SearchFails(t)
    BY <2>4, TypedMemory, GoOnKeeps DEF SearchFails
  <2>5. CASE ReleaseMemory(t)
    BY <2>5, ReleaseKeeps
  <2>6. CASE RankOnly(t)
    BY <2>6, TypedMemory, GoOnKeeps DEF RankOnly
  <2>7. CASE Rank(t)
    BY <2>7, TypedMemory, GoOnKeeps, LeaveKeeps DEF Rank, RankingEnds
  <2>8. CASE LoadReranker(t)
    <3>1. reranker' \in Rerankers
      BY <2>8, TypedMemory DEF LoadReranker
    <3> QED
      BY <2>8, <3>1, GoOnKeeps, LeaveKeeps DEF LoadReranker, RankingEnds
  <2>9. CASE RankOnlyFails(t)
    BY <2>9, TypedMemory, LeaveKeeps DEF RankOnlyFails
  <2> QED
    BY <1>2, <2>1, <2>2, <2>3, <2>4, <2>5, <2>6, <2>7, <2>8, <2>9 DEF MemoryStep
<1> QED
  BY <1>1, <1>2 DEF ModelMemoryNext

-----------------------------------------------------------------------------

\* Each copy of the embedding model but the preloaded one has a search of its
\* own: the search that holds it, or for the cached one the search that drops it.
LEMMA CopiesAreOwned ==
  ASSUME MemoryInv, swap
  PROVE  Cardinality(Alive \ {Preloaded}) <= Cardinality({t \in Workers : worker[t].searches})
<1> DEFINE X == Alive \ {Preloaded}
           W == {t \in Workers : worker[t].searches}
           Owner(x, t) == \/ worker[t].copy = x
                          \/ x = embedder /\ worker[t].copy = NoCopy
           f == [x \in X |-> CHOOSE t \in W : Owner(x, t)]
<1>1. ASSUME NEW x \in X
      PROVE  \E t \in W : Owner(x, t)
  <2>1. x # NoCopy /\ x # Preloaded
        /\ (x = embedder \/ \E t \in Workers : x = worker[t].copy)
    BY DEF Alive
  <2>2. CASE x = embedder
    <3>1. embedder \in Copies
      BY <2>1, <2>2, TypedMemory
    <3>2. PICK t \in Workers : SearchOwns(t)
      BY <3>1 DEF MemoryInv
    <3> QED
      BY <2>2, <3>2 DEF SearchOwns
  <2>3. CASE \E t \in Workers : x = worker[t].copy
    <3>1. PICK t \in Workers : x = worker[t].copy
      BY <2>3
    <3>2. worker[t].searches
      BY <2>1, <3>1 DEF MemoryInv
    <3> QED
      BY <3>1, <3>2
  <2> QED
    BY <2>1, <2>2, <2>3
<1>2. ASSUME NEW x \in X
      PROVE  f[x] \in W /\ Owner(x, f[x])
  BY <1>1
<1>3. NoCopy \notin X
  BY DEF Alive
<1> HIDE DEF f
<1>4. f \in [X -> W]
  BY <1>2 DEF f
<1>5. ASSUME NEW x \in X, NEW y \in X, f[x] = f[y]
      PROVE  x = y
  BY <1>2, <1>3, <1>5
<1>6. f \in Injection(X, W)
  BY <1>4, <1>5 DEF Injection, IsInjective
<1>7. IsFiniteSet(W)
  BY FS_Subset, ModelMemoryAssumption
<1> HIDE DEF X, W
<1> QED
  BY <1>6, <1>7, FS_Injection DEF X, W

\* The caches, the language model and the workers have the shape the code
\* gives them.
THEOREM MemoryIsTyped == ModelMemorySpec => []ModelMemoryTypeOK
<1>1. MemoryInv => ModelMemoryTypeOK
  BY DEF MemoryInv
<1> QED
  BY <1>1, InitMemory, MemoryNext, PTL DEF ModelMemorySpec

\* In the swap mode every loaded copy of the embedding model belongs to a
\* search, and the language model to a call, for any number of workers.
THEOREM ModelMemoryFollowsWork == ModelMemorySpec => []MemoryFollowsWork
<1>1. MemoryInv => MemoryFollowsWork
  BY CopiesAreOwned DEF MemoryInv, MemoryFollowsWork
<1> QED
  BY <1>1, InitMemory, MemoryNext, PTL DEF ModelMemorySpec

-----------------------------------------------------------------------------
(* The live channels                                                       *)

\* The events recorded are those up to `tracked'.
RecordedInOrder == \A e \in Events : emit[e] = NotYet <=> e > tracked

\* The inductive invariant.  A socket that is open is still registered, so an
\* event that has been recorded and not yet copied will find it.
FeedInv == FeedTypeOK /\ RegistryIsExact /\ RecordedInOrder /\ NothingMissed

LEMMA InitFeed == FeedInit => FeedInv
<1> SUFFICES ASSUME FeedInit PROVE FeedInv
  OBVIOUS
<1>1. FeedTypeOK
  BY FeedAssumption DEF FeedInit, FeedTypeOK, ConnStates, EmitStates
<1>2. RegistryIsExact /\ RecordedInOrder /\ NothingMissed
  BY FeedAssumption DEF FeedInit, RegistryIsExact, RecordedInOrder, NothingMissed, Events
<1> QED
  BY <1>1, <1>2 DEF FeedInv

LEMMA StatesOfEmit ==
  /\ NotYet \in EmitStates /\ Recorded \in EmitStates
  /\ NotYet.pc = "not yet" /\ Recorded.pc = "recorded" /\ NotYet # Recorded
  /\ \A T \in SUBSET Sockets :
       /\ Sending(T) \in EmitStates
       /\ Sending(T).pc = "sending" /\ Sending(T).targets = T
       /\ Sending(T) # NotYet /\ Sending(T) # Recorded
BY DEF EmitStates, NotYet, Recorded, Sending

-----------------------------------------------------------------------------
(* The endpoint *)

\* A step of one endpoint: events stay where they are, and the socket opens
\* only with the snapshot of all that was recorded.
LEMMA EndpointKeeps ==
  ASSUME FeedInv, NEW c \in Sockets, NEW label \in ConnStates,
         conn' = [conn EXCEPT ![c] = label],
         UNCHANGED <<tracked, emit, received>>,
         registry' \subseteq Sockets,
         \A d \in Sockets \ {c} : d \in registry' <=> d \in registry,
         c \in registry' <=> label \in {"registered", "open", "leaving"},
         \/ label # "open" /\ shown' = shown
         \/ label = "open" /\ shown' = [shown EXCEPT ![c] = tracked]
  PROVE  FeedInv'
<1>1. \A d \in Sockets : conn'[d] = IF d = c THEN label ELSE conn[d]
  BY DEF FeedInv, FeedTypeOK
<1>2. FeedTypeOK'
  BY DEF FeedInv, FeedTypeOK
<1>3. RegistryIsExact' /\ RecordedInOrder'
  BY <1>1 DEF FeedInv, RegistryIsExact, RecordedInOrder
<1>4. NothingMissed'
  <2> SUFFICES ASSUME NEW d \in Sockets, NEW e \in Events, conn'[d] = "open", e <= tracked'
               PROVE  e <= shown'[d] \/ e \in received'[d] \/ OnItsWay(e, d)'
    BY DEF NothingMissed
  <2>1. CASE d = c
    BY <1>1, <2>1 DEF FeedInv, FeedTypeOK
  <2>2. CASE d # c
    BY <1>1, <2>2 DEF FeedInv, FeedTypeOK, NothingMissed, OnItsWay
  <2> QED
    BY <2>1, <2>2
<1> QED
  BY <1>2, <1>3, <1>4 DEF FeedInv

LEMMA EndpointSteps ==
  ASSUME FeedInv, NEW c \in Sockets,
         Accept(c) \/ Register(c) \/ Snapshot(c) \/ Disconnect(c) \/ Unregister(c)
  PROVE  FeedInv'
<1>1. CASE Accept(c)
  BY <1>1, EndpointKeeps DEF Accept, ConnStates, FeedInv, FeedTypeOK, RegistryIsExact
<1>2. CASE Register(c)
  BY <1>2, EndpointKeeps DEF Register, ConnStates, FeedInv, FeedTypeOK
<1>3. CASE Snapshot(c)
  BY <1>3, EndpointKeeps DEF Snapshot, ConnStates, FeedInv, FeedTypeOK, RegistryIsExact
<1>4. CASE Disconnect(c)
  BY <1>4, EndpointKeeps DEF Disconnect, ConnStates, FeedInv, FeedTypeOK, RegistryIsExact
<1>5. CASE Unregister(c)
  BY <1>5, EndpointKeeps DEF Unregister, ConnStates, FeedInv, FeedTypeOK
<1> QED
  BY <1>1, <1>2, <1>3, <1>4, <1>5

-----------------------------------------------------------------------------
(* The events *)

LEMMA TrackKeeps ==
  ASSUME FeedInv, NEW e \in Events, Track(e)
  PROVE  FeedInv'
<1>1. /\ e = tracked + 1 /\ tracked' = e /\ tracked \in Nat
      /\ \A d \in Events : emit'[d] = IF d = e THEN Recorded ELSE emit[d]
      /\ UNCHANGED <<conn, registry, shown, received>>
  BY FeedAssumption DEF Track, FeedInv, FeedTypeOK
<1>2. FeedTypeOK'
  <2>1. emit' \in [Events -> EmitStates]
    BY StatesOfEmit DEF Track, FeedInv, FeedTypeOK
  <2>2. tracked' \in 0 .. MaxEvent
    BY <1>1, FeedAssumption DEF Events
  <2> QED
    BY <1>1, <2>1, <2>2 DEF FeedInv, FeedTypeOK
<1>3. RegistryIsExact'
  BY <1>1 DEF FeedInv, RegistryIsExact
<1>4. \A d \in Events : d \in Nat /\ (d > tracked' <=> d > tracked /\ d # e)
  BY <1>1, FeedAssumption DEF Events
<1>5. RecordedInOrder'
  BY <1>1, <1>4, StatesOfEmit DEF FeedInv, RecordedInOrder
<1>6. \A d \in Events : d <= tracked' => d = e \/ d <= tracked
  BY <1>1, <1>4
<1>7. \A c \in Sockets, d \in Events : d = e \/ OnItsWay(d, c) => OnItsWay(d, c)'
  BY <1>1 DEF OnItsWay
<1>8. NothingMissed'
  BY <1>1, <1>6, <1>7 DEF FeedInv, NothingMissed
<1> QED
  BY <1>2, <1>3, <1>5, <1>8 DEF FeedInv

LEMMA CopyKeeps ==
  ASSUME FeedInv, NEW e \in Events, Copy(e)
  PROVE  FeedInv'
<1>1. /\ emit[e] = Recorded /\ registry \in SUBSET Sockets
      /\ \A d \in Events : emit'[d] = IF d = e THEN Sending(registry) ELSE emit[d]
      /\ UNCHANGED <<conn, registry, tracked, shown, received>>
  BY DEF Copy, FeedInv, FeedTypeOK
<1>2. FeedTypeOK'
  BY <1>1, StatesOfEmit DEF Copy, FeedInv, FeedTypeOK
<1>3. RegistryIsExact' /\ RecordedInOrder'
  BY <1>1, StatesOfEmit DEF FeedInv, RegistryIsExact, RecordedInOrder
<1>4. \A c \in Sockets : conn[c] = "open" => OnItsWay(e, c)'
  <2>1. emit'[e].pc = "sending" /\ emit'[e].targets = registry
    BY <1>1 DEF Sending
  <2> QED
    BY <2>1 DEF FeedInv, RegistryIsExact, OnItsWay
<1>5. \A c \in Sockets, d \in Events : d # e /\ OnItsWay(d, c) => OnItsWay(d, c)'
  BY <1>1 DEF OnItsWay
<1>6. NothingMissed'
  BY <1>1, <1>4, <1>5 DEF FeedInv, NothingMissed
<1> QED
  BY <1>2, <1>3, <1>6 DEF FeedInv

LEMMA SendKeeps ==
  ASSUME FeedInv, NEW e \in Events, NEW c \in Sockets, SendTo(e, c)
  PROVE  FeedInv'
<1> DEFINE T == emit[e].targets
<1>1. emit[e].pc = "sending" /\ c \in T /\ T \in SUBSET Sockets
  BY StatesOfEmit DEF SendTo, FeedInv, FeedTypeOK, EmitStates, NotYet, Recorded
<1>2. \A d \in Events : emit'[d] = IF d = e THEN Sending(T \ {c}) ELSE emit[d]
  BY DEF SendTo, FeedInv, FeedTypeOK
<1>3. UNCHANGED <<conn, registry, tracked, shown>>
  BY DEF SendTo
<1>4. T \ {c} \in SUBSET Sockets
  BY <1>1
<1>5. \A d \in Sockets : /\ received[d] \subseteq received'[d]
                         /\ received'[d] \subseteq Events
  BY DEF SendTo, FeedInv, FeedTypeOK
<1>6. conn[c] = "open" => e \in received'[c]
  BY DEF SendTo, Gone, FeedInv, FeedTypeOK
<1> HIDE DEF T
<1>7. FeedTypeOK'
  <2>1. emit' \in [Events -> EmitStates]
    BY <1>4, StatesOfEmit DEF SendTo, FeedInv, FeedTypeOK, T
  <2>2. received' \in [Sockets -> SUBSET Events]
    BY DEF SendTo, FeedInv, FeedTypeOK
  <2> QED
    BY <1>3, <2>1, <2>2 DEF FeedInv, FeedTypeOK
<1>8. RegistryIsExact' /\ RecordedInOrder'
  BY <1>1, <1>2, <1>3, <1>4, StatesOfEmit DEF FeedInv, RegistryIsExact, RecordedInOrder
<1>9. \A b \in Sockets : b # c /\ OnItsWay(e, b) => OnItsWay(e, b)'
  BY <1>1, <1>2, <1>4, StatesOfEmit DEF OnItsWay, T
<1>10. \A b \in Sockets, d \in Events : d # e /\ OnItsWay(d, b) => OnItsWay(d, b)'
  BY <1>2 DEF OnItsWay
<1>11. NothingMissed'
  BY <1>3, <1>5, <1>6, <1>9, <1>10 DEF FeedInv, NothingMissed
<1> QED
  BY <1>7, <1>8, <1>11 DEF FeedInv

LEMMA NextFeed ==
  ASSUME FeedInv, [FeedNext]_feedVars
  PROVE  FeedInv'
<1>1. CASE UNCHANGED feedVars
  BY <1>1 DEF FeedInv, FeedTypeOK, RegistryIsExact, RecordedInOrder, NothingMissed, OnItsWay, feedVars
<1> QED
  BY <1>1, EndpointSteps, TrackKeeps, CopyKeeps, SendKeeps DEF FeedNext

-----------------------------------------------------------------------------
(* The theorems *)

\* Every step of an endpoint or of a sender keeps the registry in its type.
THEOREM FeedIsTyped == FeedSpec => []FeedTypeOK
<1>1. FeedInv => FeedTypeOK
  BY DEF FeedInv
<1> QED
  BY <1>1, InitFeed, NextFeed, PTL DEF FeedSpec

\* No closed socket stays in the registry, and no open one is missing from it.
THEOREM FeedRegistryIsExact == FeedSpec => []RegistryIsExact
<1>1. FeedInv => RegistryIsExact
  BY DEF FeedInv
<1> QED
  BY <1>1, InitFeed, NextFeed, PTL DEF FeedSpec

\* A page that connects in the middle of a job has, or will get, every event:
\* registering before the snapshot leaves no gap between the two.
THEOREM FeedNothingMissed == FeedSpec => []NothingMissed
<1>1. FeedInv => NothingMissed
  BY DEF FeedInv
<1> QED
  BY <1>1, InitFeed, NextFeed, PTL DEF FeedSpec
=============================================================================
