---------------------------- MODULE NpaJobsProofs ----------------------------
(* Proofs about NpaJobs, for any sources, jobs, collections and faults. *)
EXTENDS NpaJobs, TLAPS

-----------------------------------------------------------------------------
(* The inductive invariant *)

\* The jobs that have come past the lock, and not yet given it up.
Inside == Working \cup {"starting", "leaving"}

\* The lock is held by the one job that has come past it.
HolderIsInside == \A j \in Jobs : holder = j <=> pc[j] \in Inside

\* A job that is under way knows what it was asked for.
TaskIsKnown == \A j \in Jobs : pc[j] \notin {"none", "over"} => task[j] \in Task

NpaInv ==
  /\ TypeOK
  /\ HolderIsInside
  /\ TaskIsKnown
  /\ IndexingHasOwner
  /\ RunningIsShown
  /\ ReplacedIsExact

LEMMA InitNpa == Init => NpaInv
<1> SUFFICES ASSUME Init PROVE NpaInv
  OBVIOUS
<1>1. TypeOK
  BY NpaAssumption DEF Init, TypeOK, RowStatus, Control, Working
<1>2. HolderIsInside /\ TaskIsKnown
  BY NpaAssumption DEF Init, HolderIsInside, TaskIsKnown, Inside, Working
<1>3. IndexingHasOwner /\ RunningIsShown /\ ReplacedIsExact
  BY DEF Init, IndexingHasOwner, RunningIsShown, ReplacedIsExact, Working
<1> QED
  BY <1>1, <1>2, <1>3 DEF NpaInv

-----------------------------------------------------------------------------
(* Steps outside the jobs *)

\* What such a step may do: take rows that are not being indexed anywhere but
\* to INDEXING, remove any row, and let a job wait.
LEMMA OutsideKeeps ==
  ASSUME NpaInv, TypeOK',
         UNCHANGED <<holder, index, live, unmarked>>,
         \A n \in Rows : row'[n] = "indexing" => row[n] = "indexing",
         \A j \in Jobs :
           \/ pc'[j] = pc[j] /\ task'[j] = task[j]
           \/ pc[j] \notin Inside /\ pc'[j] \in {"scheduled", "queued"} /\ task'[j] \in Task
  PROVE  NpaInv'
<1> USE DEF NpaInv
<1>1. \A j \in Jobs : pc'[j] \in Inside \/ pc[j] \in Inside => pc'[j] = pc[j] /\ task'[j] = task[j]
  BY DEF Inside, Working
<1>2. HolderIsInside'
  BY <1>1 DEF HolderIsInside
<1>3. TaskIsKnown'
  BY DEF TaskIsKnown
<1>4. IndexingHasOwner'
  BY <1>1 DEF IndexingHasOwner, Npa, Inside
<1>5. RunningIsShown'
  BY <1>1 DEF RunningIsShown, Npa, Inside
<1>6. ReplacedIsExact'
  BY <1>1 DEF ReplacedIsExact, OfSource, Npa, Inside, Working, index
<1> QED
  BY <1>2, <1>3, <1>4, <1>5, <1>6

LEMMA OutsideNpa ==
  ASSUME NpaInv,
         \/ \E j \in Jobs : Enqueue(j) \/ \E t \in Task : Schedule(j, t)
         \/ \E n \in Rows : Upload(n) \/ Delete(n)
  PROVE  NpaInv'
<1> USE DEF NpaInv, GoTo, SetRow, At, source, control, index
<1>1. ASSUME NEW j \in Jobs, Enqueue(j) PROVE NpaInv'
  <2>1. TypeOK'
    BY <1>1 DEF Enqueue, TypeOK, Control
  <2>2. task[j] \in Task
    BY <1>1 DEF Enqueue, TaskIsKnown
  <2> QED
    BY <1>1, <2>1, <2>2, OutsideKeeps DEF Enqueue, Inside, Working, TypeOK
<1>2. ASSUME NEW j \in Jobs, NEW t \in Task, Schedule(j, t) PROVE NpaInv'
  <2>1. TypeOK'
    BY <1>2 DEF Schedule, TypeOK, Control
  <2> QED
    BY <1>2, <2>1, OutsideKeeps DEF Schedule, Inside, Working, TypeOK
<1>3. ASSUME NEW n \in Rows, Upload(n) PROVE NpaInv'
  <2>1. TypeOK'
    BY <1>3 DEF Upload, PutObjects, InsertRow, TypeOK, RowStatus
  <2> QED
    BY <1>3, <2>1, OutsideKeeps DEF Upload, PutObjects, InsertRow, TypeOK
<1>4. ASSUME NEW n \in Rows, Delete(n) PROVE NpaInv'
  <2>1. TypeOK'
    BY <1>4 DEF Delete, CheckDelete, DeleteObjects, DeleteRow, TypeOK, RowStatus
  <2> QED
    BY <1>4, <2>1, OutsideKeeps DEF Delete, CheckDelete, DeleteObjects, DeleteRow, TypeOK
<1> QED
  BY <1>1, <1>2, <1>3, <1>4
-----------------------------------------------------------------------------
(* Steps of the job that has the lock, or takes it *)

\* Only one job is inside, so a step of it concerns no other.
LEMMA OneInside ==
  ASSUME HolderIsInside, NEW i \in Jobs, NEW j \in Jobs,
         pc[i] \in Inside, pc[j] \in Inside
  PROVE  i = j
BY DEF HolderIsInside

\* A step inside leaves the lock, the queue and the requests alone; it may
\* take the row of the job to INDEXING when it goes on to work, and it must
\* take it from there, or say that it could not, when it stops.
LEMMA InsideKeeps ==
  ASSUME NpaInv, TypeOK', NEW j \in Jobs,
         pc[j] \in Inside, NEW l \in Inside, pc' = [pc EXCEPT ![j] = l],
         UNCHANGED <<task, holder>>,
         \A n \in Rows : n # Npa(j) =>
           row'[n] = row[n] /\ (n \in unmarked => n \in unmarked'),
         row'[Npa(j)] = "indexing" => l \in Working \/ Npa(j) \in unmarked',
         l \in Working \ {"failing"} => Npa(j) \in live',
         cleaned'[j] /\ l \in {"upserting", "finishing"} =>
           \A p \in points'[task[j].group] :
             p.name = Name[Npa(j)] => p.job = j /\ p.batch <= batch'[j]
  PROVE  NpaInv'
<1> USE DEF NpaInv
<1>1. task[j] \in Task /\ holder = j
  BY DEF TaskIsKnown, Inside, Working, HolderIsInside
<1>2. \A i \in Jobs \ {j} : pc'[i] = pc[i] /\ pc[i] \notin Inside
  BY OneInside DEF TypeOK
<1>3. pc'[j] = l
  BY DEF TypeOK
<1>4. HolderIsInside'
  BY <1>1, <1>2, <1>3 DEF HolderIsInside
<1>5. TaskIsKnown'
  BY <1>1, <1>2, <1>3 DEF TaskIsKnown
<1>6. IndexingHasOwner'
  <2> SUFFICES ASSUME NEW n \in Rows, row'[n] = "indexing", n \notin unmarked'
               PROVE  holder = j /\ pc'[j] \in Working /\ Npa(j) = n
    BY DEF IndexingHasOwner, Npa
  <2>1. CASE n = Npa(j)
    BY <2>1, <1>1, <1>3
  <2>2. CASE n # Npa(j)
    <3>1. row[n] = "indexing" /\ n \notin unmarked
      BY <2>2
    <3>2. PICK i \in Jobs : holder = i /\ Npa(i) = n
      BY <3>1 DEF IndexingHasOwner
    <3> QED
      BY <3>2, <1>1, <2>2
  <2> QED
    BY <2>1, <2>2
<1>7. RunningIsShown'
  BY <1>2, <1>3 DEF RunningIsShown, Npa, Inside
<1>8. ReplacedIsExact'
  <2> SUFFICES ASSUME NEW i \in Jobs, cleaned'[i], pc'[i] \in {"upserting", "finishing"},
                      NEW p \in OfSource(i)'
               PROVE  p.job = i /\ p.batch <= batch'[i]
    BY DEF ReplacedIsExact
  <2>1. i = j
    BY <1>2 DEF Inside, Working
  <2> QED
    BY <2>1, <1>3 DEF OfSource, Npa
<1> QED
  BY <1>4, <1>5, <1>6, <1>7, <1>8
LEMMA TakeNpa ==
  ASSUME NpaInv, NEW j \in Jobs, Take(j)
  PROVE  NpaInv'
<1> USE DEF NpaInv, Take, At, GoTo, source, index
<1>1. TypeOK'
  BY DEF TypeOK, Control, Working
<1>2. \A i \in Jobs : pc[i] \notin Inside
  BY NpaAssumption DEF HolderIsInside
<1>3. /\ pc'[j] = "starting" /\ holder' = j
      /\ \A i \in Jobs \ {j} : pc'[i] = pc[i]
  BY DEF TypeOK
<1>4. HolderIsInside' /\ TaskIsKnown'
  BY <1>2, <1>3 DEF HolderIsInside, TaskIsKnown, Inside, Working
<1>5. IndexingHasOwner'
  BY <1>2 DEF IndexingHasOwner, Inside
<1>6. RunningIsShown' /\ ReplacedIsExact'
  BY <1>2, <1>3 DEF RunningIsShown, ReplacedIsExact, Inside, Working
<1> QED
  BY <1>1, <1>4, <1>5, <1>6

LEMMA LeaveNpa ==
  ASSUME NpaInv, NEW j \in Jobs, Leave(j)
  PROVE  NpaInv'
<1> USE DEF NpaInv, Leave, At, GoTo, source
<1>1. TypeOK'
  BY DEF TypeOK, Control, Working
<1>2. \A i \in Jobs \ {j} : pc[i] \notin Inside /\ pc'[i] = pc[i] /\ task'[i] = task[i]
  BY OneInside DEF TypeOK, Inside
<1>3. pc'[j] = "over" /\ holder' = Nobody
  BY DEF TypeOK
<1>4. HolderIsInside' /\ TaskIsKnown'
  BY <1>2, <1>3, NpaAssumption DEF HolderIsInside, TaskIsKnown, Inside, Working
<1>5. \A n \in Rows : row[n] = "indexing" => n \in unmarked
  BY <1>2 DEF IndexingHasOwner, Inside, Working
<1>6. IndexingHasOwner'
  BY <1>5 DEF IndexingHasOwner
<1>7. RunningIsShown' /\ ReplacedIsExact'
  BY <1>2, <1>3 DEF RunningIsShown, ReplacedIsExact, Inside, Working
<1> QED
  BY <1>1, <1>4, <1>6, <1>7

LEMMA RestartNpa ==
  ASSUME NpaInv, Restart
  PROVE  NpaInv'
<1> USE DEF NpaInv, Restart, Forget
<1>1. TypeOK'
  BY DEF TypeOK, RowStatus, Control, Working
<1>2. \A i \in Jobs : pc'[i] \in {"none", "over"}
  BY DEF TypeOK
<1>3. HolderIsInside' /\ TaskIsKnown'
  BY <1>2, NpaAssumption DEF HolderIsInside, TaskIsKnown, Inside, Working
<1>4. IndexingHasOwner'
  BY DEF IndexingHasOwner
<1>5. RunningIsShown' /\ ReplacedIsExact'
  BY <1>2 DEF RunningIsShown, ReplacedIsExact, Working
<1> QED
  BY <1>1, <1>3, <1>4, <1>5

LEMMA InsideNpa ==
  ASSUME NpaInv, NEW j \in Jobs, Job(j), ~Enqueue(j), ~Take(j), ~Leave(j)
  PROVE  NpaInv'
<1> DEFINE n == Npa(j)
<1> USE DEF NpaInv, At, GoTo, SetRow, source, index
<1>1. pc[j] \in Inside
  BY DEF Job, Inside, Working, Begin, NotFound, BeginFails, Load, LoadFails, Clean,
         CleanFails, Upsert, UpsertFails, Finish, FinishFails, Fail
<1>2. task[j] \in Task /\ n \in Rows
  BY <1>1 DEF TaskIsKnown, Inside, Working, Task, Npa
<1>3. holder = j
  BY <1>1 DEF HolderIsInside
<1>4. row[n] = "indexing" => pc[j] \in Working \/ n \in unmarked
  BY <1>2, <1>3 DEF IndexingHasOwner
<1>5. pc[j] \in Working \ {"failing"} => n \in live
  BY DEF RunningIsShown
<1>6. CASE Begin(j)
  <2>1. TypeOK'
    BY <1>2, <1>6 DEF Begin, TypeOK, RowStatus, Control, Working
  <2> QED
    BY <1>1, <1>2, <1>6, <2>1, InsideKeeps DEF Begin, TypeOK, Inside, Working
<1>7. CASE NotFound(j)
  <2>1. TypeOK'
    BY <1>7 DEF NotFound, TypeOK, Control, Working
  <2> QED
    BY <1>1, <1>7, <2>1, InsideKeeps DEF NotFound, Inside, Working, Gone
<1>8. CASE BeginFails(j) \/ LoadFails(j) \/ FinishFails(j)
  <2>1. TypeOK' /\ pc' = [pc EXCEPT ![j] = "failing"]
    BY <1>8 DEF BeginFails, LoadFails, FinishFails, TypeOK, Control, Working
  <2> QED
    BY <1>1, <1>8, <2>1, InsideKeeps DEF BeginFails, LoadFails, FinishFails, Inside, Working
<1>9. CASE Load(j)
  <2>1. TypeOK'
    BY <1>2, <1>9 DEF Load, TypeOK, Control, Working
  <2> QED
    BY <1>1, <1>9, <2>1, InsideKeeps DEF Load, Inside, Working
<1>10. CASE Clean(j)
  <2> DEFINE g == task[j].group
  <2>1. g \in Groups
    BY <1>2 DEF Task
  <2>2. points' = [points EXCEPT ![g] = @ \ Old(j)] \/ points' = points
    BY <1>10 DEF Clean
  <2>3. points' \in [Groups -> SUBSET Point]
    BY <2>1, <2>2 DEF TypeOK
  <2>4. TypeOK'
    BY <1>10, <2>3 DEF Clean, TypeOK, Control, Working
  <2>5. cleaned'[j] => task[j].mode # "append" /\ points'[g] = points[g] \ Old(j)
    BY <1>10, <2>1 DEF Clean, TypeOK
  <2>6. task[j].mode \in {"recreate", "replace", "append"}
    BY <1>2 DEF Task
  <2>7. cleaned'[j] => \A p \in points'[g] : p.name # Name[n]
    BY <2>5, <2>6 DEF Old, OfSource
  <2>8. /\ pc' = [pc EXCEPT ![j] = "upserting"]
        /\ UNCHANGED <<task, holder, row, unmarked, live>>
    BY <1>10 DEF Clean
  <2>9. n \in live' /\ (row'[n] = "indexing" => "upserting" \in Working)
    BY <1>5, <1>10, <2>8 DEF Clean, Working
  <2> HIDE DEF n, g
  <2> QED
    BY <1>1, <2>4, <2>7, <2>8, <2>9, InsideKeeps DEF Inside, Working, n, g
<1>11. CASE CleanFails(j)
  <2>1. TypeOK'
    BY <1>2, <1>11 DEF CleanFails, TypeOK, Control, Working, Task
  <2> QED
    BY <1>1, <1>11, <2>1, InsideKeeps DEF CleanFails, Inside, Working
<1>12. CASE Upsert(j)
  <2>1. Name[n] \in Names /\ Size[n] \in Nat /\ batch[j] \in Nat /\ task[j].group \in Groups
    BY <1>2, NpaAssumption DEF TypeOK, Task
  <2>2. CASE batch[j] < Size[n]
    <3> DEFINE p == [name |-> Name[n], job |-> j, batch |-> batch[j] + 1]
    <3>1. p \in Point
      BY <2>1 DEF Point
    <3>2. /\ points' = [points EXCEPT ![task[j].group] = @ \cup {p}]
          /\ batch' = [batch EXCEPT ![j] = @ + 1]
          /\ UNCHANGED <<row, object, deleting, unmarked, control, cleaned, live>>
      BY <1>12, <2>2 DEF Upsert, control
    <3>3. points' \in [Groups -> SUBSET Point] /\ batch' \in [Jobs -> Nat]
      BY <3>1, <3>2, <2>1 DEF TypeOK
    <3>4. TypeOK'
      BY <3>2, <3>3 DEF TypeOK, control
    <3>5. /\ points'[task[j].group] = points[task[j].group] \cup {p}
          /\ batch'[j] = batch[j] + 1
      BY <3>2, <2>1 DEF TypeOK
    <3>6. p.job = j /\ p.batch = batch[j] + 1
      OBVIOUS
    <3>7. pc[j] = "upserting" /\ pc' = [pc EXCEPT ![j] = "upserting"]
      BY <1>12, <3>2 DEF Upsert, control, TypeOK
    <3>8. cleaned[j] => \A q \in points[task[j].group] :
            q.name = Name[n] => q.job = j /\ q.batch <= batch[j]
      BY <3>7 DEF ReplacedIsExact, OfSource
    <3>9. \A q \in points[task[j].group] : q.batch \in Nat
      BY <2>1 DEF TypeOK, Point
    <3> HIDE DEF p
    <3>10. cleaned'[j] => \A q \in points'[task[j].group] :
             q.name = Name[n] => q.job = j /\ q.batch <= batch'[j]
      BY <3>2, <3>5, <3>6, <3>8, <3>9, <2>1
    <3> QED
      BY <1>1, <1>5, <3>2, <3>4, <3>7, <3>10, InsideKeeps DEF Inside, Working, control
  <2>3. CASE ~(batch[j] < Size[n])
    <3>1. TypeOK'
      BY <1>12, <2>3 DEF Upsert, TypeOK, Control, Working
    <3> QED
      BY <1>1, <1>5, <1>12, <2>3, <3>1, InsideKeeps
       DEF Upsert, Inside, Working, ReplacedIsExact, OfSource
  <2> QED
    BY <2>2, <2>3
<1>13. CASE UpsertFails(j)
  <2>1. Name[n] \in Names /\ batch[j] \in Nat /\ task[j].group \in Groups
    BY <1>2, NpaAssumption DEF TypeOK, Task
  <2> DEFINE p == [name |-> Name[n], job |-> j, batch |-> batch[j] + 1]
  <2>2. p \in Point
    BY <2>1 DEF Point
  <2>3. points' \in [Groups -> SUBSET Point]
    <3>1. points' = points \/ points' = [points EXCEPT ![task[j].group] = @ \cup {p}]
      BY <1>13 DEF UpsertFails
    <3> HIDE DEF p
    <3>2. CASE points' = points
      BY <3>2 DEF TypeOK
    <3>3. CASE points' = [points EXCEPT ![task[j].group] = @ \cup {p}]
      BY <3>3, <2>1, <2>2 DEF TypeOK
    <3> QED
      BY <3>1, <3>2, <3>3
  <2>4. TypeOK'
    BY <1>13, <2>3 DEF UpsertFails, TypeOK, Control, Working
  <2> QED
    BY <1>1, <1>13, <2>4, InsideKeeps DEF UpsertFails, Inside, Working
<1>14. CASE Finish(j)
  <2>1. TypeOK'
    BY <1>2, <1>14 DEF Finish, TypeOK, RowStatus, Control, Working
  <2> QED
    BY <1>1, <1>2, <1>14, <2>1, InsideKeeps DEF Finish, TypeOK, Inside, Working
<1>15. CASE Fail(j)
  <2>1. TypeOK'
    BY <1>2, <1>15 DEF Fail, TypeOK, RowStatus, Control, Working
  <2> QED
    BY <1>1, <1>2, <1>15, <2>1, InsideKeeps DEF Fail, TypeOK, Inside, Working, Gone
<1> QED
  BY <1>6, <1>7, <1>8, <1>9, <1>10, <1>11, <1>12, <1>13, <1>14, <1>15 DEF Job

LEMMA NextNpa == NpaInv /\ [Next]_vars => NpaInv'
<1> SUFFICES ASSUME NpaInv, [Next]_vars PROVE NpaInv'
  OBVIOUS
<1>1. ASSUME NEW j \in Jobs, Job(j) PROVE NpaInv'
  BY <1>1, OutsideNpa, TakeNpa, LeaveNpa, InsideNpa
<1>2. ASSUME NEW j \in Jobs, NEW t \in Task, Schedule(j, t) PROVE NpaInv'
  BY <1>2, OutsideNpa
<1>3. ASSUME NEW n \in Rows, Upload(n) \/ Delete(n) PROVE NpaInv'
  BY <1>3, OutsideNpa
<1>4. CASE Restart
  BY <1>4, RestartNpa
<1>5. CASE UNCHANGED vars
  BY <1>5 DEF vars, source, control, index, NpaInv, TypeOK, HolderIsInside, TaskIsKnown,
              IndexingHasOwner, RunningIsShown, ReplacedIsExact, OfSource, Npa
<1> QED
  BY <1>1, <1>2, <1>3, <1>4, <1>5 DEF Next

-----------------------------------------------------------------------------
(* The theorems *)

THEOREM NpaSafe == Spec => []NpaInv
<1> QED
  BY InitNpa, NextNpa, PTL DEF Spec

\* Every step of an upload, a job or a deletion keeps its tables in their types.
THEOREM NpaTypeOK == Spec => []TypeOK
<1>1. NpaInv => TypeOK
  BY DEF NpaInv
<1> QED
  BY <1>1, NpaSafe, PTL

\* A row that says INDEXING belongs to the job that holds the lock, for any
\* number of sources and jobs, and any failures and restarts.
THEOREM NpaIndexingHasOwner == Spec => []IndexingHasOwner
<1>1. NpaInv => IndexingHasOwner
  BY DEF NpaInv
<1> QED
  BY <1>1, NpaSafe, PTL

\* The snapshot has an entry for the row of a job that is at work.
THEOREM NpaRunningIsShown == Spec => []RunningIsShown
<1>1. NpaInv => RunningIsShown
  BY DEF NpaInv
<1> QED
  BY <1>1, NpaSafe, PTL

\* A job that has seen the old points go finds only its own until it ends.
THEOREM NpaReplacedIsExact == Spec => []ReplacedIsExact
<1>1. NpaInv => ReplacedIsExact
  BY DEF NpaInv
<1> QED
  BY <1>1, NpaSafe, PTL

-----------------------------------------------------------------------------
(* Every job gets its turn: what is safety in it *)

\* The queue of the lock holds exactly the jobs that wait, each once.
QueueIsExact ==
  /\ \A k \in DOMAIN waiting : pc[waiting[k]] = "queued"
  /\ \A j \in Jobs : pc[j] = "queued" => \E k \in DOMAIN waiting : waiting[k] = j
  /\ \A k, l \in DOMAIN waiting : waiting[k] = waiting[l] => k = l

\* A job has stored no more batches than its source has.
BatchInRange ==
  \A j \in Jobs : IF pc[j] \in {"none", "over"} THEN batch[j] = 0 ELSE batch[j] <= Size[Npa(j)]

\* What a job does once it is in.
Proceed(j) ==
  \/ Begin(j) \/ NotFound(j) \/ BeginFails(j)
  \/ Load(j) \/ LoadFails(j) \/ Clean(j) \/ CleanFails(j)
  \/ Upsert(j) \/ UpsertFails(j)
  \/ Finish(j) \/ FinishFails(j) \/ Fail(j)

\* It stays in, and leaves the queue and the lock alone.
LEMMA ProceedStays ==
  ASSUME TypeOK, NEW j \in Jobs, Proceed(j)
  PROVE  /\ pc[j] \in Inside /\ pc'[j] \in Inside
         /\ \A i \in Jobs : i # j => pc'[i] = pc[i] /\ batch'[i] = batch[i]
         /\ UNCHANGED <<waiting, holder, task>>
<1> USE DEF At, GoTo, TypeOK, Inside, Working, index
<1>1. CASE Begin(j) \/ NotFound(j) \/ BeginFails(j) \/ Load(j) \/ LoadFails(j)
  BY <1>1 DEF Begin, NotFound, BeginFails, Load, LoadFails
<1>2. CASE Clean(j) \/ CleanFails(j)
  BY <1>2 DEF Clean, CleanFails
<1>3. CASE Upsert(j)
  BY <1>3 DEF Upsert
<1>4. CASE UpsertFails(j)
  BY <1>4 DEF UpsertFails
<1>5. CASE Finish(j) \/ FinishFails(j) \/ Fail(j)
  BY <1>5 DEF Finish, FinishFails, Fail
<1> QED
  BY <1>1, <1>2, <1>3, <1>4, <1>5 DEF Proceed

\* As long as the queue is the same and no job comes to wait or stops waiting.
LEMMA QueueStays ==
  ASSUME TypeOK, QueueIsExact, UNCHANGED waiting,
         \A j \in Jobs : pc[j] = "queued" <=> pc'[j] = "queued"
  PROVE  QueueIsExact'
<1>1. \A k \in DOMAIN waiting : waiting[k] \in Jobs
  BY DEF TypeOK
<1> QED
  BY <1>1 DEF QueueIsExact

LEMMA EnqueueKeepsQueue ==
  ASSUME TypeOK, QueueIsExact, NEW j \in Jobs, Enqueue(j)
  PROVE  QueueIsExact'
<1> DEFINE n == Len(waiting) + 1
<1>1. /\ waiting \in Seq(Jobs) /\ waiting' = Append(waiting, j) /\ pc[j] = "scheduled"
      /\ \A i \in Jobs : pc'[i] = IF i = j THEN "queued" ELSE pc[i]
  BY DEF Enqueue, TypeOK, At, GoTo
<1>2. /\ DOMAIN waiting = 1 .. Len(waiting) /\ Len(waiting) \in Nat /\ DOMAIN waiting' = 1 .. n
      /\ \A k \in DOMAIN waiting : waiting'[k] = waiting[k] /\ waiting[k] \in Jobs
      /\ waiting'[n] = j
  BY <1>1
<1>3. \A k \in DOMAIN waiting : waiting[k] # j
  BY <1>1 DEF QueueIsExact
<1>4. \A k \in DOMAIN waiting' : k \in DOMAIN waiting \/ k = n
  BY <1>2
<1>5. DOMAIN waiting \subseteq DOMAIN waiting' /\ n \in DOMAIN waiting'
  BY <1>2
<1> HIDE DEF n
<1>6. \A k \in DOMAIN waiting' : pc'[waiting'[k]] = "queued"
  BY <1>1, <1>2, <1>3, <1>4 DEF QueueIsExact
<1>7. \A i \in Jobs : pc'[i] = "queued" => \E k \in DOMAIN waiting' : waiting'[k] = i
  BY <1>1, <1>2, <1>5 DEF QueueIsExact
<1>8. \A k, l \in DOMAIN waiting' : waiting'[k] = waiting'[l] => k = l
  BY <1>2, <1>3, <1>4 DEF QueueIsExact
<1> QED
  BY <1>6, <1>7, <1>8 DEF QueueIsExact

LEMMA TakeKeepsQueue ==
  ASSUME TypeOK, QueueIsExact, NEW j \in Jobs, Take(j)
  PROVE  QueueIsExact'
<1>1. /\ waiting \in Seq(Jobs) /\ waiting # << >> /\ waiting' = Tail(waiting) /\ j = waiting[1]
      /\ \A i \in Jobs : pc'[i] = IF i = j THEN "starting" ELSE pc[i]
  BY DEF Take, TypeOK, At, GoTo
<1>2. /\ DOMAIN waiting = 1 .. Len(waiting) /\ Len(waiting) \in Nat /\ Len(waiting) > 0
      /\ DOMAIN waiting' = 1 .. Len(waiting) - 1
      /\ \A k \in DOMAIN waiting' : waiting'[k] = waiting[k + 1]
  BY <1>1
<1>3. \A k \in DOMAIN waiting' : k + 1 \in DOMAIN waiting /\ k + 1 # 1 /\ waiting[k + 1] # j
  BY <1>1, <1>2 DEF QueueIsExact
<1>4. \A k \in DOMAIN waiting : waiting[k] \in Jobs
  BY <1>1
<1>5. \A k \in DOMAIN waiting' : pc'[waiting'[k]] = "queued"
  BY <1>1, <1>2, <1>3, <1>4 DEF QueueIsExact
<1>6. ASSUME NEW i \in Jobs, pc'[i] = "queued" PROVE \E k \in DOMAIN waiting' : waiting'[k] = i
  <2>1. PICK k \in DOMAIN waiting : waiting[k] = i
    BY <1>1, <1>6 DEF QueueIsExact
  <2>2. k # 1
    BY <1>1, <1>6, <2>1
  <2>3. k - 1 \in DOMAIN waiting' /\ (k - 1) + 1 = k
    BY <1>2, <2>1, <2>2
  <2> QED
    BY <1>2, <2>1, <2>3
<1>7. ASSUME NEW k \in DOMAIN waiting', NEW l \in DOMAIN waiting', waiting'[k] = waiting'[l]
      PROVE  k = l
  <2>1. k + 1 = l + 1
    BY <1>2, <1>3, <1>7 DEF QueueIsExact
  <2> QED
    BY <1>2, <2>1
<1> QED
  BY <1>5, <1>6, <1>7 DEF QueueIsExact

\* No accepted job is forgotten: what waits is in the queue, and what has the
\* lock is at work and will give it back, for any number of jobs, faults and
\* restarts (the `async with _JOB_LOCK' of tasks.py).
THEOREM NpaQueueIsExact == Spec => [](QueueIsExact /\ HolderIsInside)
<1>1. Init => QueueIsExact
  BY DEF Init, QueueIsExact
<1>2. NpaInv /\ QueueIsExact /\ [Next]_vars => QueueIsExact'
  <2> SUFFICES ASSUME NpaInv, QueueIsExact, [Next]_vars PROVE QueueIsExact'
    OBVIOUS
  <2>0. TypeOK
    BY DEF NpaInv
  <2>1. ASSUME NEW j \in Jobs, Proceed(j) PROVE QueueIsExact'
    BY <2>0, <2>1, ProceedStays, QueueStays DEF Inside, Working
  <2>2. ASSUME NEW j \in Jobs, Leave(j) PROVE QueueIsExact'
    <3>1. \A i \in Jobs : pc[i] = "queued" <=> pc'[i] = "queued"
      BY <2>0, <2>2 DEF Leave, At, GoTo, TypeOK
    <3> QED
      BY <2>0, <2>2, <3>1, QueueStays DEF Leave
  <2>3. ASSUME NEW j \in Jobs, NEW t \in Task, Schedule(j, t) PROVE QueueIsExact'
    <3>1. \A i \in Jobs : pc[i] = "queued" <=> pc'[i] = "queued"
      BY <2>0, <2>3 DEF Schedule, At, GoTo, TypeOK
    <3> QED
      BY <2>0, <2>3, <3>1, QueueStays DEF Schedule
  <2>4. ASSUME NEW n \in Rows, Upload(n) \/ Delete(n) PROVE QueueIsExact'
    BY <2>0, <2>4, QueueStays DEF Upload, PutObjects, InsertRow, Delete, CheckDelete, DeleteObjects,
       DeleteRow, control
  <2>5. CASE Restart
    <3>1. waiting' = << >> /\ \A j \in Jobs : pc'[j] # "queued"
      BY <2>5 DEF Restart, Forget
    <3> QED
      BY <3>1 DEF QueueIsExact
  <2>6. CASE UNCHANGED vars
    BY <2>0, <2>6, QueueStays DEF vars, control
  <2> QED
    BY <2>0, <2>1, <2>2, <2>3, <2>4, <2>5, <2>6, EnqueueKeepsQueue, TakeKeepsQueue
       DEF Next, Job, Proceed
<1>3. NpaInv => HolderIsInside
  BY DEF NpaInv
<1> QED
  BY <1>1, <1>2, <1>3, NpaSafe, PTL DEF Spec

\* How far a job still has to go: its labels, and the batches it has to store.
Label(l) ==
  CASE l = "scheduled" -> 9
    [] l = "queued" -> 8
    [] l = "starting" -> 7
    [] l = "loading" -> 6
    [] l = "cleaning" -> 5
    [] l = "upserting" -> 4
    [] l = "finishing" -> 3
    [] l = "failing" -> 2
    [] l = "leaving" -> 1
    [] OTHER -> 0

Writing == {"scheduled", "queued", "starting", "loading", "cleaning", "upserting"}

Distance(j) == Label(pc[j]) + (IF pc[j] \in Writing THEN Size[Npa(j)] - batch[j] ELSE 0)

\* What a step of job j makes of its label and of its count of batches.
LEMMA JobMoves ==
  ASSUME TypeOK, BatchInRange, TaskIsKnown, NEW j \in Jobs, Job(j)
  PROVE  /\ \/ /\ Label(pc'[j]) < Label(pc[j]) /\ pc[j] # "none"
               /\ pc'[j] \in Writing => pc[j] \in Writing
               /\ batch'[j] = IF pc'[j] = "over" THEN 0 ELSE batch[j]
            \/ /\ pc[j] = "upserting" /\ pc'[j] = "upserting"
               /\ batch[j] < Size[Npa(j)] /\ batch'[j] = batch[j] + 1
         /\ \A i \in Jobs : i # j => pc'[i] = pc[i] /\ batch'[i] = batch[i] /\ task'[i] = task[i]
         /\ pc'[j] # "over" => task'[j] = task[j]
         /\ pc'[j] # "none" /\ (pc[j] \in Writing => task[j] \in Task)
<1> USE DEF At, GoTo, TypeOK, index, Writing
<1>0. pc[j] \in Writing => task[j] \in Task
  BY DEF TaskIsKnown
<1>1. CASE Enqueue(j) \/ Take(j)
  BY <1>0, <1>1 DEF Enqueue, Take, Label
<1>2. CASE Begin(j) \/ NotFound(j) \/ BeginFails(j)
  BY <1>0, <1>2 DEF Begin, NotFound, BeginFails, Label
<1>3. CASE Load(j) \/ LoadFails(j)
  BY <1>0, <1>3 DEF Load, LoadFails, Label
<1>4. CASE Clean(j) \/ CleanFails(j)
  BY <1>0, <1>4 DEF Clean, CleanFails, Label
<1>5. CASE Upsert(j)
  <2>1. CASE batch[j] < Size[Npa(j)]
    BY <1>0, <1>5, <2>1 DEF Upsert
  <2>2. CASE ~(batch[j] < Size[Npa(j)])
    BY <1>0, <1>5, <2>2 DEF Upsert, Label
  <2> QED
    BY <2>1, <2>2
<1>6. CASE UpsertFails(j)
  BY <1>0, <1>6 DEF UpsertFails, Label
<1>7. CASE Finish(j) \/ FinishFails(j) \/ Fail(j)
  BY <1>0, <1>7 DEF Finish, FinishFails, Fail, Label
<1>8. CASE Leave(j)
  BY <1>0, <1>8 DEF Leave, Label
<1> QED
  BY <1>1, <1>2, <1>3, <1>4, <1>5, <1>6, <1>7, <1>8 DEF Job

LEMMA BatchesInRange == Spec => [](NpaInv /\ BatchInRange)
<1>1. Init => BatchInRange
  BY DEF Init, BatchInRange
<1>2. NpaInv /\ BatchInRange /\ [Next]_vars => BatchInRange'
  <2> SUFFICES ASSUME NpaInv, BatchInRange, [Next]_vars PROVE BatchInRange'
    OBVIOUS
  <2>0. TypeOK /\ TaskIsKnown /\ Size \in [Rows -> Nat] /\ batch \in [Jobs -> Nat]
    BY NpaAssumption DEF NpaInv, TypeOK
  <2>1. ASSUME NEW j \in Jobs, Job(j) PROVE BatchInRange'
    <3> SUFFICES ASSUME NEW i \in Jobs
                 PROVE  IF pc'[i] \in {"none", "over"} THEN batch'[i] = 0
                        ELSE batch'[i] <= Size[Npa(i)']
      BY DEF BatchInRange
    <3>1. CASE i # j
      BY <2>0, <2>1, <3>1, JobMoves DEF BatchInRange, Npa
    <3>2. CASE i = j
      <4>1. pc[j] # "none" /\ pc[j] # "over" /\ batch[j] <= Size[Npa(j)]
        BY <2>1 DEF BatchInRange, Job, At, Enqueue, Take, Begin, NotFound, BeginFails, Load,
           LoadFails, Clean, CleanFails, Upsert, UpsertFails, Finish, FinishFails, Fail, Leave
      <4>2. CASE pc[j] = "upserting" /\ pc'[j] = "upserting" /\ batch[j] < Size[Npa(j)]
                 /\ batch'[j] = batch[j] + 1
        <5>1. task'[j] = task[j] /\ task[j] \in Task
          BY <2>0, <2>1, <4>2, JobMoves DEF TaskIsKnown
        <5>2. Size[Npa(j)] \in Nat /\ batch[j] \in Nat
          BY <2>0, <5>1 DEF Task, Npa
        <5> QED
          BY <3>2, <4>2, <5>1, <5>2 DEF Npa
      <4>3. CASE batch'[j] = batch[j] /\ pc'[j] # "over"
        BY <2>0, <2>1, <3>2, <4>1, <4>3, JobMoves DEF Npa
      <4>4. CASE pc'[j] = "over"
        BY <2>0, <2>1, <3>2, <4>4, JobMoves
      <4> QED
        BY <2>0, <2>1, <4>2, <4>3, <4>4, JobMoves
    <3> QED
      BY <3>1, <3>2
  <2>2. ASSUME NEW j \in Jobs, NEW t \in Task, Schedule(j, t) PROVE BatchInRange'
    <3>1. /\ pc[j] = "none" /\ pc'[j] = "scheduled" /\ task'[j] = t /\ UNCHANGED batch
          /\ \A i \in Jobs : i # j => pc'[i] = pc[i] /\ task'[i] = task[i]
      BY <2>0, <2>2 DEF Schedule, At, GoTo, TypeOK, index
    <3>2. batch[j] = 0 /\ Size[t.npa] \in Nat
      BY <2>0, <3>1 DEF BatchInRange, Task
    <3> QED
      BY <3>1, <3>2 DEF BatchInRange, Npa
  <2>3. ASSUME NEW n \in Rows, Upload(n) \/ Delete(n) PROVE BatchInRange'
    BY <2>3 DEF Upload, PutObjects, InsertRow, Delete, CheckDelete, DeleteObjects, DeleteRow,
       control, index, BatchInRange, Npa
  <2>4. CASE Restart
    BY <2>4 DEF Restart, Forget, BatchInRange
  <2>5. CASE UNCHANGED vars
    BY <2>5 DEF vars, control, index, BatchInRange, Npa
  <2> QED
    BY <2>1, <2>2, <2>3, <2>4, <2>5 DEF Next
<1> QED
  BY <1>1, <1>2, NpaSafe, PTL DEF Spec

\* Every step of a job brings it closer to its end, and nothing that others do,
\* a restart included, sends a job that is under way back.
JobsGoOn ==
  [][\A j \in Jobs :
       /\ Job(j) => Distance(j)' < Distance(j)
       /\ pc[j] # "none" => Distance(j)' <= Distance(j)]_vars

\* A job takes as many steps as its source has batches, and nine, at most:
\* nothing in it is tried again.
THEOREM NpaJobsGoOn == Spec => JobsGoOn
<1> DEFINE Forward ==
      \A j \in Jobs :
        /\ Job(j) => Distance(j)' < Distance(j)
        /\ pc[j] # "none" => Distance(j)' <= Distance(j)
<1>1. ASSUME NpaInv, BatchInRange, BatchInRange', Next PROVE Forward
  <2>0. TypeOK /\ TaskIsKnown /\ Size \in [Rows -> Nat] /\ batch \in [Jobs -> Nat]
    BY <1>1, NpaAssumption DEF NpaInv, TypeOK
  <2>1. \A l : Label(l) \in 0 .. 9
    BY DEF Label
  <2>2. \A j \in Jobs : Distance(j) \in Nat /\ Distance(j) >= Label(pc[j])
    <3> SUFFICES ASSUME NEW j \in Jobs PROVE Distance(j) \in Nat /\ Distance(j) >= Label(pc[j])
      OBVIOUS
    <3>1. pc[j] \in Writing => batch[j] \in Nat /\ Size[Npa(j)] \in Nat /\ batch[j] <= Size[Npa(j)]
      BY <1>1, <2>0 DEF BatchInRange, TaskIsKnown, Task, Npa, Writing
    <3> QED
      BY <2>1, <3>1 DEF Distance
  <2>3. ASSUME NEW j \in Jobs, Job(j)
        PROVE  /\ Distance(j)' < Distance(j) /\ Distance(j)' <= Distance(j)
               /\ \A i \in Jobs : i # j => Distance(i)' = Distance(i)
    <3>1. \A i \in Jobs : i # j => Distance(i)' = Distance(i)
      BY <1>1, <2>0, <2>3, JobMoves DEF Distance, Npa
    <3>2. pc[j] \in Writing => batch[j] \in Nat /\ Size[Npa(j)] \in Nat /\ batch[j] <= Size[Npa(j)]
      BY <1>1, <2>0 DEF BatchInRange, TaskIsKnown, Task, Npa, Writing
    <3>3. CASE pc[j] = "upserting" /\ pc'[j] = "upserting" /\ batch'[j] = batch[j] + 1
      <4>1. task'[j] = task[j]
        BY <1>1, <2>0, <2>3, <3>3, JobMoves
      <4>2. /\ Distance(j) = Label("upserting") + (Size[Npa(j)] - batch[j])
            /\ Distance(j)' = Label("upserting") + (Size[Npa(j)] - (batch[j] + 1))
        BY <3>3, <4>1 DEF Distance, Writing, Npa
      <4>3. Label("upserting") \in Nat /\ Size[Npa(j)] \in Nat /\ batch[j] \in Nat
        BY <2>1, <3>2, <3>3 DEF Writing
      <4>4. (Size[Npa(j)] - (batch[j] + 1)) < (Size[Npa(j)] - batch[j])
        BY <4>3
      <4> QED
        BY <3>1, <4>2, <4>3, <4>4
    <3>4. CASE /\ Label(pc'[j]) < Label(pc[j])
               /\ pc'[j] \in Writing => pc[j] \in Writing
               /\ batch'[j] = batch[j] \/ pc'[j] = "over"
      <4>1. CASE pc'[j] \in Writing
        <5>1. task'[j] = task[j] /\ batch'[j] = batch[j] /\ pc[j] \in Writing
          BY <1>1, <2>0, <2>3, <3>4, <4>1, JobMoves DEF Writing
        <5>2. /\ Distance(j) = Label(pc[j]) + (Size[Npa(j)] - batch[j])
              /\ Distance(j)' = Label(pc'[j]) + (Size[Npa(j)] - batch[j])
          BY <4>1, <5>1 DEF Distance, Npa
        <5>3. Label(pc[j]) \in Nat /\ Label(pc'[j]) \in Nat
          BY <2>1
        <5>4. Size[Npa(j)] - batch[j] \in Int
          BY <3>2, <5>1
        <5> QED
          BY <3>1, <3>4, <5>2, <5>3, <5>4
      <4>2. CASE pc'[j] \notin Writing
        <5>1. Distance(j)' = Label(pc'[j])
          BY <2>1, <4>2 DEF Distance
        <5>2. Label(pc[j]) \in Nat /\ Label(pc'[j]) \in Nat
          BY <2>1
        <5>3. Distance(j) \in Nat /\ Distance(j) >= Label(pc[j])
          BY <2>2
        <5> QED
          BY <3>1, <3>4, <5>1, <5>2, <5>3
      <4> QED
        BY <4>1, <4>2
    <3> QED
      BY <1>1, <2>0, <2>3, <3>1, <3>3, <3>4, JobMoves
  <2>4. ASSUME NEW i \in Jobs, NEW t \in Task, Schedule(i, t),
               NEW j \in Jobs, pc[j] # "none"
        PROVE  Distance(j)' = Distance(j)
    BY <2>0, <2>4 DEF Schedule, At, GoTo, TypeOK, index, Distance, Npa
  <2>5. ASSUME NEW n \in Rows, Upload(n) \/ Delete(n), NEW j \in Jobs
        PROVE  Distance(j)' = Distance(j)
    BY <2>5 DEF Upload, PutObjects, InsertRow, Delete, CheckDelete, DeleteObjects, DeleteRow,
       control, index, Distance, Npa
  <2>6. ASSUME Restart, NEW j \in Jobs PROVE Distance(j)' = 0
    <3>1. pc'[j] \in {"none", "over"}
      BY <2>6 DEF Restart
    <3> QED
      BY <3>1 DEF Distance, Label, Writing
  <2>7. \A j \in Jobs : ~Job(j) \/ Distance(j)' < Distance(j)
    BY <2>3
  <2>8. ASSUME NEW j \in Jobs, pc[j] # "none" PROVE Distance(j)' <= Distance(j)
    <3>1. CASE \E i \in Jobs : Job(i)
      BY <2>2, <2>3, <3>1
    <3> QED
      BY <1>1, <2>2, <2>4, <2>5, <2>6, <2>8, <3>1 DEF Next
  <2> QED
    BY <2>7, <2>8
<1>2. NpaInv /\ BatchInRange /\ BatchInRange' /\ [Next]_vars => [Forward]_vars
  BY <1>1
<1> QED
  BY <1>2, BatchesInRange, PTL DEF Spec, JobsGoOn
=============================================================================
