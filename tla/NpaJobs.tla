------------------------------- MODULE NpaJobs -------------------------------
(***************************************************************************)
(* The statutes (NPA) of the admin panel: their upload, the jobs that put  *)
(* them into the vector store, their deletion, and the progress that a     *)
(* reconnecting admin is shown (app/admin, app/rag/indexer.py).            *)
(*                                                                         *)
(* Uploads and jobs are coroutines of one event loop, so one action is     *)
(* one segment between two awaits; what a job awaits runs in a worker      *)
(* thread, and so does the whole route that deletes a source.  The vector  *)
(* store and the object storage lose requests on their own.                *)
(*                                                                         *)
(* The texts are left out: a source has a number of batches, and a point   *)
(* is known by the job and the batch it came from.  The events of a        *)
(* running job that repeat its entry in the snapshot are left out, because *)
(* each of them is tracked before the job resumes and finds it there.      *)
(* run_chunking_job is not modelled: nothing calls it.                     *)
(***************************************************************************)
EXTENDS Integers, Sequences

CONSTANTS
  Rows,      \* rows of npa_sources that can ever exist
  Names,     \* source names
  Name,      \* the name of each row: the file it came from, so not unique
  Size,      \* the batches its chunks make
  Groups,    \* source groups, each with a collection of its own
  Jobs,      \* accepted requests for an indexing job
  Nobody,    \* no job
  Faults     \* which of "crash", "db", "storage" and "vectors" may strike

ASSUME NpaAssumption ==
  /\ Name \in [Rows -> Names]
  /\ Size \in [Rows -> Nat]
  /\ Nobody \notin Jobs
  /\ Faults \subseteq {"crash", "db", "storage", "vectors"}

VARIABLES
  row,        \* npa_sources.status, and whether there is a row
  object,     \* the JSON of the chunks is in the object storage
  deleting,   \* how far the route that deletes the source is
  task,       \* what each job was asked for
  pc,         \* where it is
  waiting,    \* the jobs that queue for _JOB_LOCK
  holder,     \* the job that holds it
  cleaned,    \* the job has seen the old points go
  batch,      \* the batches it has stored
  points,     \* the points of each collection
  live,       \* _LIVE_PROGRESS: the rows that have an entry
  unmarked    \* history: rows whose failure could not be recorded

source == <<row, object, deleting, unmarked>>
control == <<task, pc, waiting, holder>>
index == <<cleaned, batch, points>>
vars == <<source, control, index, live>>

RowStatus == {"none", "uploading", "ready", "indexing", "indexed", "failed", "gone"}
Gone == {"none", "uploading", "gone"}
Working == {"loading", "cleaning", "upserting", "finishing", "failing"}
Control == {"none", "scheduled", "queued", "starting", "leaving", "over"} \cup Working

\* recreate_collection, or else delete_existing_for_source, or neither.
Task == [npa : Rows, group : Groups, mode : {"recreate", "replace", "append"}]
NoTask == [mode |-> "none"]

Point == [name : Names, job : Jobs, batch : Nat]

Init ==
  /\ row = [n \in Rows |-> "none"]
  /\ object = [n \in Rows |-> FALSE]
  /\ deleting = [n \in Rows |-> "no"]
  /\ task = [j \in Jobs |-> NoTask]
  /\ pc = [j \in Jobs |-> "none"]
  /\ waiting = <<>>
  /\ holder = Nobody
  /\ cleaned = [j \in Jobs |-> FALSE]
  /\ batch = [j \in Jobs |-> 0]
  /\ points = [g \in Groups |-> {}]
  /\ live = {}
  /\ unmarked = {}

At(j, label) == pc[j] = label
GoTo(j, label) == pc' = [pc EXCEPT ![j] = label]
Npa(j) == task[j].npa
SetRow(n, s) == row' = [row EXCEPT ![n] = s]

-----------------------------------------------------------------------------
(* POST /upload, one file of it *)

\* The text and then its chunks are put into the storage, from worker threads.
PutObjects(n) ==
  /\ row[n] = "none"
  /\ \/ SetRow(n, "uploading") /\ object' = [object EXCEPT ![n] = TRUE]
     \/ "storage" \in Faults /\ SetRow(n, "gone") /\ UNCHANGED object
  /\ UNCHANGED <<deleting, control, index, live, unmarked>>

\* The row is inserted.  When that fails the objects stay, without an owner.
InsertRow(n) ==
  /\ row[n] = "uploading"
  /\ \/ SetRow(n, "ready")
     \/ "db" \in Faults /\ SetRow(n, "gone")
  /\ UNCHANGED <<object, deleting, control, index, live, unmarked>>

-----------------------------------------------------------------------------
(* POST /sources/{npa_id}/index *)

\* The row is found and is not being indexed.  It is the job that will change
\* its status, so a second request may be accepted before that.
Schedule(j, t) ==
  /\ At(j, "none")
  /\ row[t.npa] \notin Gone \cup {"indexing"}
  /\ task' = [task EXCEPT ![j] = t]
  /\ GoTo(j, "scheduled")
  /\ UNCHANGED <<source, waiting, holder, index, live>>

-----------------------------------------------------------------------------
(* run_indexing_job *)

\* The response is out, and the job asks for the lock, which is fair.
Enqueue(j) ==
  /\ At(j, "scheduled")
  /\ waiting' = Append(waiting, j)
  /\ GoTo(j, "queued")
  /\ UNCHANGED <<source, task, holder, index, live>>

\* Mutant: a lock for every source instead of one for all jobs.
Take_PerSource(j) ==
  /\ At(j, "queued") /\ waiting # <<>> /\ j = Head(waiting)
  /\ \A i \in Jobs : pc[i] \in Working \cup {"starting"} => Npa(i) # Npa(j)
  /\ holder' = j
  /\ waiting' = Tail(waiting)
  /\ GoTo(j, "starting")
  /\ UNCHANGED <<source, task, index, live>>

Take(j) ==
  /\ At(j, "queued") /\ waiting # <<>> /\ j = Head(waiting)
  /\ holder = Nobody
  /\ holder' = j
  /\ waiting' = Tail(waiting)
  /\ GoTo(j, "starting")
  /\ UNCHANGED <<source, task, index, live>>

\* Mutants: the entry of the snapshot waits for the first event of progress;
\* the row that is gone returns without the lock being given up.
Begin_NotTracked(j) ==
  /\ At(j, "starting")
  /\ row[Npa(j)] \notin Gone
  /\ SetRow(Npa(j), "indexing")
  /\ GoTo(j, "loading")
  /\ UNCHANGED <<object, deleting, unmarked, task, waiting, holder, index, live>>

NotFound_KeepsLock(j) ==
  /\ At(j, "starting")
  /\ row[Npa(j)] \in Gone
  /\ GoTo(j, "over")
  /\ UNCHANGED <<source, task, waiting, holder, index, live>>

\* The row becomes INDEXING, and the event of that seeds the snapshot.
Begin(j) ==
  /\ At(j, "starting")
  /\ row[Npa(j)] \notin Gone
  /\ SetRow(Npa(j), "indexing")
  /\ live' = live \cup {Npa(j)}
  /\ GoTo(j, "loading")
  /\ UNCHANGED <<object, deleting, unmarked, task, waiting, holder, index>>

\* The row has been deleted since the request.
NotFound(j) ==
  /\ At(j, "starting")
  /\ row[Npa(j)] \in Gone
  /\ GoTo(j, "leaving")
  /\ UNCHANGED <<source, task, waiting, holder, index, live>>

BeginFails(j) ==
  /\ At(j, "starting")
  /\ "db" \in Faults
  /\ GoTo(j, "failing")
  /\ UNCHANGED <<source, task, waiting, holder, index, live>>

\* The chunks are read, and the first event of progress put into the snapshot.
Load(j) ==
  /\ At(j, "loading")
  /\ object[Npa(j)]
  /\ live' = live \cup {Npa(j)}
  /\ GoTo(j, "cleaning")
  /\ UNCHANGED <<source, task, waiting, holder, index>>

LoadFails(j) ==
  /\ At(j, "loading")
  /\ ~object[Npa(j)] \/ "storage" \in Faults
  /\ GoTo(j, "failing")
  /\ UNCHANGED <<source, task, waiting, holder, index, live>>

OfSource(j) == {p \in points[task[j].group] : p.name = Name[Npa(j)]}

\* What the job drops before it writes.
Old(j) ==
  CASE task[j].mode = "recreate" -> points[task[j].group]
    [] task[j].mode = "replace" -> OfSource(j)
    [] OTHER -> {}

\* recreate_collection or delete_by_source.  The latter swallows its errors.
Clean(j) ==
  /\ At(j, "cleaning")
  /\ \/ /\ points' = [points EXCEPT ![task[j].group] = @ \ Old(j)]
        /\ cleaned' = [cleaned EXCEPT ![j] = task[j].mode # "append"]
     \/ /\ "vectors" \in Faults /\ task[j].mode = "replace"
        /\ cleaned' = [cleaned EXCEPT ![j] = FALSE]
        /\ UNCHANGED points
  /\ GoTo(j, "upserting")
  /\ UNCHANGED <<source, task, waiting, holder, batch, live>>

\* The store cannot be reached, or the collection not be created again.
CleanFails(j) ==
  /\ At(j, "cleaning")
  /\ "vectors" \in Faults
  /\ \/ UNCHANGED points
     \/ /\ task[j].mode = "recreate"
        /\ points' = [points EXCEPT ![task[j].group] = {}]
  /\ GoTo(j, "failing")
  /\ UNCHANGED <<source, task, waiting, holder, cleaned, batch, live>>

Upsert(j) ==
  /\ At(j, "upserting")
  /\ IF batch[j] < Size[Npa(j)]
     THEN /\ points' = [points EXCEPT ![task[j].group] = @ \cup
               {[name |-> Name[Npa(j)], job |-> j, batch |-> batch[j] + 1]}]
          /\ batch' = [batch EXCEPT ![j] = @ + 1]
          /\ UNCHANGED pc
     ELSE GoTo(j, "finishing") /\ UNCHANGED <<points, batch>>
  /\ UNCHANGED <<source, task, waiting, holder, cleaned, live>>

\* The embedding or the request fails; a lost reply leaves the batch stored.
UpsertFails(j) ==
  /\ At(j, "upserting")
  /\ "vectors" \in Faults /\ batch[j] < Size[Npa(j)]
  /\ \/ UNCHANGED points
     \/ points' = [points EXCEPT ![task[j].group] = @ \cup
          {[name |-> Name[Npa(j)], job |-> j, batch |-> batch[j] + 1]}]
  /\ GoTo(j, "failing")
  /\ UNCHANGED <<source, task, waiting, holder, cleaned, batch, live>>

\* The row becomes INDEXED; the event of that removes the entry.
Finish(j) ==
  /\ At(j, "finishing")
  /\ row[Npa(j)] \notin Gone
  /\ SetRow(Npa(j), "indexed")
  /\ live' = live \ {Npa(j)}
  /\ unmarked' = unmarked \ {Npa(j)}
  /\ GoTo(j, "leaving")
  /\ UNCHANGED <<object, deleting, task, waiting, holder, index>>

\* The row has been deleted meanwhile, or the transaction fails.
FinishFails(j) ==
  /\ At(j, "finishing")
  /\ row[Npa(j)] \in Gone \/ "db" \in Faults
  /\ GoTo(j, "failing")
  /\ UNCHANGED <<source, task, waiting, holder, index, live>>

\* Mutant: the failure is only logged.
Fail_OnlyLogged(j) ==
  /\ At(j, "failing")
  /\ GoTo(j, "leaving")
  /\ UNCHANGED <<source, task, waiting, holder, index, live>>

\* The except clause: the row becomes FAILED, unless it is gone or that
\* transaction fails too; "admin_npa_failed" leaves the snapshot as it is.
Fail(j) ==
  /\ At(j, "failing")
  /\ \/ /\ row[Npa(j)] \notin Gone
        /\ SetRow(Npa(j), "failed")
        /\ unmarked' = unmarked \ {Npa(j)}
     \/ /\ row[Npa(j)] \notin Gone /\ "db" \in Faults
        /\ unmarked' = unmarked \cup {Npa(j)}
        /\ UNCHANGED row
     \/ row[Npa(j)] \in Gone /\ UNCHANGED <<row, unmarked>>
  /\ GoTo(j, "leaving")
  /\ UNCHANGED <<object, deleting, task, waiting, holder, index, live>>

\* The last event is sent, the `async with' ends, and the locals go.
Leave(j) ==
  /\ At(j, "leaving")
  /\ holder' = Nobody
  /\ task' = [task EXCEPT ![j] = NoTask]
  /\ cleaned' = [cleaned EXCEPT ![j] = FALSE]
  /\ batch' = [batch EXCEPT ![j] = 0]
  /\ GoTo(j, "over")
  /\ UNCHANGED <<source, waiting, points, live>>

-----------------------------------------------------------------------------
(* DELETE /sources/{npa_id}, in a worker thread *)

CheckDelete(n) ==
  /\ deleting[n] = "no"
  /\ row[n] \notin Gone \cup {"indexing"}
  /\ deleting' = [deleting EXCEPT ![n] = "objects"]
  /\ UNCHANGED <<row, object, control, index, live, unmarked>>

\* A failure is logged, and the row deleted anyway.
DeleteObjects(n) ==
  /\ deleting[n] = "objects"
  /\ \/ object' = [object EXCEPT ![n] = FALSE]
     \/ "storage" \in Faults /\ UNCHANGED object
  /\ deleting' = [deleting EXCEPT ![n] = "row"]
  /\ UNCHANGED <<row, control, index, live, unmarked>>

\* Neither the points nor the entry of the snapshot go with the row.
DeleteRow(n) ==
  /\ deleting[n] = "row"
  /\ SetRow(n, "gone") \/ ("db" \in Faults /\ UNCHANGED row)
  /\ deleting' = [deleting EXCEPT ![n] = "no"]
  /\ UNCHANGED <<object, control, index, live, unmarked>>

-----------------------------------------------------------------------------
(* The process dies and starts again: reset_stuck_npa_jobs takes back the   *)
(* rows of the jobs that died with it.                                      *)

Forget ==
  /\ task' = [j \in Jobs |-> NoTask]
  /\ cleaned' = [j \in Jobs |-> FALSE]
  /\ batch' = [j \in Jobs |-> 0]
  /\ waiting' = <<>> /\ holder' = Nobody
  /\ live' = {} /\ unmarked' = {}

\* Mutants: a status that does not exist; the clean-up knows only the status
\* of chunking.
Restart_Misspelt ==
  /\ "crash" \in Faults
  /\ row' = [n \in Rows |-> CASE row[n] = "indexing" -> "error"
                              [] row[n] = "uploading" -> "gone"
                              [] OTHER -> row[n]]
  /\ deleting' = [n \in Rows |-> "no"]
  /\ pc' = [j \in Jobs |-> IF pc[j] = "none" THEN "none" ELSE "over"]
  /\ Forget
  /\ UNCHANGED <<object, points>>

Restart_NoReset ==
  /\ "crash" \in Faults
  /\ row' = [n \in Rows |-> IF row[n] = "uploading" THEN "gone" ELSE row[n]]
  /\ deleting' = [n \in Rows |-> "no"]
  /\ pc' = [j \in Jobs |-> IF pc[j] = "none" THEN "none" ELSE "over"]
  /\ Forget
  /\ UNCHANGED <<object, points>>

Restart ==
  /\ "crash" \in Faults
  /\ row' = [n \in Rows |-> CASE row[n] = "indexing" -> "failed"
                              [] row[n] = "uploading" -> "gone"
                              [] OTHER -> row[n]]
  /\ deleting' = [n \in Rows |-> "no"]
  /\ pc' = [j \in Jobs |-> IF pc[j] = "none" THEN "none" ELSE "over"]
  /\ Forget
  /\ UNCHANGED <<object, points>>

-----------------------------------------------------------------------------
Job(j) ==
  \/ Enqueue(j) \/ Take(j)
  \/ Begin(j) \/ NotFound(j) \/ BeginFails(j)
  \/ Load(j) \/ LoadFails(j) \/ Clean(j) \/ CleanFails(j)
  \/ Upsert(j) \/ UpsertFails(j)
  \/ Finish(j) \/ FinishFails(j) \/ Fail(j) \/ Leave(j)

Upload(n) == PutObjects(n) \/ InsertRow(n)
Delete(n) == CheckDelete(n) \/ DeleteObjects(n) \/ DeleteRow(n)

Next ==
  \/ \E j \in Jobs : Job(j) \/ \E t \in Task : Schedule(j, t)
  \/ \E n \in Rows : Upload(n) \/ Delete(n)
  \/ Restart

Spec == Init /\ [][Next]_vars

\* A job that can go on does: the calls it awaits return or raise, and the
\* lock goes to the first in its queue.  Uploads and deletions may stop.
Fairness == \A j \in Jobs : WF_vars(Job(j))

FairSpec == Spec /\ Fairness

-----------------------------------------------------------------------------
(* Properties *)

TypeOK ==
  /\ row \in [Rows -> RowStatus]
  /\ object \in [Rows -> BOOLEAN]
  /\ deleting \in [Rows -> {"no", "objects", "row"}]
  /\ task \in [Jobs -> Task \cup {NoTask}]
  /\ pc \in [Jobs -> Control]
  /\ waiting \in Seq(Jobs)
  /\ holder \in Jobs \cup {Nobody}
  /\ cleaned \in [Jobs -> BOOLEAN]
  /\ batch \in [Jobs -> Nat]
  /\ points \in [Groups -> SUBSET Point]
  /\ live \subseteq Rows
  /\ unmarked \subseteq Rows

\* A row that says INDEXING is being worked on by the job that holds the lock,
\* so the two routes that refuse such a row refuse it only for a while; the
\* exception is a row whose failure could not be written, until the next
\* restart (tasks.py:256-262, reset_stuck_npa_jobs).
IndexingHasOwner ==
  \A n \in Rows : row[n] = "indexing" =>
    n \in unmarked \/ \E j \in Jobs : holder = j /\ pc[j] \in Working /\ Npa(j) = n

\* An admin who reconnects while a job is at work is shown it: whatever other
\* jobs of the same source have ended before, or wait behind it, the snapshot
\* has an entry for its row (snapshot_live_progress, tasks.py:45-88).
RunningIsShown ==
  \A j \in Jobs : pc[j] \in Working \ {"failing"} => Npa(j) \in live

\* Once a job has seen the old points go, the collection holds of its source
\* only what the job has written itself, until another job takes the lock:
\* no job that was queued, that failed or that belongs to another upload of the
\* same file puts points between its deletion and its last batch
\* (index_chunks_for_source, "safe and idempotent").
ReplacedIsExact ==
  \A j \in Jobs : cleaned[j] /\ pc[j] \in {"upserting", "finishing"} =>
    \A p \in OfSource(j) : p.job = j /\ p.batch <= batch[j]

\* Every accepted job comes to an end, and lets the next one have the lock,
\* whatever fails and whatever is deleted on its way.
EveryJobEnds == \A j \in Jobs : pc[j] = "scheduled" ~> pc[j] = "over"
=============================================================================
