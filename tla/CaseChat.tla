------------------------------ MODULE CaseChat ------------------------------
(***************************************************************************)
(* A chat turn from POST /api/chat to the answer (app/cases): the message  *)
(* rows, the background task that drives a run of the LangGraph server,    *)
(* the lock of the case, the watchdog, and the clean-up of a restart.      *)
(*                                                                         *)
(* The application is one event loop, so a coroutine runs without          *)
(* interruption from one await to the next: one action per such segment.   *)
(* The graph server is another process; what it does to a thread and to    *)
(* the row of the case happens between any two segments.                   *)
(*                                                                         *)
(* A turn is a user message with the assistant placeholder under it.  The  *)
(* texts are left out, except whose run wrote the one that is shown.  The  *)
(* WebSocket events are left out: sending them never raises, and nothing   *)
(* is read back from them.                                                 *)
(***************************************************************************)
EXTENDS Integers

CONSTANTS
  Cases,
  MaxTurns,   \* bound on the turns of a case
  Faults      \* which of "crash", "db", "http" and "timeout" may strike

ASSUME CaseChatAssumption ==
  /\ MaxTurns \in Nat
  /\ Faults \subseteq {"crash", "db", "http", "timeout"}

Turns == 1 .. MaxTurns

VARIABLES
  posted,   \* turns posted in each case
  msg,      \* messages.status of the placeholder of each turn
  pc,       \* where the handler, then the task, of each turn is
  lock,     \* the turn whose task holds _case_locks[case_id], 0 if free
  status,   \* cases.status
  run,      \* the graph run of each turn, as the graph server sees it
  saved,    \* the run of the turn has written cases.status
  thread,   \* the turn that last wrote the messages of the graph thread
  pending,  \* the clarification the thread waits for
  answer    \* history: whose text was taken as the answer of the turn

vars == <<posted, msg, pc, lock, status, run, saved, thread, pending, answer>>

MessageStatus == {"none", "processing", "done", "error"}
Locked == {"reading", "starting", "judging", "answering", "reasking",
           "waiting", "cancelling", "fetching", "marking", "leaving"}
Control == {"none", "posting", "queued", "over"} \cup Locked
CaseStatus == {"in_progress", "completed", "error"}
RunStatus == {"none", "pending", "running", "success", "error", "cancelled"}
Clarification == {"none", "detail", "optional"}

Init ==
  /\ posted = [c \in Cases |-> 0]
  /\ msg = [c \in Cases |-> [n \in Turns |-> "none"]]
  /\ pc = [c \in Cases |-> [n \in Turns |-> "none"]]
  /\ lock = [c \in Cases |-> 0]
  /\ status = [c \in Cases |-> "in_progress"]
  /\ run = [c \in Cases |-> [n \in Turns |-> "none"]]
  /\ saved = [c \in Cases |-> [n \in Turns |-> FALSE]]
  /\ thread = [c \in Cases |-> 0]
  /\ pending = [c \in Cases |-> "none"]
  /\ answer = [c \in Cases |-> [n \in Turns |-> 0]]

At(c, n, label) == pc[c][n] = label
GoTo(c, n, label) == pc' = [pc EXCEPT ![c][n] = label]
SetMessage(c, n, s) == msg' = [msg EXCEPT ![c][n] = s]
SetRun(c, n, s) == run' = [run EXCEPT ![c][n] = s]

-----------------------------------------------------------------------------
(* POST /api/chat *)

InFlight(c) == posted[c] # 0 /\ msg[c][posted[c]] = "processing"

\* Mutant: the check is left out.
Post_Unguarded(c) ==
  /\ posted[c] < MaxTurns
  /\ posted' = [posted EXCEPT ![c] = @ + 1]
  /\ SetMessage(c, posted[c] + 1, "processing")
  /\ GoTo(c, posted[c] + 1, "posting")
  /\ UNCHANGED <<lock, status, run, saved, thread, pending, answer>>

\* Unless the latest message is still PROCESSING (409), the user message and
\* the placeholder are added; there is no await between the check and them.
Post(c) ==
  /\ posted[c] < MaxTurns
  /\ ~InFlight(c)
  /\ posted' = [posted EXCEPT ![c] = @ + 1]
  /\ SetMessage(c, posted[c] + 1, "processing")
  /\ GoTo(c, posted[c] + 1, "posting")
  /\ UNCHANGED <<lock, status, run, saved, thread, pending, answer>>

\* The events are out; process_chat_run is spawned.
Spawn(c, n) ==
  /\ At(c, n, "posting")
  /\ GoTo(c, n, "queued")
  /\ UNCHANGED <<posted, msg, lock, status, run, saved, thread, pending, answer>>

\* The summary of a new case cannot be read: the handler answers 500 and
\* leaves the placeholder without a task.
SpawnFails(c, n) ==
  /\ At(c, n, "posting")
  /\ n = 1 /\ "db" \in Faults
  /\ GoTo(c, n, "over")
  /\ UNCHANGED <<posted, msg, lock, status, run, saved, thread, pending, answer>>

-----------------------------------------------------------------------------
(* process_chat_run *)

Acquire(c, n) ==
  /\ At(c, n, "queued")
  /\ lock[c] = 0
  /\ lock' = [lock EXCEPT ![c] = n]
  /\ GoTo(c, n, "reading")
  /\ UNCHANGED <<posted, msg, status, run, saved, thread, pending, answer>>

\* The reads that precede the `try' fail: the task ends, and its lock with it.
AcquireFails(c, n) ==
  /\ At(c, n, "queued")
  /\ lock[c] = 0
  /\ "db" \in Faults
  /\ GoTo(c, n, "over")
  /\ UNCHANGED <<posted, msg, lock, status, run, saved, thread, pending, answer>>

\* Mutants: the lock is given up before the case is marked; the error is
\* logged and not stored; a misspelt status.
Fail_EarlyRelease(c, n) ==
  /\ \/ SetMessage(c, n, "error")
     \/ "db" \in Faults /\ UNCHANGED msg
  /\ lock' = [lock EXCEPT ![c] = 0]
  /\ GoTo(c, n, "marking")
  /\ UNCHANGED <<posted, status, answer>>

Fail_OnlyLogged(c, n) ==
  /\ GoTo(c, n, "marking")
  /\ UNCHANGED <<posted, msg, lock, status, answer>>

Fail_Misspelt(c, n) ==
  /\ SetMessage(c, n, "failed")
  /\ GoTo(c, n, "marking")
  /\ UNCHANGED <<posted, lock, status, answer>>

\* The except clause, and the two ways out of the body that have no answer:
\* the message becomes ERROR, unless that fails too.
Fail(c, n) ==
  /\ \/ SetMessage(c, n, "error")
     \/ "db" \in Faults /\ UNCHANGED msg
  /\ GoTo(c, n, "marking")
  /\ UNCHANGED <<posted, lock, status, answer>>

\* The state of the thread arrives and decides how the turn goes on.
ReadState(c, n) ==
  /\ At(c, n, "reading")
  /\ \/ pending[c] = "none" /\ GoTo(c, n, "starting")
     \/ pending[c] = "detail" /\ GoTo(c, n, "answering")
     \/ pending[c] = "optional" /\ GoTo(c, n, "judging")
  /\ UNCHANGED <<posted, msg, lock, status, run, saved, thread, pending, answer>>

ReadStateFails(c, n) ==
  /\ At(c, n, "reading")
  /\ {"http", "db"} \cap Faults # {}
  /\ Fail(c, n)
  /\ UNCHANGED <<run, saved, thread, pending>>

\* _classify_yesno: a yes or a no resumes the graph, anything else is asked again.
Judge(c, n) ==
  /\ At(c, n, "judging")
  /\ \E label \in {"answering", "reasking"} : GoTo(c, n, label)
  /\ UNCHANGED <<posted, msg, lock, status, run, saved, thread, pending, answer>>

\* The state of the thread is patched with the answer.
PatchAnswer(c, n) ==
  /\ At(c, n, "answering")
  /\ pending' = [pending EXCEPT ![c] = "none"]
  /\ GoTo(c, n, "starting")
  /\ UNCHANGED <<posted, msg, lock, status, run, saved, thread, answer>>

\* The request fails, whether or not the server has carried it out.
PatchAnswerFails(c, n) ==
  /\ At(c, n, "answering")
  /\ "http" \in Faults
  /\ \/ pending' = [pending EXCEPT ![c] = "none"]
     \/ UNCHANGED pending
  /\ Fail(c, n)
  /\ UNCHANGED <<run, saved, thread>>

\* The state is patched with the question put again; no run is needed.
PatchReask(c, n) ==
  /\ At(c, n, "reasking")
  /\ pending' = [pending EXCEPT ![c] = "optional"]
  /\ thread' = [thread EXCEPT ![c] = n]
  /\ GoTo(c, n, "fetching")
  /\ UNCHANGED <<posted, msg, lock, status, run, saved, answer>>

PatchReaskFails(c, n) ==
  /\ At(c, n, "reasking")
  /\ "http" \in Faults
  /\ \/ /\ pending' = [pending EXCEPT ![c] = "optional"]
        /\ thread' = [thread EXCEPT ![c] = n]
     \/ UNCHANGED <<pending, thread>>
  /\ Fail(c, n)
  /\ UNCHANGED <<run, saved>>

\* POST /runs, for a fresh or a resumed thread; the message is tagged with the run.
StartRun(c, n) ==
  /\ At(c, n, "starting")
  /\ SetRun(c, n, "pending")
  /\ GoTo(c, n, "waiting")
  /\ UNCHANGED <<posted, msg, lock, status, saved, thread, pending, answer>>

\* It fails, or returns no id, or the tag cannot be stored: a run that was
\* created all the same has no owner.
StartRunFails(c, n) ==
  /\ At(c, n, "starting")
  /\ {"http", "db"} \cap Faults # {}
  /\ \/ SetRun(c, n, "pending")
     \/ UNCHANGED run
  /\ Fail(c, n)
  /\ UNCHANGED <<saved, thread, pending>>

\* Mutant: whatever leaves the in-progress states counts as a success.
PollSuccess_AnyEnd(c, n) ==
  /\ At(c, n, "waiting")
  /\ run[c][n] \in {"success", "error", "cancelled"}
  /\ GoTo(c, n, "fetching")
  /\ UNCHANGED <<posted, msg, lock, status, run, saved, thread, pending, answer>>

\* wait_for_run sees that the run has ended well.
PollSuccess(c, n) ==
  /\ At(c, n, "waiting")
  /\ run[c][n] = "success"
  /\ GoTo(c, n, "fetching")
  /\ UNCHANGED <<posted, msg, lock, status, run, saved, thread, pending, answer>>

\* It ended otherwise, or the poll itself fails, the run going on unattended.
PollFails(c, n) ==
  /\ At(c, n, "waiting")
  /\ run[c][n] \in {"error", "cancelled"} \/ "http" \in Faults
  /\ Fail(c, n)
  /\ UNCHANGED <<run, saved, thread, pending>>

\* run_timeout_seconds are over.
Timeout(c, n) ==
  /\ At(c, n, "waiting")
  /\ "timeout" \in Faults
  /\ GoTo(c, n, "cancelling")
  /\ UNCHANGED <<posted, msg, lock, status, run, saved, thread, pending, answer>>

\* cancel_run is best effort: it may be lost, and its errors are swallowed.
Cancel(c, n) ==
  /\ At(c, n, "cancelling")
  /\ \/ run[c][n] \in {"pending", "running"} /\ SetRun(c, n, "cancelled")
     \/ UNCHANGED run
  /\ Fail(c, n)
  /\ UNCHANGED <<saved, thread, pending>>

\* The latest assistant text of the thread becomes the answer.
Fetch(c, n) ==
  /\ At(c, n, "fetching")
  /\ answer' = [answer EXCEPT ![c][n] = thread[c]]
  /\ SetMessage(c, n, "done")
  /\ GoTo(c, n, "leaving")
  /\ UNCHANGED <<posted, lock, status, run, saved, thread, pending>>

FetchFails(c, n) ==
  /\ At(c, n, "fetching")
  /\ {"http", "db"} \cap Faults # {}
  /\ Fail(c, n)
  /\ UNCHANGED <<run, saved, thread, pending>>

\* _mark_case_error, which swallows its own failure.
MarkCaseError(c, n) ==
  /\ At(c, n, "marking")
  /\ \/ status' = [status EXCEPT ![c] = "error"]
     \/ "db" \in Faults /\ UNCHANGED status
  /\ GoTo(c, n, "leaving")
  /\ UNCHANGED <<posted, msg, lock, run, saved, thread, pending, answer>>

\* The `async with' ends; what follows it only reads, and sends events.
Release(c, n) ==
  /\ At(c, n, "leaving")
  /\ lock' = [lock EXCEPT ![c] = 0]
  /\ GoTo(c, n, "over")
  /\ UNCHANGED <<posted, msg, status, run, saved, thread, pending, answer>>

-----------------------------------------------------------------------------
(* The graph server.  It runs one run of a thread at a time, in the order   *)
(* they were created; a node runs in a thread of its own that a cancelled   *)
(* run does not stop.                                                       *)

RunStarts(c, n) ==
  /\ run[c][n] = "pending"
  /\ \A m \in Turns : m < n => run[c][m] \notin {"pending", "running"}
  /\ SetRun(c, n, "running")
  /\ UNCHANGED <<posted, msg, pc, lock, status, saved, thread, pending, answer>>

\* save_result, inform_user or inform_unsupported_deal writes cases.status.
RunSaves(c, n, s) ==
  /\ run[c][n] \in {"running", "cancelled"}
  /\ ~saved[c][n]
  /\ saved' = [saved EXCEPT ![c][n] = TRUE]
  /\ status' = [status EXCEPT ![c] = s]
  /\ UNCHANGED <<posted, msg, pc, lock, run, thread, pending, answer>>

\* A node has finished: what it wrote to the thread is there from now on, in
\* whatever way the run itself will end.
RunCheckpoints(c, n, question) ==
  /\ run[c][n] = "running"
  /\ question # "none" => ~saved[c][n]
  /\ \E writer \in {thread[c], n} : thread' = [thread EXCEPT ![c] = writer]
  /\ pending' = [pending EXCEPT ![c] = question]
  /\ UNCHANGED <<posted, msg, pc, lock, status, run, saved, answer>>

\* The run ends with an answer, or with a question instead of a result.
RunSucceeds(c, n, question) ==
  /\ run[c][n] = "running"
  /\ question # "none" => ~saved[c][n]
  /\ SetRun(c, n, "success")
  /\ thread' = [thread EXCEPT ![c] = n]
  /\ pending' = [pending EXCEPT ![c] = question]
  /\ UNCHANGED <<posted, msg, pc, lock, status, saved, answer>>

RunCrashes(c, n) ==
  /\ run[c][n] = "running"
  /\ SetRun(c, n, "error")
  /\ UNCHANGED <<posted, msg, pc, lock, status, saved, thread, pending, answer>>

-----------------------------------------------------------------------------
(* The process dies and starts again: the tasks and the locks are gone, and *)
(* cleanup_stuck_processing_messages ends what they had under way.  The     *)
(* graph server is another container and knows nothing of it.               *)

Restart ==
  /\ "crash" \in Faults
  /\ msg' = [c \in Cases |-> [n \in Turns |->
               IF msg[c][n] = "processing" THEN "error" ELSE msg[c][n]]]
  /\ pc' = [c \in Cases |-> [n \in Turns |->
              IF pc[c][n] = "none" THEN "none" ELSE "over"]]
  /\ lock' = [c \in Cases |-> 0]
  /\ UNCHANGED <<posted, status, run, saved, thread, pending, answer>>

-----------------------------------------------------------------------------

Handle(c, n) == Spawn(c, n) \/ SpawnFails(c, n)

Task(c, n) ==
  \/ Acquire(c, n) \/ AcquireFails(c, n)
  \/ ReadState(c, n) \/ ReadStateFails(c, n)
  \/ Judge(c, n)
  \/ PatchAnswer(c, n) \/ PatchAnswerFails(c, n)
  \/ PatchReask(c, n) \/ PatchReaskFails(c, n)
  \/ StartRun(c, n) \/ StartRunFails(c, n)
  \/ PollSuccess(c, n) \/ PollFails(c, n)
  \/ Timeout(c, n) \/ Cancel(c, n)
  \/ Fetch(c, n) \/ FetchFails(c, n)
  \/ MarkCaseError(c, n) \/ Release(c, n)

Graph(c, n) ==
  \/ RunStarts(c, n) \/ RunCrashes(c, n)
  \/ \E s \in {"completed", "error"} : RunSaves(c, n, s)
  \/ \E question \in Clarification : RunCheckpoints(c, n, question) \/ RunSucceeds(c, n, question)

Next ==
  \/ \E c \in Cases :
       \/ Post(c)
       \/ \E n \in Turns : Handle(c, n) \/ Task(c, n) \/ Graph(c, n)
  \/ Restart

Spec == Init /\ [][Next]_vars

\* Every request to the graph server, every call of the model and every
\* database call returns or raises, and the watchdog fires.  Nothing is asked
\* of the graph server: a run may hang for ever.
Fairness == \A c \in Cases, n \in Turns : WF_vars(Handle(c, n) \/ Task(c, n))

FairSpec == Spec /\ Fairness

-----------------------------------------------------------------------------
(* Properties *)

TypeOK ==
  /\ posted \in [Cases -> 0 .. MaxTurns]
  /\ msg \in [Cases -> [Turns -> MessageStatus]]
  /\ pc \in [Cases -> [Turns -> Control]]
  /\ lock \in [Cases -> 0 .. MaxTurns]
  /\ status \in [Cases -> CaseStatus]
  /\ run \in [Cases -> [Turns -> RunStatus]]
  /\ saved \in [Cases -> [Turns -> BOOLEAN]]
  /\ thread \in [Cases -> 0 .. MaxTurns]
  /\ pending \in [Cases -> Clarification]
  /\ answer \in [Cases -> [Turns -> 0 .. MaxTurns]]

\* The turns of a case follow one another: once a turn has the lock or a run,
\* the task of every earlier turn is through, its mark on the case included.
TurnsInOrder ==
  \A c \in Cases : \A m, n \in Turns :
    m < n /\ (pc[c][n] \in Locked \/ run[c][n] # "none") => pc[c][m] = "over"

\* A turn that had a run is answered by what that run wrote to the thread,
\* though runs that no task waits for any more, timed out, orphaned by a lost
\* reply or by a restart, go on in the queue.  (A turn that only put a question
\* again reads the thread with no run of its own, so an orphan can get between
\* its write and its read: nothing is claimed of it.)
AnswerIsOwn ==
  \A c \in Cases : \A n \in Turns :
    msg[c][n] = "done" /\ run[c][n] # "none" => answer[c][n] = n

\* A case takes one question at a time and keeps the reply of each.
Chat == INSTANCE Conversation WITH asked <- posted, reply <- msg

ImplementsConversation == Chat!ConversationSpec

\* Every posted message gets an answer or an error, whether the graph run
\* hangs, its server fails or the process restarts: no placeholder keeps
\* the user out of the case for ever.
EveryTurnAnswered ==
  \A c \in Cases : \A n \in Turns : (msg[c][n] = "processing") ~> (msg[c][n] \in {"done", "error"})

\* _mark_case_error "keeps the sidebar indicator in sync with the per-message
\* error state": once no task is at work, a case whose last message is an
\* error is shown as one.
IndicatorInSync ==
  \A c \in Cases :
    /\ posted[c] # 0 /\ msg[c][posted[c]] = "error"
    /\ \A n \in Turns : pc[c][n] \in {"none", "over"}
    => status[c] = "error"
=============================================================================
