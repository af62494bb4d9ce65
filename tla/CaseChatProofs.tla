--------------------------- MODULE CaseChatProofs ---------------------------
(***************************************************************************)
(* Proofs about CaseChat, for any number of cases and of turns, and any    *)
(* combination of faults.                                                  *)
(***************************************************************************)
EXTENDS CaseChat, TLAPS

-----------------------------------------------------------------------------
(* Types *)

\* A table of turns keeps its type when one entry changes.
LEMMA EntryType ==
  ASSUME NEW T, NEW f \in [Cases -> [Turns -> T]], NEW c \in Cases, NEW n \in Turns, NEW v \in T
  PROVE  [f EXCEPT ![c][n] = v] \in [Cases -> [Turns -> T]]
  OBVIOUS

LEMMA GoToType ==
  ASSUME TypeOK, NEW c \in Cases, NEW n \in Turns, NEW label \in Control, GoTo(c, n, label)
  PROVE  pc' \in [Cases -> [Turns -> Control]]
  BY EntryType DEF TypeOK, GoTo

LEMMA SetMessageType ==
  ASSUME TypeOK, NEW c \in Cases, NEW n \in Turns, NEW s \in MessageStatus, SetMessage(c, n, s)
  PROVE  msg' \in [Cases -> [Turns -> MessageStatus]]
  BY EntryType DEF TypeOK, SetMessage

LEMMA SetRunType ==
  ASSUME TypeOK, NEW c \in Cases, NEW n \in Turns, NEW s \in RunStatus, SetRun(c, n, s)
  PROVE  run' \in [Cases -> [Turns -> RunStatus]]
  BY EntryType DEF TypeOK, SetRun

LEMMA FailType ==
  ASSUME TypeOK, NEW c \in Cases, NEW n \in Turns, Fail(c, n)
  PROVE  /\ msg' \in [Cases -> [Turns -> MessageStatus]]
         /\ pc' \in [Cases -> [Turns -> Control]]
         /\ UNCHANGED <<posted, lock, status, answer>>
<1>1. GoTo(c, n, "marking") /\ "marking" \in Control
  BY DEF Fail, Control, Locked
<1>2. CASE SetMessage(c, n, "error")
  BY <1>1, <1>2, GoToType, SetMessageType DEF Fail, MessageStatus
<1>3. CASE UNCHANGED msg
  BY <1>1, <1>3, GoToType DEF Fail, TypeOK
<1> QED
  BY <1>2, <1>3 DEF Fail

\* Type correctness: every step writes values of the columns' and labels' types.
THEOREM CaseChatTypeOK == Spec => []TypeOK
<1>1. Init => TypeOK
  BY CaseChatAssumption DEF Init, TypeOK, Turns, MessageStatus, Control, Locked, CaseStatus,
     RunStatus, Clarification
<1>2. TypeOK /\ [Next]_vars => TypeOK'
  <2> SUFFICES ASSUME TypeOK, [Next]_vars PROVE TypeOK'
    OBVIOUS
  <2>0. \A n \in Turns : n \in 0 .. MaxTurns
    BY CaseChatAssumption DEF Turns
  <2>1. ASSUME NEW c \in Cases, Post(c) PROVE TypeOK'
    <3>1. posted[c] + 1 \in Turns
      BY <2>1, CaseChatAssumption DEF Post, TypeOK, Turns
    <3> QED
      BY <2>0, <2>1, <3>1, GoToType, SetMessageType DEF Post, TypeOK, Control, MessageStatus
  <2>2. ASSUME NEW c \in Cases, NEW n \in Turns, Handle(c, n) PROVE TypeOK'
    BY <2>2, GoToType DEF Handle, Spawn, SpawnFails, TypeOK, Control
  <2>3. ASSUME NEW c \in Cases, NEW n \in Turns, Task(c, n) PROVE TypeOK'
    <3> USE <2>0, GoToType DEF TypeOK, Control, Locked
    <3>1. CASE Acquire(c, n) \/ AcquireFails(c, n)
      BY <3>1, CaseChatAssumption DEF Acquire, AcquireFails
    <3>2. CASE ReadState(c, n) \/ Judge(c, n)
      BY <3>2 DEF ReadState, Judge
    <3>3. CASE PatchAnswer(c, n) \/ PatchReask(c, n)
      BY <3>3 DEF PatchAnswer, PatchReask, Clarification
    <3>4. CASE ReadStateFails(c, n) \/ PollFails(c, n) \/ FetchFails(c, n)
      BY <3>4, FailType DEF ReadStateFails, PollFails, FetchFails
    <3>5. CASE PatchAnswerFails(c, n) \/ PatchReaskFails(c, n)
      BY <3>5, FailType DEF PatchAnswerFails, PatchReaskFails, Clarification
    <3>6. CASE StartRunFails(c, n) \/ Cancel(c, n)
      BY <3>6, FailType, SetRunType DEF StartRunFails, Cancel, RunStatus
    <3>7. CASE StartRun(c, n) \/ PollSuccess(c, n) \/ Timeout(c, n)
      BY <3>7, SetRunType DEF StartRun, PollSuccess, Timeout, RunStatus
    <3>8. CASE Fetch(c, n)
      BY <3>8, SetMessageType, EntryType DEF Fetch, MessageStatus
    <3>9. CASE MarkCaseError(c, n) \/ Release(c, n)
      BY <3>9, CaseChatAssumption DEF MarkCaseError, Release, CaseStatus
    <3> QED
      BY <2>3, <3>1, <3>2, <3>3, <3>4, <3>5, <3>6, <3>7, <3>8, <3>9 DEF Task
  <2>4. ASSUME NEW c \in Cases, NEW n \in Turns, Graph(c, n) PROVE TypeOK'
    <3> USE SetRunType DEF TypeOK, RunStatus
    <3>1. CASE RunStarts(c, n) \/ RunCrashes(c, n)
      BY <3>1 DEF RunStarts, RunCrashes
    <3>2. ASSUME NEW s \in {"completed", "error"}, RunSaves(c, n, s) PROVE TypeOK'
      BY <3>2, EntryType DEF RunSaves, CaseStatus
    <3>3. ASSUME NEW q \in Clarification, RunCheckpoints(c, n, q) PROVE TypeOK'
      <4>1. PICK writer \in {thread[c], n} : thread' = [thread EXCEPT ![c] = writer]
        BY <3>3 DEF RunCheckpoints
      <4>2. thread' \in [Cases -> 0 .. MaxTurns]
        BY <2>0, <4>1
      <4> QED
        BY <3>3, <4>2 DEF RunCheckpoints
    <3>4. ASSUME NEW q \in Clarification, RunSucceeds(c, n, q) PROVE TypeOK'
      BY <2>0, <3>4 DEF RunSucceeds
    <3> QED
      BY <2>4, <3>1, <3>2, <3>3, <3>4 DEF Graph
  <2>5. CASE Restart
    BY <2>5, CaseChatAssumption DEF Restart, TypeOK, MessageStatus, Control
  <2>6. CASE UNCHANGED vars
    BY <2>6 DEF vars, TypeOK
  <2> QED
    BY <2>1, <2>2, <2>3, <2>4, <2>5, <2>6 DEF Next
<1> QED
  BY <1>1, <1>2, PTL DEF Spec

-----------------------------------------------------------------------------
(* The order of the turns *)

Working == {"posting", "queued", "reading", "starting", "judging", "answering",
            "reasking", "waiting", "cancelling", "fetching"}

\* Turns are numbered in the order they were posted.
RowsPosted ==
  \A c \in Cases : \A n \in Turns :
    IF n <= posted[c] THEN pc[c][n] # "none"
    ELSE pc[c][n] = "none" /\ msg[c][n] = "none" /\ run[c][n] = "none"

\* Only the latest message can be open, and a task at work owns it.
OnlyLastOpen ==
  \A c \in Cases : \A n \in Turns : msg[c][n] = "processing" => n = posted[c]

WorkIsOpen ==
  \A c \in Cases : \A n \in Turns : pc[c][n] \in Working => msg[c][n] = "processing"

LockIsHeld ==
  \A c \in Cases : \A n \in Turns : pc[c][n] \in Locked <=> lock[c] = n

\* No run before its task has asked for it.
RunIsStarted ==
  \A c \in Cases : \A n \in Turns :
    run[c][n] # "none" =>
      pc[c][n] \in {"waiting", "cancelling", "fetching", "marking", "leaving", "over"}

ChatInv == RowsPosted /\ OnlyLastOpen /\ WorkIsOpen /\ LockIsHeld /\ RunIsStarted /\ TurnsInOrder

\* What an update of one entry leaves alone.
LEMMA EntryValue ==
  ASSUME NEW T, NEW f \in [Cases -> [Turns -> T]], NEW c \in Cases, NEW n \in Turns, NEW v
  PROVE  \A d \in Cases : \A k \in Turns :
           [f EXCEPT ![c][n] = v][d][k] = IF d = c /\ k = n THEN v ELSE f[d][k]
  OBVIOUS

LEMMA GoToValue ==
  ASSUME TypeOK, NEW c \in Cases, NEW n \in Turns, NEW label, GoTo(c, n, label)
  PROVE  \A d \in Cases : \A k \in Turns :
           pc'[d][k] = IF d = c /\ k = n THEN label ELSE pc[d][k]
  BY EntryValue DEF TypeOK, GoTo

LEMMA SetMessageValue ==
  ASSUME TypeOK, NEW c \in Cases, NEW n \in Turns, NEW s, SetMessage(c, n, s)
  PROVE  \A d \in Cases : \A k \in Turns :
           msg'[d][k] = IF d = c /\ k = n THEN s ELSE msg[d][k]
  BY EntryValue DEF TypeOK, SetMessage

LEMMA SetRunValue ==
  ASSUME TypeOK, NEW c \in Cases, NEW n \in Turns, NEW s, SetRun(c, n, s)
  PROVE  \A d \in Cases : \A k \in Turns :
           run'[d][k] = IF d = c /\ k = n THEN s ELSE run[d][k]
  BY EntryValue DEF TypeOK, SetRun

\* A failing turn: its message is closed or left, its task goes on to mark the case.
LEMMA FailValue ==
  ASSUME TypeOK, NEW c \in Cases, NEW n \in Turns, Fail(c, n)
  PROVE  /\ \A d \in Cases : \A k \in Turns :
              /\ pc'[d][k] = IF d = c /\ k = n THEN "marking" ELSE pc[d][k]
              /\ d # c \/ k # n => msg'[d][k] = msg[d][k]
         /\ msg'[c][n] = "error" \/ msg'[c][n] = msg[c][n]
         /\ UNCHANGED <<posted, lock>>
<1>1. GoTo(c, n, "marking")
  BY DEF Fail
<1>2. CASE SetMessage(c, n, "error")
  BY <1>1, <1>2, GoToValue, SetMessageValue DEF Fail
<1>3. CASE UNCHANGED msg
  BY <1>1, <1>3, GoToValue DEF Fail
<1> QED
  BY <1>2, <1>3 DEF Fail

\* Failing keeps the order, from whichever label under the lock it happens.
LEMMA FailKeepsOrder ==
  ASSUME TypeOK, ChatInv, NEW c \in Cases, NEW n \in Turns,
         pc[c][n] \in Working \cap Locked, Fail(c, n),
         \A d \in Cases : \A k \in Turns : d # c \/ k # n => run'[d][k] = run[d][k]
  PROVE  ChatInv'
<1> USE FailValue DEF Turns
<1> USE DEF ChatInv
<1>1. RowsPosted'
  BY DEF RowsPosted, Working, Locked
<1>2. OnlyLastOpen'
  BY DEF OnlyLastOpen
<1>3. WorkIsOpen'
  BY DEF WorkIsOpen, Working
<1>4. LockIsHeld'
  BY DEF LockIsHeld, Locked
<1>5. RunIsStarted'
  BY DEF RunIsStarted
<1>6. TurnsInOrder'
  BY DEF TurnsInOrder, Locked, Working
<1> QED
  BY <1>1, <1>2, <1>3, <1>4, <1>5, <1>6

\* So does going from one label under the lock to the next, with a run once it
\* has been asked for, and with the answer once it is there.
LEMMA MoveKeepsOrder ==
  ASSUME TypeOK, ChatInv, NEW c \in Cases, NEW n \in Turns, NEW label \in Working \cap Locked,
         pc[c][n] \in Working \cap Locked, GoTo(c, n, label), UNCHANGED <<posted, msg, lock>>,
         \/ UNCHANGED run /\ (run[c][n] # "none" => label = "fetching" \/ label = "cancelling")
         \/ label = "waiting" /\ \E s : SetRun(c, n, s)
  PROVE  ChatInv'
<1> USE GoToValue, SetRunValue DEF Turns, ChatInv
<1>0. \A d \in Cases : \A k \in Turns : d # c \/ k # n => run'[d][k] = run[d][k]
  OBVIOUS
<1>1. RowsPosted'
  BY <1>0 DEF RowsPosted, Working
<1>2. OnlyLastOpen'
  BY DEF OnlyLastOpen
<1>3. WorkIsOpen'
  BY DEF WorkIsOpen
<1>4. LockIsHeld'
  BY DEF LockIsHeld
<1>5. RunIsStarted'
  BY <1>0 DEF RunIsStarted
<1>6. TurnsInOrder'
  BY <1>0 DEF TurnsInOrder, Locked
<1> QED
  BY <1>1, <1>2, <1>3, <1>4, <1>5, <1>6

LEMMA TaskKeepsOrder ==
  ASSUME TypeOK, ChatInv, NEW c \in Cases, NEW n \in Turns, Task(c, n)
  PROVE  ChatInv'
<1> USE GoToValue DEF At
<1>1. CASE Acquire(c, n)
  <2> USE <1>1 DEF Acquire, ChatInv, Turns
  <2>0. /\ \A d \in Cases : lock'[d] = IF d = c THEN n ELSE lock[d]
        /\ lock[c] = 0 /\ 0 \notin Turns
        /\ \A d \in Cases : \A k \in Turns : pc[d][k] \in Control
        /\ posted[c] \in 0 .. MaxTurns /\ MaxTurns \in Nat
    BY CaseChatAssumption DEF TypeOK
  <2>1. RowsPosted'
    BY DEF RowsPosted
  <2>2. WorkIsOpen' /\ OnlyLastOpen'
    BY DEF WorkIsOpen, OnlyLastOpen, Working
  <2>3. LockIsHeld'
    BY <2>0 DEF LockIsHeld, Locked
  <2>4. RunIsStarted'
    BY DEF RunIsStarted
  <2>5. \A m \in Turns : m < n => pc[c][m] = "over"
    <3> SUFFICES ASSUME NEW m \in Turns, m < n PROVE pc[c][m] = "over"
      OBVIOUS
    <3>1. n = posted[c]
      BY DEF WorkIsOpen, OnlyLastOpen, Working
    <3>2. pc[c][m] # "none"
      BY <2>0, <3>1 DEF RowsPosted
    <3>3. pc[c][m] \notin Working
      BY <2>0, <3>1 DEF WorkIsOpen, OnlyLastOpen
    <3>4. pc[c][m] \notin Locked
      BY <2>0 DEF LockIsHeld
    <3> QED
      BY <2>0, <3>2, <3>3, <3>4 DEF Control, Working
  <2>6. TurnsInOrder'
    BY <2>5 DEF TurnsInOrder, Locked
  <2> QED
    BY <2>1, <2>2, <2>3, <2>4, <2>6
<1>2. CASE AcquireFails(c, n)
  BY <1>2 DEF AcquireFails, ChatInv, RowsPosted, OnlyLastOpen, WorkIsOpen, LockIsHeld, RunIsStarted,
     TurnsInOrder, Working, Locked, Turns
<1>3. CASE ReadState(c, n) \/ Judge(c, n) \/ PatchAnswer(c, n) \/ PatchReask(c, n)
  <2>1. PICK label \in {"starting", "judging", "answering", "reasking", "fetching"} :
          GoTo(c, n, label)
    BY <1>3 DEF ReadState, Judge, PatchAnswer, PatchReask, TypeOK, Clarification
  <2>2. pc[c][n] \in {"reading", "judging", "answering", "reasking"} /\ run[c][n] = "none"
    BY <1>3 DEF ReadState, Judge, PatchAnswer, PatchReask, ChatInv, RunIsStarted
  <2> QED
    BY <1>3, <2>1, <2>2, MoveKeepsOrder
    DEF ReadState, Judge, PatchAnswer, PatchReask, Working, Locked
<1>4. CASE StartRun(c, n)
  BY <1>4, MoveKeepsOrder DEF StartRun, Working, Locked
<1>5. CASE PollSuccess(c, n) \/ Timeout(c, n)
  BY <1>5, MoveKeepsOrder DEF PollSuccess, Timeout, Working, Locked
<1>6. CASE \/ ReadStateFails(c, n) \/ PatchAnswerFails(c, n) \/ PatchReaskFails(c, n)
           \/ PollFails(c, n) \/ FetchFails(c, n)
  BY <1>6, FailKeepsOrder DEF ReadStateFails, PatchAnswerFails, PatchReaskFails, PollFails,
     FetchFails, Working, Locked
<1>7. CASE StartRunFails(c, n) \/ Cancel(c, n)
  BY <1>7, FailKeepsOrder, SetRunValue DEF StartRunFails, Cancel, Working, Locked
<1>8. CASE Fetch(c, n)
  BY <1>8, SetMessageValue DEF Fetch, ChatInv, RowsPosted, OnlyLastOpen, WorkIsOpen, LockIsHeld,
     RunIsStarted, TurnsInOrder, Working, Locked, Turns
<1>9. CASE MarkCaseError(c, n)
  BY <1>9 DEF MarkCaseError, ChatInv, RowsPosted, OnlyLastOpen, WorkIsOpen, LockIsHeld,
     RunIsStarted, TurnsInOrder, Working, Locked, Turns
<1>10. CASE Release(c, n)
  <2> USE <1>10 DEF Release, ChatInv
  <2>1. /\ \A d \in Cases : lock'[d] = IF d = c THEN 0 ELSE lock[d]
        /\ 0 \notin Turns /\ "leaving" \in Locked /\ "over" \notin Locked \cup Working
    BY CaseChatAssumption DEF TypeOK, Turns, Locked, Working
  <2>2. LockIsHeld'
    BY <2>1 DEF LockIsHeld
  <2>3. RowsPosted' /\ OnlyLastOpen' /\ WorkIsOpen' /\ RunIsStarted' /\ TurnsInOrder'
    BY <2>1 DEF RowsPosted, OnlyLastOpen, WorkIsOpen, RunIsStarted, TurnsInOrder
  <2> QED
    BY <2>2, <2>3
<1> QED
  BY <1>1, <1>2, <1>3, <1>4, <1>5, <1>6, <1>7, <1>8, <1>9, <1>10 DEF Task

LEMMA GraphKeepsOrder ==
  ASSUME TypeOK, ChatInv, NEW c \in Cases, NEW n \in Turns, Graph(c, n)
  PROVE  ChatInv'
<1>1. UNCHANGED <<posted, msg, pc, lock>>
  BY DEF Graph, RunStarts, RunCrashes, RunSaves, RunCheckpoints, RunSucceeds
<1>2. run[c][n] # "none"
  BY DEF Graph, RunStarts, RunCrashes, RunSaves, RunCheckpoints, RunSucceeds
<1>3. \A d \in Cases : \A k \in Turns : d # c \/ k # n => run'[d][k] = run[d][k]
  BY SetRunValue DEF Graph, RunStarts, RunCrashes, RunSaves, RunCheckpoints, RunSucceeds
<1> QED
  BY <1>1, <1>2, <1>3 DEF ChatInv, RowsPosted, OnlyLastOpen, WorkIsOpen, LockIsHeld, RunIsStarted,
     TurnsInOrder

LEMMA ChatInvariant == Spec => [](TypeOK /\ ChatInv)
<1>1. Init => ChatInv
  BY CaseChatAssumption DEF Init, ChatInv, RowsPosted, OnlyLastOpen, WorkIsOpen, LockIsHeld,
     RunIsStarted, TurnsInOrder, Turns, Working, Locked
<1>2. TypeOK /\ ChatInv /\ [Next]_vars => ChatInv'
  <2> SUFFICES ASSUME TypeOK, ChatInv, [Next]_vars PROVE ChatInv'
    OBVIOUS
  <2>1. ASSUME NEW c \in Cases, Post(c) PROVE ChatInv'
    <3> DEFINE new == posted[c] + 1
    <3>1. new \in Turns /\ posted' = [posted EXCEPT ![c] = new]
      BY <2>1, CaseChatAssumption DEF Post, TypeOK, Turns
    <3>2. \A d \in Cases : \A k \in Turns :
            /\ pc'[d][k] = IF d = c /\ k = new THEN "posting" ELSE pc[d][k]
            /\ msg'[d][k] = IF d = c /\ k = new THEN "processing" ELSE msg[d][k]
      BY <2>1, <3>1, GoToValue, SetMessageValue DEF Post
    <3>3. /\ posted \in [Cases -> 0 .. MaxTurns] /\ UNCHANGED <<lock, run>>
          /\ \A d \in Cases : posted'[d] = IF d = c THEN new ELSE posted[d]
      BY <2>1, <3>1 DEF Post, TypeOK
    <3>4. \A k \in Turns : msg[c][k] # "processing"
      BY <2>1 DEF Post, InFlight, ChatInv, OnlyLastOpen, Turns
    <3> USE <3>1, <3>2, <3>3, CaseChatAssumption DEF ChatInv, Turns
    <3>5. RowsPosted'
      BY DEF RowsPosted
    <3>6. OnlyLastOpen'
      BY <3>4 DEF OnlyLastOpen
    <3>7. WorkIsOpen' /\ LockIsHeld'
      BY DEF WorkIsOpen, LockIsHeld, RowsPosted, Locked, Working
    <3>8. RunIsStarted' /\ TurnsInOrder'
      BY DEF RunIsStarted, TurnsInOrder, RowsPosted, Locked
    <3> QED
      BY <3>5, <3>6, <3>7, <3>8
  <2>2. ASSUME NEW c \in Cases, NEW n \in Turns, Handle(c, n) PROVE ChatInv'
    BY <2>2, GoToValue DEF Handle, Spawn, SpawnFails, At, ChatInv, RowsPosted, OnlyLastOpen,
       WorkIsOpen, LockIsHeld, RunIsStarted, TurnsInOrder, Working, Locked, Turns
  <2>3. CASE Restart
    <3>1. \A c \in Cases : \A n \in Turns :
            /\ pc'[c][n] = IF pc[c][n] = "none" THEN "none" ELSE "over"
            /\ msg'[c][n] = IF msg[c][n] = "processing" THEN "error" ELSE msg[c][n]
      BY <2>3 DEF Restart
    <3>2. UNCHANGED <<posted, run>> /\ \A c \in Cases : lock'[c] = 0
      BY <2>3 DEF Restart
    <3> QED
      BY <3>1, <3>2 DEF ChatInv, RowsPosted, OnlyLastOpen, WorkIsOpen, LockIsHeld,
         RunIsStarted, TurnsInOrder, Working, Locked, Turns
  <2>4. CASE UNCHANGED vars
    BY <2>4 DEF vars, ChatInv, RowsPosted, OnlyLastOpen, WorkIsOpen, LockIsHeld, RunIsStarted,
       TurnsInOrder
  <2> QED
    BY <2>1, <2>2, <2>3, <2>4, TaskKeepsOrder, GraphKeepsOrder DEF Next
<1> QED
  BY <1>1, <1>2, CaseChatTypeOK, PTL DEF Spec

\* The turns of a case never overlap: whatever fails, times out or restarts,
\* no turn takes the lock or starts a run before the tasks of the earlier
\* turns are through.
THEOREM CaseChatTurnsInOrder == Spec => []TurnsInOrder
  BY ChatInvariant, PTL DEF ChatInv
-----------------------------------------------------------------------------
(* The abstract conversation *)

\* Closing the message of a turn at work settles the open question of its case.
LEMMA CloseSettles ==
  ASSUME TypeOK, ChatInv, NEW c \in Cases, NEW n \in Turns, msg[c][n] = "processing",
         NEW outcome \in {"done", "error"}, SetMessage(c, n, outcome), UNCHANGED posted
  PROVE  Chat!ConversationNext
<1>1. n = posted[c]
  BY DEF ChatInv, OnlyLastOpen
<1>2. msg'[c] = [msg[c] EXCEPT ![n] = outcome]
  BY DEF SetMessage, TypeOK
<1>3. \A d \in Cases : d # c => msg'[d] = msg[d]
  BY DEF SetMessage, TypeOK
<1>4. Chat!Settle(c)
  BY <1>1, <1>2 DEF Chat!Settle
<1>5. \A d \in Cases : d # c => Chat!Idle(d)
  BY <1>3 DEF Chat!Idle
<1> QED
  BY <1>4, <1>5 DEF Chat!ConversationNext

\* Every step of the program is a step of the conversations, or none.
LEMMA ChatStepImplements ==
  ASSUME TypeOK, ChatInv, [Next]_vars
  PROVE  [Chat!ConversationNext]_<<posted, msg>>
<1>1. ASSUME NEW c \in Cases, Post(c) PROVE Chat!ConversationNext
  <2> DEFINE new == posted[c] + 1
  <2>1. new \in Turns
    BY <1>1, CaseChatAssumption DEF Post, TypeOK, Turns
  <2>2. \A k \in Turns : msg[c][k] # "processing"
    BY <1>1 DEF Post, InFlight, ChatInv, OnlyLastOpen, Turns
  <2>3. posted'[c] = new /\ msg'[c] = [msg[c] EXCEPT ![new] = "processing"]
    BY <1>1, <2>1 DEF Post, SetMessage, TypeOK
  <2>4. \A d \in Cases : d # c => posted'[d] = posted[d] /\ msg'[d] = msg[d]
    BY <1>1, <2>1 DEF Post, SetMessage, TypeOK
  <2>5. Chat!Ask(c)
    BY <2>1, <2>2, <2>3 DEF Chat!Ask
  <2>6. \A d \in Cases : d # c => Chat!Idle(d)
    BY <2>4 DEF Chat!Idle
  <2> QED
    BY <2>5, <2>6 DEF Chat!ConversationNext
<1>2. ASSUME NEW c \in Cases, NEW n \in Turns, Task(c, n)
      PROVE  [Chat!ConversationNext]_<<posted, msg>>
  <2>1. CASE Fetch(c, n)
    BY <2>1, CloseSettles DEF Fetch, At, ChatInv, WorkIsOpen, Working
  <2>2. CASE Fail(c, n) /\ pc[c][n] \in Working
    BY <2>2, CloseSettles DEF Fail, ChatInv, WorkIsOpen
  <2>3. CASE \/ ReadStateFails(c, n) \/ PatchAnswerFails(c, n) \/ PatchReaskFails(c, n)
             \/ StartRunFails(c, n) \/ PollFails(c, n) \/ Cancel(c, n) \/ FetchFails(c, n)
    BY <2>2, <2>3 DEF ReadStateFails, PatchAnswerFails, PatchReaskFails, StartRunFails, PollFails,
       Cancel, FetchFails, At, Working
  <2>4. CASE \/ Acquire(c, n) \/ AcquireFails(c, n) \/ ReadState(c, n) \/ Judge(c, n)
             \/ PatchAnswer(c, n) \/ PatchReask(c, n) \/ StartRun(c, n) \/ PollSuccess(c, n)
             \/ Timeout(c, n) \/ MarkCaseError(c, n) \/ Release(c, n)
    BY <2>4 DEF Acquire, AcquireFails, ReadState, Judge, PatchAnswer, PatchReask, StartRun,
       PollSuccess, Timeout, MarkCaseError, Release
  <2> QED
    BY <1>2, <2>1, <2>3, <2>4 DEF Task
<1>3. ASSUME NEW c \in Cases, NEW n \in Turns, Handle(c, n) \/ Graph(c, n)
      PROVE  UNCHANGED <<posted, msg>>
  BY <1>3 DEF Handle, Spawn, SpawnFails, Graph, RunStarts, RunCrashes, RunSaves, RunCheckpoints,
     RunSucceeds
<1>4. ASSUME Restart PROVE Chat!ConversationNext
  <2> SUFFICES ASSUME NEW c \in Cases PROVE Chat!Settle(c) \/ Chat!Idle(c)
    BY DEF Chat!ConversationNext
  <2>1. /\ posted' = posted
        /\ msg'[c] = [n \in Turns |-> IF msg[c][n] = "processing" THEN "error" ELSE msg[c][n]]
    BY <1>4 DEF Restart
  <2>2. \A n \in Turns : n # posted[c] => msg[c][n] # "processing"
    BY DEF ChatInv, OnlyLastOpen
  <2>3. msg[c] \in [Turns -> MessageStatus]
    BY DEF TypeOK
  <2>4. CASE posted[c] \in Turns /\ msg[c][posted[c]] = "processing"
    <3>1. msg'[c] = [msg[c] EXCEPT ![posted[c]] = "error"]
      BY <2>1, <2>2, <2>3, <2>4
    <3> QED
      BY <2>1, <2>4, <3>1 DEF Chat!Settle
  <2>5. CASE ~(posted[c] \in Turns /\ msg[c][posted[c]] = "processing")
    <3>1. msg'[c] = msg[c]
      BY <2>1, <2>2, <2>3, <2>5
    <3> QED
      BY <2>1, <3>1 DEF Chat!Idle
  <2> QED
    BY <2>4, <2>5
<1>5. CASE UNCHANGED vars
  BY <1>5 DEF vars
<1> QED
  BY <1>1, <1>2, <1>3, <1>4, <1>5 DEF Next

\* The message table implements the conversations: one open question per case,
\* always the last, and no reply that is shown ever changes, not by a late run,
\* a second error path or a restart.
THEOREM CaseChatImplementsConversation == Spec => ImplementsConversation
<1>1. Init => Chat!ConversationInit
  BY DEF Init, Chat!ConversationInit
<1> QED
  BY <1>1, ChatInvariant, ChatStepImplements, PTL DEF Spec, ImplementsConversation,
     Chat!ConversationSpec
-----------------------------------------------------------------------------
(* Whose text is shown *)

\* The graph server takes the runs of a thread in the order they were created.
QueueInOrder ==
  \A c \in Cases : \A m, n \in Turns :
    m < n /\ run[c][n] \in {"running", "success", "error"} =>
      run[c][m] \notin {"pending", "running"}

\* From the success of its run to the moment it reads the answer, the task of
\* a turn finds the text of that run in the thread.
ThreadIsOwn ==
  \A c \in Cases : \A n \in Turns :
    /\ pc[c][n] = "waiting" /\ run[c][n] = "success" => thread[c] = n
    /\ pc[c][n] = "fetching" /\ run[c][n] # "none" => run[c][n] = "success" /\ thread[c] = n

AnswerInv == QueueInOrder /\ ThreadIsOwn /\ AnswerIsOwn

\* A failing turn is past the point where its run and its answer matter.
LEMMA FailKeepsAnswer ==
  ASSUME TypeOK, ChatInv, AnswerInv, NEW c \in Cases, NEW n \in Turns,
         pc[c][n] \in Working \cap Locked, Fail(c, n),
         UNCHANGED thread \/ thread' = [thread EXCEPT ![c] = n],
         \/ UNCHANGED run \/ SetRun(c, n, "cancelled")
         \/ pc[c][n] = "starting" /\ SetRun(c, n, "pending")
  PROVE  AnswerInv'
<1>a. \A d \in Cases : d # c => thread'[d] = thread[d]
  BY DEF TypeOK
<1>b. \A d \in Cases : \A k \in Turns : d # c \/ k # n => run'[d][k] = run[d][k]
  BY SetRunValue
<1>c. run'[c][n] \in {run[c][n], "cancelled", "pending"}
  BY SetRunValue
<1>1. UNCHANGED answer
  BY DEF Fail
<1>2. msg[c][n] = "processing"
  BY DEF ChatInv, WorkIsOpen
<1>3. \A m \in Turns : m # n => pc[c][m] \notin Locked
  BY DEF ChatInv, LockIsHeld
<1>4. \A m \in Turns : n < m => run[c][m] = "none"
  BY DEF ChatInv, TurnsInOrder, Locked
<1> USE FailValue DEF Turns
<1>5. QueueInOrder'
  BY <1>b, <1>c, <1>4, CaseChatAssumption DEF AnswerInv, QueueInOrder
<1>6. ThreadIsOwn'
  BY <1>a, <1>b, <1>3 DEF AnswerInv, ThreadIsOwn, Locked
<1>7. AnswerIsOwn'
  BY <1>b, <1>1, <1>2 DEF AnswerInv, AnswerIsOwn
<1> QED
  BY <1>5, <1>6, <1>7 DEF AnswerInv

\* Going on under the lock keeps it when the thread is as the next label needs it.
LEMMA MoveKeepsAnswer ==
  ASSUME TypeOK, ChatInv, AnswerInv, NEW c \in Cases, NEW n \in Turns, NEW label \in Control,
         GoTo(c, n, label), UNCHANGED <<msg, answer, run>>,
         \A d \in Cases : d # c => thread'[d] = thread[d],
         \/ UNCHANGED thread
         \/ \A m \in Turns : m # n => pc[c][m] \notin Locked,
         label = "waiting" => run[c][n] # "success",
         label = "fetching" /\ run[c][n] # "none" => run[c][n] = "success" /\ thread'[c] = n
  PROVE  AnswerInv'
<1>1. QueueInOrder' /\ AnswerIsOwn'
  BY DEF AnswerInv, QueueInOrder, AnswerIsOwn
<1>2. ThreadIsOwn'
  BY GoToValue DEF AnswerInv, ThreadIsOwn, Locked
<1> QED
  BY <1>1, <1>2 DEF AnswerInv

LEMMA TaskKeepsAnswer ==
  ASSUME TypeOK, ChatInv, AnswerInv, NEW c \in Cases, NEW n \in Turns, Task(c, n)
  PROVE  AnswerInv'
<1> USE DEF At
<1>1. CASE \/ Acquire(c, n) \/ AcquireFails(c, n) \/ ReadState(c, n) \/ Judge(c, n)
           \/ PatchAnswer(c, n) \/ Timeout(c, n) \/ MarkCaseError(c, n) \/ Release(c, n)
  <2>1. PICK label \in Control \ {"waiting", "fetching"} : GoTo(c, n, label)
    BY <1>1 DEF Acquire, AcquireFails, ReadState, Judge, PatchAnswer, Timeout, MarkCaseError,
       Release, Control, Locked, TypeOK, Clarification
  <2>2. UNCHANGED <<msg, answer, run, thread>>
    BY <1>1 DEF Acquire, AcquireFails, ReadState, Judge, PatchAnswer, Timeout, MarkCaseError, Release
  <2> QED
    BY <2>1, <2>2, MoveKeepsAnswer
<1>2. CASE PatchReask(c, n)
  <2>1. run[c][n] = "none" /\ pc[c][n] \in Locked
    BY <1>2 DEF PatchReask, ChatInv, RunIsStarted, Locked
  <2>2. \A m \in Turns : m # n => pc[c][m] \notin Locked
    BY <2>1 DEF ChatInv, LockIsHeld
  <2>3. GoTo(c, n, "fetching") /\ "fetching" \in Control /\ UNCHANGED <<msg, answer, run>>
    BY <1>2 DEF PatchReask, Control, Locked
  <2>4. \A d \in Cases : d # c => thread'[d] = thread[d]
    BY <1>2 DEF PatchReask, TypeOK
  <2> QED
    BY <2>1, <2>2, <2>3, <2>4, MoveKeepsAnswer
<1>3. CASE PollSuccess(c, n)
  BY <1>3, MoveKeepsAnswer DEF PollSuccess, AnswerInv, ThreadIsOwn, Control, Locked
<1>4. CASE StartRun(c, n)
  <2>1. pc[c][n] = "starting" /\ GoTo(c, n, "waiting") /\ UNCHANGED <<msg, answer, thread>>
    BY <1>4 DEF StartRun
  <2>2. msg[c][n] = "processing" /\ \A m \in Turns : n < m => run[c][m] = "none"
    BY <2>1 DEF ChatInv, WorkIsOpen, TurnsInOrder, Working
  <2>3. \A d \in Cases : \A k \in Turns :
          run'[d][k] = IF d = c /\ k = n THEN "pending" ELSE run[d][k]
    BY <1>4, SetRunValue DEF StartRun
  <2>4. QueueInOrder'
    BY <2>2, <2>3, CaseChatAssumption DEF AnswerInv, QueueInOrder, Turns
  <2>5. ThreadIsOwn'
    BY <2>1, <2>3, GoToValue DEF AnswerInv, ThreadIsOwn
  <2>6. AnswerIsOwn'
    BY <2>1, <2>2, <2>3 DEF AnswerInv, AnswerIsOwn
  <2> QED
    BY <2>4, <2>5, <2>6 DEF AnswerInv
<1>5. CASE ReadStateFails(c, n) \/ PatchAnswerFails(c, n) \/ PollFails(c, n) \/ FetchFails(c, n)
  BY <1>5, FailKeepsAnswer DEF ReadStateFails, PatchAnswerFails, PollFails, FetchFails,
     Working, Locked
<1>6. CASE PatchReaskFails(c, n)
  <2>1. /\ pc[c][n] \in Working \cap Locked /\ Fail(c, n) /\ UNCHANGED run
        /\ UNCHANGED thread \/ thread' = [thread EXCEPT ![c] = n]
    BY <1>6 DEF PatchReaskFails, Working, Locked
  <2> QED
    BY <2>1, FailKeepsAnswer
<1>7. CASE StartRunFails(c, n) \/ Cancel(c, n)
  BY <1>7, FailKeepsAnswer DEF StartRunFails, Cancel, Working, Locked
<1>8. CASE Fetch(c, n)
  <2>1. /\ pc[c][n] = "fetching" /\ GoTo(c, n, "leaving") /\ UNCHANGED <<run, thread>>
        /\ SetMessage(c, n, "done")
    BY <1>8 DEF Fetch
  <2>2. \A d \in Cases : \A k \in Turns :
          answer'[d][k] = IF d = c /\ k = n THEN thread[c] ELSE answer[d][k]
    BY <1>8, EntryValue DEF Fetch, TypeOK
  <2>3. QueueInOrder'
    BY <2>1 DEF AnswerInv, QueueInOrder
  <2>4. ThreadIsOwn'
    BY <2>1, GoToValue DEF AnswerInv, ThreadIsOwn
  <2>5. AnswerIsOwn'
    BY <2>1, <2>2, SetMessageValue DEF AnswerInv, AnswerIsOwn, ThreadIsOwn
  <2> QED
    BY <2>3, <2>4, <2>5 DEF AnswerInv
<1> QED
  BY <1>1, <1>2, <1>3, <1>4, <1>5, <1>6, <1>7, <1>8 DEF Task

\* Only a run that is alone under way writes to the thread, and no task that
\* waits for another one can have read anything yet.
LEMMA GraphKeepsAnswer ==
  ASSUME TypeOK, ChatInv, AnswerInv, NEW c \in Cases, NEW n \in Turns, Graph(c, n)
  PROVE  AnswerInv'
<1> USE DEF Turns
<1>1. UNCHANGED <<posted, msg, pc, lock, answer>>
  BY DEF Graph, RunStarts, RunCrashes, RunSaves, RunCheckpoints, RunSucceeds
<1>2. CASE RunStarts(c, n)
  BY <1>1, <1>2, SetRunValue, CaseChatAssumption
  DEF RunStarts, AnswerInv, QueueInOrder, ThreadIsOwn, AnswerIsOwn
<1>3. CASE RunCrashes(c, n)
  BY <1>1, <1>3, SetRunValue, CaseChatAssumption
  DEF RunCrashes, AnswerInv, QueueInOrder, ThreadIsOwn, AnswerIsOwn
<1>4. ASSUME NEW s \in {"completed", "error"}, RunSaves(c, n, s) PROVE AnswerInv'
  BY <1>1, <1>4 DEF RunSaves, AnswerInv, QueueInOrder, ThreadIsOwn, AnswerIsOwn
<1>5. ASSUME run[c][n] = "running", NEW m \in Turns, m # n
      PROVE  ~(pc[c][m] \in {"waiting", "fetching"} /\ run[c][m] = "success")
  BY <1>5, CaseChatAssumption DEF AnswerInv, QueueInOrder, ChatInv, TurnsInOrder
<1>6. ASSUME NEW q \in Clarification, RunCheckpoints(c, n, q) PROVE AnswerInv'
  <2>1. run[c][n] = "running" /\ UNCHANGED run
    BY <1>6 DEF RunCheckpoints
  <2>2. \A d \in Cases : d # c => thread'[d] = thread[d]
    BY <1>6 DEF RunCheckpoints, TypeOK
  <2>3. thread'[c] \in {thread[c], n}
    BY <1>6 DEF RunCheckpoints, TypeOK
  <2>4. QueueInOrder' /\ AnswerIsOwn'
    BY <1>1, <2>1 DEF AnswerInv, QueueInOrder, AnswerIsOwn
  <2>5. ThreadIsOwn'
    BY <1>1, <1>5, <2>1, <2>2, <2>3 DEF AnswerInv, ThreadIsOwn
  <2> QED
    BY <2>4, <2>5 DEF AnswerInv
<1>7. ASSUME NEW q \in Clarification, RunSucceeds(c, n, q) PROVE AnswerInv'
  <2>1. run[c][n] = "running" /\ SetRun(c, n, "success")
    BY <1>7 DEF RunSucceeds
  <2>2. \A d \in Cases : thread'[d] = IF d = c THEN n ELSE thread[d]
    BY <1>7 DEF RunSucceeds, TypeOK
  <2>3. QueueInOrder' /\ AnswerIsOwn'
    BY <1>1, <2>1, SetRunValue DEF AnswerInv, QueueInOrder, AnswerIsOwn
  <2>4. ThreadIsOwn'
    BY <1>1, <1>5, <2>1, <2>2, SetRunValue DEF AnswerInv, ThreadIsOwn
  <2> QED
    BY <2>3, <2>4 DEF AnswerInv
<1> QED
  BY <1>2, <1>3, <1>4, <1>6, <1>7 DEF Graph

\* No turn is answered with the text of another one, though runs nobody waits
\* for go on in the queue of the graph server.
THEOREM CaseChatAnswerIsOwn == Spec => []AnswerIsOwn
<1>1. Init => AnswerInv
  BY DEF Init, AnswerInv, QueueInOrder, ThreadIsOwn, AnswerIsOwn
<1>2. TypeOK /\ ChatInv /\ AnswerInv /\ [Next]_vars => AnswerInv'
  <2> SUFFICES ASSUME TypeOK, ChatInv, AnswerInv, [Next]_vars PROVE AnswerInv'
    OBVIOUS
  <2>1. ASSUME NEW c \in Cases, Post(c) PROVE AnswerInv'
    <3>1. /\ posted[c] + 1 \in Turns /\ UNCHANGED <<run, thread, answer>>
          /\ GoTo(c, posted[c] + 1, "posting") /\ SetMessage(c, posted[c] + 1, "processing")
      BY <2>1, CaseChatAssumption DEF Post, TypeOK, Turns
    <3> QED
      BY <3>1, GoToValue, SetMessageValue DEF AnswerInv, QueueInOrder, ThreadIsOwn, AnswerIsOwn
  <2>2. ASSUME NEW c \in Cases, NEW n \in Turns, Handle(c, n) PROVE AnswerInv'
    BY <2>2, MoveKeepsAnswer DEF Handle, Spawn, SpawnFails, Control
  <2>3. CASE Restart
    BY <2>3 DEF Restart, AnswerInv, QueueInOrder, ThreadIsOwn, AnswerIsOwn
  <2>4. CASE UNCHANGED vars
    BY <2>4 DEF vars, AnswerInv, QueueInOrder, ThreadIsOwn, AnswerIsOwn
  <2> QED
    BY <2>1, <2>2, <2>3, <2>4, TaskKeepsAnswer, GraphKeepsAnswer DEF Next
<1> QED
  BY <1>1, <1>2, ChatInvariant, PTL DEF Spec, AnswerInv

-----------------------------------------------------------------------------
(* Nobody waits for ever: what is safety in it *)

\* An open message has a task at work on it, where the database does not fail:
\* all ways out of the task, and a restart, close the message first.  (Where it
\* fails, the reads before the `try' leave one behind: service.py:210.)
OpenHasTask ==
  \A c \in Cases : \A n \in Turns : msg[c][n] = "processing" => pc[c][n] \in Working

LEMMA TaskKeepsOwner ==
  ASSUME TypeOK, OpenHasTask, "db" \notin Faults,
         NEW c \in Cases, NEW n \in Turns, Handle(c, n) \/ Task(c, n)
  PROVE  OpenHasTask'
<1>1. CASE \E label \in Working : GoTo(c, n, label) /\ UNCHANGED msg
  BY <1>1, GoToValue DEF OpenHasTask
<1>2. CASE Fail(c, n)
  <2>1. /\ msg'[c][n] = "error"
        /\ \A d \in Cases : \A k \in Turns :
             d # c \/ k # n => msg'[d][k] = msg[d][k] /\ pc'[d][k] = pc[d][k]
    BY <1>2, FailValue, SetMessageValue DEF Fail
  <2> QED
    BY <2>1 DEF OpenHasTask
<1>3. CASE Fetch(c, n)
  BY <1>3, GoToValue, SetMessageValue DEF Fetch, OpenHasTask
<1>4. CASE MarkCaseError(c, n) \/ Release(c, n)
  <2>1. pc[c][n] \notin Working /\ UNCHANGED msg
    BY <1>4 DEF MarkCaseError, Release, At, Working
  <2>2. \A d \in Cases : \A k \in Turns : d # c \/ k # n => pc'[d][k] = pc[d][k]
    BY <1>4, GoToValue DEF MarkCaseError, Release
  <2> QED
    BY <2>1, <2>2 DEF OpenHasTask
<1>5. CASE \/ Spawn(c, n) \/ Acquire(c, n) \/ Judge(c, n) \/ PatchAnswer(c, n)
           \/ PatchReask(c, n) \/ StartRun(c, n) \/ PollSuccess(c, n) \/ Timeout(c, n)
  <2>1. \E label \in {"queued", "reading", "answering", "reasking", "starting", "fetching",
                      "waiting", "cancelling"} : GoTo(c, n, label) /\ UNCHANGED msg
    BY <1>5 DEF Spawn, Acquire, Judge, PatchAnswer, PatchReask, StartRun, PollSuccess, Timeout
  <2> QED
    BY <1>1, <2>1 DEF Working
<1>6. CASE ReadState(c, n)
  <2>1. \E label \in {"starting", "answering", "judging"} : GoTo(c, n, label) /\ UNCHANGED msg
    BY <1>6 DEF ReadState
  <2> QED
    BY <1>1, <2>1 DEF Working
<1>7. CASE \/ ReadStateFails(c, n) \/ PatchAnswerFails(c, n) \/ PatchReaskFails(c, n)
           \/ StartRunFails(c, n) \/ PollFails(c, n) \/ Cancel(c, n) \/ FetchFails(c, n)
  BY <1>2, <1>7 DEF ReadStateFails, PatchAnswerFails, PatchReaskFails, StartRunFails, PollFails,
     Cancel, FetchFails
<1> QED
  BY <1>3, <1>4, <1>5, <1>6, <1>7 DEF Handle, SpawnFails, Task, AcquireFails

\* While the database answers, a message that is open is being worked on,
\* whatever else fails and however often the process dies.
THEOREM CaseChatOpenHasTask ==
  ASSUME "db" \notin Faults
  PROVE  Spec => []OpenHasTask
<1>1. Init => OpenHasTask
  BY DEF Init, OpenHasTask
<1>2. TypeOK /\ OpenHasTask /\ [Next]_vars => OpenHasTask'
  <2> SUFFICES ASSUME TypeOK, OpenHasTask, [Next]_vars PROVE OpenHasTask'
    OBVIOUS
  <2>1. ASSUME NEW c \in Cases, Post(c) PROVE OpenHasTask'
    <3>1. posted[c] + 1 \in Turns
      BY <2>1, CaseChatAssumption DEF Post, TypeOK, Turns
    <3> QED
      BY <2>1, <3>1, GoToValue, SetMessageValue DEF Post, OpenHasTask, Working
  <2>2. ASSUME NEW c \in Cases, NEW n \in Turns, Graph(c, n) PROVE OpenHasTask'
    BY <2>2 DEF Graph, RunStarts, RunCrashes, RunSaves, RunCheckpoints, RunSucceeds, OpenHasTask
  <2>3. CASE Restart
    BY <2>3 DEF Restart, OpenHasTask
  <2>4. CASE UNCHANGED vars
    BY <2>4 DEF vars, OpenHasTask
  <2> QED
    BY <2>1, <2>2, <2>3, <2>4, TaskKeepsOwner DEF Next
<1> QED
  BY <1>1, <1>2, CaseChatTypeOK, PTL DEF Spec

\* A task in the queue for the lock waits only for one whose message is closed
\* already: it has but to mark the case and to leave.
LockIsGivenBack ==
  \A c \in Cases : \A n \in Turns :
    pc[c][n] = "queued" /\ lock[c] # 0 => pc[c][lock[c]] \in {"marking", "leaving"}

\* No two tasks of a case wait for each other, and none waits for a run of the
\* graph server but its own, with all faults.
THEOREM CaseChatLockIsGivenBack == Spec => []LockIsGivenBack
<1>1. TypeOK /\ ChatInv => LockIsGivenBack
  <2> SUFFICES ASSUME TypeOK, ChatInv, NEW c \in Cases, NEW n \in Turns,
                      pc[c][n] = "queued", lock[c] # 0
               PROVE  pc[c][lock[c]] \in {"marking", "leaving"}
    BY DEF LockIsGivenBack
  <2>1. lock[c] \in Turns
    BY CaseChatAssumption DEF TypeOK, Turns
  <2>2. pc[c][lock[c]] \in Locked
    BY <2>1 DEF ChatInv, LockIsHeld
  <2>3. n = posted[c] /\ lock[c] # n
    BY <2>2 DEF ChatInv, WorkIsOpen, OnlyLastOpen, Working, Locked
  <2>4. pc[c][lock[c]] \notin Working
    BY <2>1, <2>3 DEF ChatInv, WorkIsOpen, OnlyLastOpen
  <2> QED
    BY <2>2, <2>4 DEF Locked, Working
<1> QED
  BY <1>1, ChatInvariant, PTL

\* How far a task still has to go.
Distance(label) ==
  CASE label = "over" -> 0
    [] label = "leaving" -> 1
    [] label = "marking" -> 2
    [] label \in {"fetching", "cancelling"} -> 3
    [] label = "waiting" -> 4
    [] label = "starting" -> 5
    [] label \in {"answering", "reasking"} -> 6
    [] label = "judging" -> 7
    [] label = "reading" -> 8
    [] label = "queued" -> 9
    [] label = "posting" -> 10
    [] OTHER -> 11

LEMMA TaskMoves ==
  ASSUME NEW c \in Cases, NEW n \in Turns, Handle(c, n) \/ Task(c, n)
  PROVE  \E label \in Control : GoTo(c, n, label) /\ Distance(label) < Distance(pc[c][n])
<1> USE DEF At, Control, Locked
<1>1. CASE Spawn(c, n) \/ SpawnFails(c, n) \/ Acquire(c, n) \/ AcquireFails(c, n)
  BY <1>1 DEF Spawn, SpawnFails, Acquire, AcquireFails, Distance
<1>2. CASE ReadState(c, n)
  BY <1>2 DEF ReadState, Distance
<1>3. CASE Judge(c, n)
  BY <1>3 DEF Judge, Distance
<1>4. CASE PatchAnswer(c, n) \/ PatchReask(c, n) \/ StartRun(c, n)
  BY <1>4 DEF PatchAnswer, PatchReask, StartRun, Distance
<1>5. CASE PollSuccess(c, n) \/ Timeout(c, n) \/ Fetch(c, n)
  BY <1>5 DEF PollSuccess, Timeout, Fetch, Distance
<1>6. CASE MarkCaseError(c, n) \/ Release(c, n)
  BY <1>6 DEF MarkCaseError, Release, Distance
<1>7. CASE \/ ReadStateFails(c, n) \/ PatchAnswerFails(c, n) \/ PatchReaskFails(c, n)
           \/ StartRunFails(c, n) \/ PollFails(c, n) \/ Cancel(c, n) \/ FetchFails(c, n)
  <2>1. /\ Fail(c, n)
        /\ pc[c][n] \in {"reading", "answering", "reasking", "starting", "waiting", "cancelling",
                         "fetching"}
    BY <1>7 DEF ReadStateFails, PatchAnswerFails, PatchReaskFails, StartRunFails, PollFails,
       Cancel, FetchFails
  <2>2. GoTo(c, n, "marking")
    BY <2>1 DEF Fail
  <2>3. Distance("marking") < Distance(pc[c][n])
    BY <2>1 DEF Distance
  <2> QED
    BY <2>2, <2>3
<1> QED
  BY <1>1, <1>2, <1>3, <1>4, <1>5, <1>6, <1>7 DEF Handle, Task

\* Every step of a task brings it closer to its end, and no step of anything
\* else takes it back.
TasksGoOn ==
  [][\A c \in Cases : \A n \in Turns :
       /\ Handle(c, n) \/ Task(c, n) => Distance(pc'[c][n]) < Distance(pc[c][n])
       /\ Distance(pc'[c][n]) <= Distance(pc[c][n])]_vars

\* A task takes ten steps at most: nothing in process_chat_run is repeated, and
\* the polling of a run ends with the run or with the watchdog.
THEOREM CaseChatTasksGoOn == Spec => TasksGoOn
<1> DEFINE Forward ==
      \A c \in Cases : \A n \in Turns :
        /\ Handle(c, n) \/ Task(c, n) => Distance(pc'[c][n]) < Distance(pc[c][n])
        /\ Distance(pc'[c][n]) <= Distance(pc[c][n])
<1>0. \A label : Distance(label) \in 0 .. 11
  BY DEF Distance
<1>1. ASSUME TypeOK, ChatInv, Next PROVE Forward
  <2>1. ASSUME NEW c \in Cases, NEW n \in Turns, Handle(c, n) \/ Task(c, n)
        PROVE  /\ Distance(pc'[c][n]) < Distance(pc[c][n])
               /\ \A d \in Cases : \A k \in Turns : d # c \/ k # n => pc'[d][k] = pc[d][k]
    <3>1. PICK label \in Control : GoTo(c, n, label) /\ Distance(label) < Distance(pc[c][n])
      BY <2>1, TaskMoves
    <3> QED
      BY <1>1, <3>1, GoToValue
  <2> SUFFICES ASSUME NEW d \in Cases, NEW k \in Turns
               PROVE  Distance(pc'[d][k]) <= Distance(pc[d][k])
    BY <2>1
  <2>2. CASE pc'[d][k] = pc[d][k]
    BY <2>2, <1>0
  <2>3. ASSUME NEW c \in Cases, Post(c) PROVE Distance(pc'[d][k]) <= Distance(pc[d][k])
    <3>1. posted[c] + 1 \in Turns /\ GoTo(c, posted[c] + 1, "posting")
      BY <1>1, <2>3, CaseChatAssumption DEF Post, TypeOK, Turns
    <3>2. CASE d = c /\ k = posted[c] + 1
      <4>1. pc[d][k] = "none" /\ pc'[d][k] = "posting"
        BY <1>1, <3>1, <3>2, GoToValue DEF ChatInv, RowsPosted, TypeOK
      <4> QED
        BY <4>1 DEF Distance
    <3> QED
      BY <3>1, <3>2, <2>2, <1>1, GoToValue
  <2>4. ASSUME NEW c \in Cases, NEW n \in Turns, Graph(c, n)
        PROVE  Distance(pc'[d][k]) <= Distance(pc[d][k])
    BY <2>2, <2>4 DEF Graph, RunStarts, RunCrashes, RunSaves, RunCheckpoints, RunSucceeds
  <2>5. CASE Restart
    <3>1. pc'[d][k] = IF pc[d][k] = "none" THEN "none" ELSE "over"
      BY <2>5 DEF Restart
    <3>2. Distance("over") = 0
      BY DEF Distance
    <3> QED
      BY <2>2, <3>1, <3>2, <1>0
  <2>6. ASSUME NEW c \in Cases, NEW n \in Turns, Handle(c, n) \/ Task(c, n)
        PROVE  Distance(pc'[d][k]) <= Distance(pc[d][k])
    <3>1. CASE d = c /\ k = n
      BY <2>1, <2>6, <3>1, <1>0
    <3> QED
      BY <2>1, <2>2, <2>6, <3>1
  <2> QED
    BY <1>1, <2>3, <2>4, <2>5, <2>6 DEF Next
<1>2. TypeOK /\ ChatInv /\ [Next]_vars => [Forward]_vars
  BY <1>1
<1> QED
  BY <1>2, ChatInvariant, PTL DEF Spec, TasksGoOn
=============================================================================
