---------------------------- MODULE Conversation ----------------------------
(***************************************************************************)
(* What the cases promise to the users who chat in them, with no tasks, no *)
(* locks, no graph server and no restarts: the questions of a case are     *)
(* answered one at a time, and a reply, once shown, stays.                 *)
(***************************************************************************)
EXTENDS Integers

CONSTANTS
  Cases,
  Turns       \* turns of a conversation, 1 .. the last one

VARIABLES
  asked,      \* asked[c]: how many questions have been put in c
  reply       \* reply[c][n]: what stands under question n of c

ConversationInit ==
  /\ asked = [c \in Cases |-> 0]
  /\ reply = [c \in Cases |-> [n \in Turns |-> "none"]]

\* The next question is put, once the last one has its reply.
Ask(c) ==
  /\ asked[c] + 1 \in Turns
  /\ \A n \in Turns : reply[c][n] # "processing"
  /\ asked'[c] = asked[c] + 1
  /\ reply'[c] = [reply[c] EXCEPT ![asked[c] + 1] = "processing"]

\* The open question gets its reply.
Settle(c) ==
  /\ asked[c] \in Turns /\ reply[c][asked[c]] = "processing"
  /\ \E outcome \in {"done", "error"} :
       reply'[c] = [reply[c] EXCEPT ![asked[c]] = outcome]
  /\ asked'[c] = asked[c]

Idle(c) == asked'[c] = asked[c] /\ reply'[c] = reply[c]

\* Cases are independent: any of them may take a step.
ConversationNext == \A c \in Cases : Ask(c) \/ Settle(c) \/ Idle(c)

ConversationSpec ==
  ConversationInit /\ [][ConversationNext]_<<asked, reply>>
=============================================================================
