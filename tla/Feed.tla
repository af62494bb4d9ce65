--------------------------------- MODULE Feed ---------------------------------
(***************************************************************************)
(* The live channel of one recipient: the registry of open sockets         *)
(* (app/realtime.py for users, app/admin/realtime.py for admins), the      *)
(* endpoints that register a socket (app/server.py, app/admin/routes.py),  *)
(* and the snapshot of the jobs in flight that an admin's socket gets      *)
(* first (app/admin/tasks.py).                                             *)
(*                                                                         *)
(* Every event is sent by a coroutine of its own, which copies the set of  *)
(* sockets under the registry's lock and then waits for one socket after   *)
(* the other.  Nothing waits while it holds the lock, so what is done      *)
(* under it is one step.  Sockets of other recipients are in other sets.   *)
(***************************************************************************)
EXTENDS Integers

CONSTANTS
  Sockets,     \* connections; a page that comes back has a new one
  MaxEvent     \* bound on the events of a run

ASSUME FeedAssumption == MaxEvent \in Nat

VARIABLES
  conn,       \* conn[c]: how far the endpoint of socket c has come
  registry,   \* the recipient's set of registered sockets
  tracked,    \* events recorded so far; the latest is what a snapshot shows
  emit,       \* emit[e]: how far the coroutine that sends event e has come
  shown,      \* shown[c]: the events the snapshot of c stands for, 1 .. shown[c]
  received    \* received[c]: events that reached socket c

feedVars == <<conn, registry, tracked, emit, shown, received>>

Events == 1 .. MaxEvent
ConnStates == {"new", "accepted", "registered", "open", "leaving", "closed"}

NotYet == [pc |-> "not yet"]
Recorded == [pc |-> "recorded"]
Sending(targets) == [pc |-> "sending", targets |-> targets]
EmitStates == {NotYet, Recorded} \cup [pc : {"sending"}, targets : SUBSET Sockets]

FeedInit ==
  /\ conn = [c \in Sockets |-> "new"]
  /\ registry = {}
  /\ tracked = 0
  /\ emit = [e \in Events |-> NotYet]
  /\ shown = [c \in Sockets |-> 0]
  /\ received = [c \in Sockets |-> {}]

-----------------------------------------------------------------------------
(* The endpoint: websocket_endpoint and admin_ws *)

\* The session has been recognized and the socket accepted.
Accept(c) ==
  /\ conn[c] = "new"
  /\ conn' = [conn EXCEPT ![c] = "accepted"]
  /\ UNCHANGED <<registry, tracked, emit, shown, received>>

\* Mutant: one socket for each recipient, so a second page replaces the first.
Register_Replaces(c) ==
  /\ conn[c] = "accepted"
  /\ conn' = [conn EXCEPT ![c] = "registered"]
  /\ registry' = {c}
  /\ UNCHANGED <<tracked, emit, shown, received>>

Register(c) ==
  /\ conn[c] = "accepted"
  /\ conn' = [conn EXCEPT ![c] = "registered"]
  /\ registry' = registry \cup {c}
  /\ UNCHANGED <<tracked, emit, shown, received>>

\* snapshot_live_progress is taken and sent.
Snapshot(c) ==
  /\ conn[c] = "registered"
  /\ conn' = [conn EXCEPT ![c] = "open"]
  /\ shown' = [shown EXCEPT ![c] = tracked]
  /\ UNCHANGED <<registry, tracked, emit, received>>

\* The receive loop ends at any moment.
Disconnect(c) ==
  /\ conn[c] \in {"registered", "open"}
  /\ conn' = [conn EXCEPT ![c] = "leaving"]
  /\ UNCHANGED <<registry, tracked, emit, shown, received>>

\* unregister, in the finally.
Unregister(c) ==
  /\ conn[c] = "leaving"
  /\ conn' = [conn EXCEPT ![c] = "closed"]
  /\ registry' = registry \ {c}
  /\ UNCHANGED <<tracked, emit, shown, received>>

-----------------------------------------------------------------------------
(* emit_to_user and emit_admin_event *)

\* _track_for_snapshot, before the event is sent.
Track(e) ==
  /\ e = tracked + 1
  /\ tracked' = e
  /\ emit' = [emit EXCEPT ![e] = Recorded]
  /\ UNCHANGED <<conn, registry, shown, received>>

\* The sockets are copied under the lock.
Copy(e) ==
  /\ emit[e] = Recorded
  /\ emit' = [emit EXCEPT ![e] = Sending(registry)]
  /\ UNCHANGED <<conn, registry, tracked, shown, received>>

Gone(c) == conn[c] \in {"leaving", "closed"}

\* send_json of one socket; a failure is logged and the rest goes on.  It
\* fails only where the connection is gone.
SendTo(e, c) ==
  /\ emit[e].pc = "sending" /\ c \in emit[e].targets
  /\ emit' = [emit EXCEPT ![e] = Sending(emit[e].targets \ {c})]
  /\ received' = IF Gone(c) THEN received
                 ELSE [received EXCEPT ![c] = received[c] \cup {e}]
  /\ UNCHANGED <<conn, registry, tracked, shown>>

FeedNext ==
  \/ \E c \in Sockets : Accept(c) \/ Register(c) \/ Snapshot(c) \/ Disconnect(c) \/ Unregister(c)
  \/ \E e \in Events : Track(e) \/ Copy(e) \/ \E c \in Sockets : SendTo(e, c)

FeedSpec == FeedInit /\ [][FeedNext]_feedVars

-----------------------------------------------------------------------------
(* Properties *)

FeedTypeOK ==
  /\ conn \in [Sockets -> ConnStates]
  /\ registry \subseteq Sockets
  /\ tracked \in 0 .. MaxEvent
  /\ emit \in [Events -> EmitStates]
  /\ shown \in [Sockets -> 0 .. MaxEvent]
  /\ received \in [Sockets -> SUBSET Events]

OnItsWay(e, c) ==
  emit[e] = Recorded \/ (emit[e].pc = "sending" /\ c \in emit[e].targets)

\* A page that connects while a job reports its progress misses nothing: every
\* event up to now is in the snapshot it was sent, has reached it, or is still
\* on its way, for all that sockets come and go and sends overtake each other.
NothingMissed ==
  \A c \in Sockets, e \in Events :
    conn[c] = "open" /\ e <= tracked
      => e <= shown[c] \/ e \in received[c] \/ OnItsWay(e, c)

\* A closed socket is not left in the registry.
RegistryIsExact ==
  \A c \in Sockets : c \in registry <=> conn[c] \in {"registered", "open", "leaving"}
=============================================================================
