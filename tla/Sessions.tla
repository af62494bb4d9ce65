------------------------------- MODULE Sessions -------------------------------
(***************************************************************************)
(* The session cookie of one browser, which the user's sign-in             *)
(* (app/auth/routes.py, app/auth/session.py) and the admin's               *)
(* (app/admin/auth.py, app/admin/routes.py) both keep their keys in.       *)
(*                                                                         *)
(* The whole session is in the cookie: a request carries the cookie of the *)
(* moment it is sent, its handler changes a copy, and the response puts    *)
(* the copy into the browser when it arrives.  Responses overtake one      *)
(* another, so a later one may put back what an earlier one removed.       *)
(***************************************************************************)
EXTENDS Integers

CONSTANTS
  User,        \* the user the browser signs in as
  AdminIds,    \* keys of the table admin_users
  Namesakes,   \* those whose username is settings.owner_username
  States,      \* tokens of the Yandex sign-in
  Tabs         \* requests that can be under way at a time

OWNER == "owner"        \* OWNER_ID
Absent == "absent"      \* the key is not in the session

ASSUME SessionsAssumption ==
  /\ {User} \cap {Absent} = {}
  /\ AdminIds \cap {OWNER, Absent} = {}
  /\ Namesakes \subseteq AdminIds
  /\ Absent \notin States

VARIABLES
  cookie,     \* the session the browser holds
  flight,     \* flight[t]: the session a request carries, then its response's
  admins      \* admins[a]: "free", "live" or "deleted"

sessionVars == <<cookie, flight, admins>>

Principals == AdminIds \cup {OWNER}
Session ==
  [user_id : {User, Absent}, admin_id : Principals \cup {Absent},
   is_owner : BOOLEAN, owner_theme : {"dark", Absent},
   yandex_oauth_state : States \cup {Absent}]
Empty == [user_id |-> Absent, admin_id |-> Absent, is_owner |-> FALSE,
          owner_theme |-> Absent, yandex_oauth_state |-> Absent]

NoRequest == [pc |-> "none"]
Sent(s) == [pc |-> "sent", session |-> s]
Answered(s) == [pc |-> "answered", session |-> s]
FlightStates == {NoRequest} \cup [pc : {"sent", "answered"}, session : Session]

SessionsInit ==
  /\ cookie = Empty
  /\ flight = [t \in Tabs |-> NoRequest]
  /\ admins = [a \in AdminIds |-> "free"]

-----------------------------------------------------------------------------
(* The browser *)

Send(t) ==
  /\ flight[t] = NoRequest
  /\ flight' = [flight EXCEPT ![t] = Sent(cookie)]
  /\ UNCHANGED <<cookie, admins>>

Receive(t) ==
  /\ flight[t].pc = "answered"
  /\ cookie' = flight[t].session
  /\ flight' = [flight EXCEPT ![t] = NoRequest]
  /\ UNCHANGED admins

Carried(t) == flight[t].session

\* The handler of the request ends with session s.  The session middleware
\* sends a session that is not empty, and deletes the cookie when the session
\* has become empty; one that was empty all along is left alone.
Answer(t, s) ==
  /\ flight[t].pc = "sent"
  /\ flight' = [flight EXCEPT ![t] = IF s = Empty /\ Carried(t) = Empty THEN NoRequest
                                                                      ELSE Answered(s)]
  /\ UNCHANGED cookie

-----------------------------------------------------------------------------
(* The user's handlers; users are never deleted, so current_user finds one *)

YandexLogin(t) ==
  /\ \E state \in States :
       Answer(t, [Carried(t) EXCEPT !.yandex_oauth_state = state])
  /\ UNCHANGED admins

\* The state is used up whether it matches or not; with a match, the code, the
\* token and the profile may still be refused.
YandexCallback(t) ==
  /\ \E state \in States :
       LET s == [Carried(t) EXCEPT !.yandex_oauth_state = Absent]
       IN  \/ Answer(t, s)
           \/ /\ Carried(t).yandex_oauth_state = state
              /\ Answer(t, [s EXCEPT !.user_id = User])
  /\ UNCHANGED admins

GoogleCallback(t) ==
  /\ Answer(t, [Carried(t) EXCEPT !.user_id = User])
  /\ UNCHANGED admins

SignedIn(s) == s.user_id # Absent

\* session.clear() takes the admin's keys along.
Logout(t) ==
  /\ SignedIn(Carried(t))
  /\ Answer(t, Empty)
  /\ UNCHANGED admins

\* Every other route of the user, answered with 401 or not: an admin_id that
\* stands for nobody stays.
UserRequest(t) == Answer(t, Carried(t)) /\ UNCHANGED admins

-----------------------------------------------------------------------------
(* The admin's handlers *)

\* current_admin drops an admin_id that stands for nobody.
Stale(s) ==
  \/ s.admin_id = OWNER /\ ~s.is_owner
  \/ s.admin_id \in AdminIds /\ admins[s.admin_id] # "live"

CurrentAdmin(s) == IF Stale(s) THEN [s EXCEPT !.admin_id = Absent] ELSE s

IsAdmin(s) == CurrentAdmin(s).admin_id # Absent
IsOwner(s) == CurrentAdmin(s).admin_id = OWNER

WithOwner(s) == [s EXCEPT !.admin_id = OWNER, !.is_owner = TRUE]
\* Mutant: the flag of the owner is left behind.
WithAdmin_KeepsFlag(s, a) == [s EXCEPT !.admin_id = a]

WithAdmin(s, a) == [s EXCEPT !.admin_id = a, !.is_owner = FALSE]

LoginAsOwner(t) == Answer(t, WithOwner(Carried(t))) /\ UNCHANGED admins

LoginAsAdmin(t) ==
  /\ \E a \in AdminIds :
       admins[a] = "live" /\ Answer(t, WithAdmin(Carried(t), a))
  /\ UNCHANGED admins

AdminLogout(t) ==
  /\ IsAdmin(Carried(t))
  /\ Answer(t, [Carried(t) EXCEPT !.admin_id = Absent, !.is_owner = FALSE])
  /\ UNCHANGED admins

\* Every other route behind current_admin, and those that answer 401 or 403.
AdminRequest(t) == Answer(t, CurrentAdmin(Carried(t))) /\ UNCHANGED admins

\* The owner's theme is kept in the session; an admin's in the row.
PutTheme(t) ==
  /\ IsOwner(Carried(t))
  /\ Answer(t, [Carried(t) EXCEPT !.owner_theme = "dark"])
  /\ UNCHANGED admins

NewAdmin(a) == admins[a] = "free" /\ admins' = [admins EXCEPT ![a] = "live"]
RemovedAdmin(a) == admins[a] = "live" /\ admins' = [admins EXCEPT ![a] = "deleted"]

CreateAdmin(t) ==
  /\ IsOwner(Carried(t))
  /\ Answer(t, Carried(t))
  /\ \E a \in AdminIds : NewAdmin(a)

DeleteAdmin(t) ==
  /\ IsOwner(Carried(t))
  /\ Answer(t, Carried(t))
  /\ \E a \in AdminIds : RemovedAdmin(a)

Handle(t) ==
  /\ flight[t].pc = "sent"
  /\ \/ YandexLogin(t) \/ YandexCallback(t) \/ GoogleCallback(t) \/ Logout(t) \/ UserRequest(t)
     \/ LoginAsOwner(t) \/ LoginAsAdmin(t) \/ AdminLogout(t) \/ AdminRequest(t)
     \/ PutTheme(t) \/ CreateAdmin(t) \/ DeleteAdmin(t)

\* The process restarts: requests are lost, and run_migrations deletes an
\* admin that has the owner's name.
Restart ==
  /\ flight' = [t \in Tabs |-> NoRequest]
  /\ admins' = [a \in AdminIds |->
                  IF a \in Namesakes /\ admins[a] = "live" THEN "deleted" ELSE admins[a]]
  /\ UNCHANGED cookie

SessionsNext ==
  \/ \E t \in Tabs : Send(t) \/ Receive(t) \/ Handle(t)
  \/ Restart

SessionsSpec == SessionsInit /\ [][SessionsNext]_sessionVars

-----------------------------------------------------------------------------
(* Properties *)

SessionsTypeOK ==
  /\ cookie \in Session
  /\ flight \in [Tabs -> FlightStates]
  /\ admins \in [AdminIds -> {"free", "live", "deleted"}]

Sessions == {cookie} \cup {Carried(t) : t \in {u \in Tabs : flight[u] # NoRequest}}

\* admin_id and is_owner are two keys that are set and dropped by different
\* handlers, and a response that overtakes another brings back old values of
\* both.  They agree all the same: who is taken for the owner signed in as the
\* owner, and a sign-in as another admin, a sign-out or a deleted account leaves
\* no flag behind.
SessionIsOnePrincipal == \A s \in Sessions : s.is_owner <=> s.admin_id = OWNER
=============================================================================
