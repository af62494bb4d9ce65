----------------------------- MODULE Preferences -----------------------------
(***************************************************************************)
(* The preferences of one user (app/preferences/routes.py, app/db/crud.py) *)
(* and the theme reset of the migrations (app/db/migrate.py).              *)
(*                                                                         *)
(* PUT /api/preferences is a plain function that runs in a worker thread:  *)
(* its transaction reads the row and writes later, and two of them can be  *)
(* between the two at once.  The ORM writes the columns whose value differs *)
(* from what was read, and no others.  ask_personal_data goes the way of   *)
(* the policy and is left out.                                             *)
(***************************************************************************)
EXTENDS Integers

CONSTANTS
  Saves       \* PUT requests

VARIABLES
  prefs,      \* the row of user_preferences, NoRow if there is none
  save        \* save[s]: how far a PUT has come

prefVars == <<prefs, save>>

Policies == {"legal_only", "always", "always_ask"}
Themes == {"dark", "light"}
Unset == "unset"               \* NULL, and "leave unchanged" in a request
Fields == {"policy", "theme"}

NoRow == [policy |-> Unset, theme |-> Unset]
Defaults == [policy |-> "legal_only", theme |-> Unset]      \* _default_prefs
Rows == [policy : Policies, theme : Themes \cup {Unset}]
Changes == [policy : Policies \cup {Unset}, theme : Themes \cup {Unset}]

Idle == [pc |-> "idle"]
SaveStates == {Idle} \cup [pc : {"read"}, row : Rows \cup {NoRow}, change : Changes]

PreferencesInit ==
  /\ prefs = NoRow
  /\ save = [s \in Saves |-> Idle]

\* What GET answers.
Shown == IF prefs = NoRow THEN Defaults ELSE prefs

Apply(row, change) ==
  [f \in Fields |-> IF change[f] = Unset THEN row[f] ELSE change[f]]

\* The columns that an UPDATE carries.
Dirty(row, change) == {f \in Fields : Apply(row, change)[f] # row[f]}

\* session.get: the change has passed the checks of the payload.
ReadRow(s, change) ==
  /\ save[s] = Idle
  /\ save' = [save EXCEPT ![s] = [pc |-> "read", row |-> prefs, change |-> change]]
  /\ UNCHANGED prefs

\* The row was missing: INSERT, which the primary key refuses when another
\* request was faster; that request is answered with a 500.
InsertRow(s) ==
  /\ save[s].pc = "read" /\ save[s].row = NoRow
  /\ prefs' = IF prefs = NoRow THEN Apply(Defaults, save[s].change) ELSE prefs
  /\ save' = [save EXCEPT ![s] = Idle]

\* Mutant: the whole row is written as it was read.
Written_WholeRow(s) == Apply(save[s].row, save[s].change)

Written(s) ==
  [f \in Fields |-> IF f \in Dirty(save[s].row, save[s].change)
                    THEN save[s].change[f] ELSE prefs[f]]

UpdateRow(s) ==
  /\ save[s].pc = "read" /\ save[s].row # NoRow
  /\ prefs' = Written(s)
  /\ save' = [save EXCEPT ![s] = Idle]

\* UPDATE user_preferences SET theme = NULL WHERE theme = 'dark'.
ResetTheme == IF prefs.theme = "dark" THEN [prefs EXCEPT !.theme = Unset] ELSE prefs

\* The process restarts: requests are lost and the migrations run.
Migrate ==
  /\ prefs' = ResetTheme
  /\ save' = [s \in Saves |-> Idle]

PreferencesNext ==
  \/ \E s \in Saves :
       (\E change \in Changes : ReadRow(s, change)) \/ InsertRow(s) \/ UpdateRow(s)
  \/ Migrate

PreferencesSpec == PreferencesInit /\ [][PreferencesNext]_prefVars

-----------------------------------------------------------------------------
(* Properties *)

PreferencesTypeOK ==
  /\ prefs \in Rows \cup {NoRow}
  /\ save \in [Saves -> SaveStates]

\* A PUT that carries one field never disturbs the other, however the reads
\* and writes of two PUTs fall: what GET shows of a field, its default as long
\* as there is no row, changes only to the value some request under way asks
\* for it, or, at a start, from dark to none.
FieldsIndependent ==
  [][\A f \in Fields : Shown'[f] # Shown[f] =>
       \/ \E s \in Saves : save[s].pc = "read" /\ save'[s] = Idle
                           /\ save[s].change[f] = Shown'[f]
       \/ f = "theme" /\ Shown.theme = "dark" /\ Shown'.theme = Unset]_prefVars
=============================================================================
