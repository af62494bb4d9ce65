------------------------------- MODULE Accounts -------------------------------
(***************************************************************************)
(* Which account a sign-in through Google or Yandex ends in               *)
(* (app/auth/routes.py, app/db/crud.py), with the seed account that the    *)
(* migrations create at start-up (app/db/migrate.py).                      *)
(*                                                                         *)
(* The callbacks are coroutines that look the account up and write it      *)
(* without waiting in between, so each is one step.  The e-mail that comes *)
(* with an identity is the provider's business and may differ from one     *)
(* sign-in to the next.  No code path deletes an account.                  *)
(***************************************************************************)
EXTENDS Integers

CONSTANTS
  AccountIds,     \* keys of the table users
  Emails,
  SeedEmail,      \* settings.seed_admin_email
  Google,         \* subjects of Google identities
  Yandex,         \* ids of Yandex identities
  Nobody            \* NULL

ASSUME AccountsAssumption ==
  /\ SeedEmail \in Emails
  /\ Google \cap Yandex = {}
  /\ Nobody \notin Google \cup Yandex \cup AccountIds \cup Emails

VARIABLES
  email,      \* email[a]: the e-mail of account a, Nobody when there is no row
  link,       \* link[a][p]: a's google_id or yandex_id, by provider
  latest      \* history: the account the latest sign-in of an identity gave

accountVars == <<email, link, latest>>

Providers == {"google", "yandex"}
Identities == Google \cup Yandex
Provider(i) == IF i \in Google THEN "google" ELSE "yandex"

Exists(a) == email[a] # Nobody
NoLinks == [p \in Providers |-> Nobody]

\* run_migrations makes sure of the seed account, on the first start and on
\* every other.
AccountsInit ==
  /\ \E a \in AccountIds :
       email = [b \in AccountIds |-> IF b = a THEN SeedEmail ELSE Nobody]
  /\ link = [a \in AccountIds |-> NoLinks]
  /\ latest = [i \in Identities |-> Nobody]

Linked(i) == {a \in AccountIds : Exists(a) /\ link[a][Provider(i)] = i}
WithEmail(e) == {a \in AccountIds : email[a] = e}

\* Mutant: the e-mail first.
Found_ByEmail(i, e) == IF WithEmail(e) # {} THEN WithEmail(e) ELSE Linked(i)

\* The identity first, then the e-mail.
Found(i, e) == IF Linked(i) # {} THEN Linked(i) ELSE WithEmail(e)

\* A provider's id is stored where there is none.
Bind(i, a) ==
  link' = [link EXCEPT ![a] =
             [p \in Providers |->
                IF p = Provider(i) /\ link[a][p] = Nobody THEN i ELSE link[a][p]]]

\* upsert_user_by_google and upsert_user_by_yandex.
SignIn(i, e) ==
  \E a \in AccountIds :
    /\ \/ a \in Found(i, e) /\ UNCHANGED email
       \/ /\ Found(i, e) = {} /\ ~Exists(a)
          /\ email' = [email EXCEPT ![a] = e]
    /\ Bind(i, a)
    /\ latest' = [latest EXCEPT ![i] = a]

AccountsNext == \E i \in Identities, e \in Emails : SignIn(i, e)

AccountsSpec == AccountsInit /\ [][AccountsNext]_accountVars

-----------------------------------------------------------------------------
(* Properties *)

AccountsTypeOK ==
  /\ email \in [AccountIds -> Emails \cup {Nobody}]
  /\ link \in [AccountIds -> [Providers -> Identities \cup {Nobody}]]
  /\ latest \in [Identities -> AccountIds \cup {Nobody}]

\* The account an identity was linked to is the one every later sign-in of
\* that identity gives, whatever e-mail comes with it and whoever holds that
\* e-mail by then; and the link is never moved.
KeepsAccount ==
  [][\A i \in Identities : Linked(i) # {} =>
        /\ Linked(i)' = Linked(i)
        /\ latest'[i] # latest[i] => latest'[i] \in Linked(i)]_accountVars

\* No two accounts share an e-mail or an identity: the two unique columns are
\* never what ends a sign-in.
AccountsDistinct ==
  \A a, b \in AccountIds : a # b =>
    /\ Exists(a) => email[a] # email[b]
    /\ \A p \in Providers : link[a][p] # Nobody => link[a][p] # link[b][p]
=============================================================================
