----------------------------- MODULE AccessProofs -----------------------------
(* Proofs about Accounts, Preferences and Sessions: for any accounts, any    *)
(* identities, any number of requests under way and any number of admins.    *)
EXTENDS Accounts, Preferences, Sessions, TLAPS

-----------------------------------------------------------------------------
(* Accounts *)

\* An account that does not exist has no links: an identity is linked to
\* accounts only, so that Linked says all about it.
LinksHaveAccounts ==
  \A a \in AccountIds : ~Exists(a) => \A p \in Providers : link[a][p] = Nobody

AccountsInv == AccountsTypeOK /\ LinksHaveAccounts /\ AccountsDistinct

LEMMA InitAccounts == AccountsInit => AccountsInv
<1> SUFFICES ASSUME AccountsInit PROVE AccountsInv
  OBVIOUS
<1>1. AccountsTypeOK
  BY AccountsAssumption DEF AccountsInit, AccountsTypeOK, NoLinks
<1>2. \A a \in AccountIds, p \in Providers : link[a][p] = Nobody
  BY DEF AccountsInit, NoLinks
<1>3. AccountsDistinct
  BY <1>2, AccountsAssumption DEF AccountsInit, AccountsDistinct, Exists
<1> QED
  BY <1>1, <1>2, <1>3 DEF AccountsInv, LinksHaveAccounts

\* What one sign-in of i changes: it is given account a, which exists already
\* or begins to, and fills at most the empty column of a.
LEMMA SignInTouchesOne ==
  ASSUME AccountsInv, NEW i \in Identities, NEW e \in Emails, SignIn(i, e)
  PROVE  \E a \in AccountIds :
           /\ a \in Found(i, e) \/ (Found(i, e) = {} /\ ~Exists(a))
           /\ email' = IF a \in Found(i, e) THEN email ELSE [email EXCEPT ![a] = e]
           /\ latest' = [latest EXCEPT ![i] = a]
           /\ link' \in [AccountIds -> [Providers -> Identities \cup {Nobody}]]
           /\ \A b \in AccountIds, p \in Providers :
                \/ link'[b][p] = link[b][p]
                \/ b = a /\ p = Provider(i) /\ link[b][p] = Nobody /\ link'[b][p] = i
<1>1. PICK a \in AccountIds :
        /\ \/ a \in Found(i, e) /\ UNCHANGED email
           \/ /\ Found(i, e) = {} /\ ~Exists(a)
              /\ email' = [email EXCEPT ![a] = e]
        /\ Bind(i, a)
        /\ latest' = [latest EXCEPT ![i] = a]
  BY DEF SignIn
<1>2. email' = IF a \in Found(i, e) THEN email ELSE [email EXCEPT ![a] = e]
  BY <1>1
<1>3. link' \in [AccountIds -> [Providers -> Identities \cup {Nobody}]]
  BY <1>1 DEF AccountsInv, AccountsTypeOK, Bind
<1>4. \A b \in AccountIds, p \in Providers :
        \/ link'[b][p] = link[b][p]
        \/ b = a /\ p = Provider(i) /\ link[b][p] = Nobody /\ link'[b][p] = i
  BY <1>1 DEF AccountsInv, AccountsTypeOK, Bind
<1> QED
  BY <1>1, <1>2, <1>3, <1>4

LEMMA NextAccounts ==
  ASSUME AccountsInv, [AccountsNext]_accountVars
  PROVE  AccountsInv'
<1>1. CASE UNCHANGED accountVars
  BY <1>1 DEF AccountsInv, AccountsTypeOK, LinksHaveAccounts, AccountsDistinct, Exists, accountVars
<1>2. CASE AccountsNext
  <2>1. PICK i \in Identities, e \in Emails : SignIn(i, e)
    BY <1>2 DEF AccountsNext
  <2>2. PICK a \in AccountIds :
          /\ a \in Found(i, e) \/ (Found(i, e) = {} /\ ~Exists(a))
          /\ email' = IF a \in Found(i, e) THEN email ELSE [email EXCEPT ![a] = e]
          /\ latest' = [latest EXCEPT ![i] = a]
          /\ link' \in [AccountIds -> [Providers -> Identities \cup {Nobody}]]
          /\ \A b \in AccountIds, p \in Providers :
               \/ link'[b][p] = link[b][p]
               \/ b = a /\ p = Provider(i) /\ link[b][p] = Nobody /\ link'[b][p] = i
    BY <2>1, SignInTouchesOne
  <2>3. AccountsTypeOK'
    <3>1. email' \in [AccountIds -> Emails \cup {Nobody}]
      BY <2>2 DEF AccountsInv, AccountsTypeOK
    <3>2. latest' \in [Identities -> AccountIds \cup {Nobody}]
      BY <2>2 DEF AccountsInv, AccountsTypeOK
    <3> QED
      BY <2>2, <3>1, <3>2 DEF AccountsTypeOK
  <2>4. e # Nobody /\ i # Nobody
    BY AccountsAssumption DEF Identities
  <2>5. \A b \in AccountIds : email'[b] = email[b] \/ (b = a /\ ~Exists(b) /\ email'[b] = e)
    BY <2>2 DEF AccountsInv, AccountsTypeOK
  <2>6. Exists(a)'
    BY <2>2, <2>4, AccountsAssumption DEF AccountsInv, AccountsTypeOK, Exists, Found, Linked, WithEmail
  <2>7. LinksHaveAccounts'
    BY <2>2, <2>4, <2>5, <2>6 DEF AccountsInv, LinksHaveAccounts, Exists
  <2>8. Linked(i) = {} \/ a \in Linked(i)
    BY <2>2 DEF Found
  <2>9. \A b \in AccountIds : link[b][Provider(i)] = i => Linked(i) # {}
    BY <2>4 DEF Linked, AccountsInv, LinksHaveAccounts, Provider, Providers
  <2>10. ASSUME NEW b \in AccountIds, NEW c \in AccountIds, b # c,
                NEW p \in Providers, link'[b][p] # Nobody
         PROVE  link'[b][p] # link'[c][p]
    <3>1. link[b][p] # Nobody => link[b][p] # link[c][p]
      BY <2>10 DEF AccountsInv, AccountsDistinct
    <3>2. link[c][p] # Nobody => link[b][p] # link[c][p]
      BY <2>10 DEF AccountsInv, AccountsDistinct
    <3>3. link'[a][p] # link[a][p] => Linked(i) = {}
      BY <2>2, <2>4, <2>8 DEF Linked
    <3> QED
      BY <2>2, <2>4, <2>9, <2>10, <3>1, <3>2, <3>3
  <2>11. ASSUME NEW b \in AccountIds, NEW c \in AccountIds, b # c, Exists(b)'
         PROVE  email'[b] # email'[c]
    <3>1. ~(a \in Found(i, e)) => WithEmail(e) = {}
      BY <2>2 DEF Found
    <3>2. Exists(b) \/ Exists(c) => email[b] # email[c]
      BY <2>11 DEF AccountsInv, AccountsDistinct
    <3>3. CASE a \in Found(i, e)
      BY <3>2, <3>3, <2>2, <2>11 DEF Exists
    <3>4. CASE ~(a \in Found(i, e))
      <4>1. \A d \in AccountIds : email[d] # e
        BY <3>1, <3>4 DEF WithEmail
      <4> QED
        BY <4>1, <3>2, <2>5, <2>11 DEF Exists
    <3> QED
      BY <3>3, <3>4
  <2>12. AccountsDistinct'
    BY <2>10, <2>11 DEF AccountsDistinct
  <2> QED
    BY <2>3, <2>7, <2>12 DEF AccountsInv
<1> QED
  BY <1>1, <1>2

\* Every sign-in keeps the table of users in its type.
THEOREM AccountsAreTyped == AccountsSpec => []AccountsTypeOK
<1>1. AccountsInv => AccountsTypeOK
  BY DEF AccountsInv
<1> QED
  BY <1>1, InitAccounts, NextAccounts, PTL DEF AccountsSpec

\* No sign-in ever meets a unique constraint: accounts differ in their e-mails
\* and in the identities they are linked to.
THEOREM AccountsAreDistinct == AccountsSpec => []AccountsDistinct
<1>1. AccountsInv => AccountsDistinct
  BY DEF AccountsInv
<1> QED
  BY <1>1, InitAccounts, NextAccounts, PTL DEF AccountsSpec

LEMMA StepKeepsAccount ==
  ASSUME AccountsInv, AccountsInv', AccountsNext,
         NEW j \in Identities, Linked(j) # {}
  PROVE  /\ Linked(j)' = Linked(j)
         /\ latest'[j] # latest[j] => latest'[j] \in Linked(j)
<1>1. PICK i \in Identities, e \in Emails : SignIn(i, e)
  BY DEF AccountsNext
<1>2. PICK a \in AccountIds :
        /\ a \in Found(i, e) \/ (Found(i, e) = {} /\ ~Exists(a))
        /\ email' = IF a \in Found(i, e) THEN email ELSE [email EXCEPT ![a] = e]
        /\ latest' = [latest EXCEPT ![i] = a]
        /\ link' \in [AccountIds -> [Providers -> Identities \cup {Nobody}]]
        /\ \A b \in AccountIds, p \in Providers :
             \/ link'[b][p] = link[b][p]
             \/ b = a /\ p = Provider(i) /\ link[b][p] = Nobody /\ link'[b][p] = i
  BY <1>1, SignInTouchesOne
<1>3. Provider(j) \in Providers /\ j # Nobody
  BY AccountsAssumption DEF Provider, Providers, Identities
<1>4. \A b \in AccountIds : b \in Linked(j) <=> link[b][Provider(j)] = j
  BY <1>3 DEF Linked, AccountsInv, LinksHaveAccounts
<1>5. \A b \in AccountIds : b \in Linked(j)' <=> link'[b][Provider(j)] = j
  BY <1>3 DEF Linked, AccountsInv, LinksHaveAccounts
<1>6. i = j => a \in Linked(j)
  BY <1>2 DEF Found
<1>7. \A b \in AccountIds : link'[b][Provider(j)] = j <=> link[b][Provider(j)] = j
  BY <1>2, <1>3, <1>4, <1>6
<1>8. Linked(j)' = Linked(j)
  BY <1>4, <1>5, <1>7 DEF Linked
<1>9. latest'[j] # latest[j] => i = j /\ latest'[j] = a
  BY <1>2 DEF AccountsInv, AccountsTypeOK
<1> QED
  BY <1>6, <1>8, <1>9

\* The account that an identity was linked to is the one that all its later
\* sign-ins give.
THEOREM AccountsKeepsAccount == AccountsSpec => KeepsAccount
<1>1. AccountsInv /\ AccountsInv' /\ [AccountsNext]_accountVars
        => [\A i \in Identities : Linked(i) # {} =>
              /\ Linked(i)' = Linked(i)
              /\ latest'[i] # latest[i] => latest'[i] \in Linked(i)]_accountVars
  BY StepKeepsAccount DEF accountVars
<1> QED
  BY <1>1, InitAccounts, NextAccounts, PTL DEF AccountsSpec, KeepsAccount

-----------------------------------------------------------------------------
(* Preferences *)

\* A request that read a row will find one: rows are never deleted.
ReadRowStays == \A s \in Saves : save[s].pc = "read" /\ save[s].row # NoRow => prefs # NoRow

PreferencesInv == PreferencesTypeOK /\ ReadRowStays

LEMMA InitPreferences == PreferencesInit => PreferencesInv
BY DEF PreferencesInit, PreferencesInv, PreferencesTypeOK, SaveStates, ReadRowStays, Idle

LEMMA NoRowIsNoRow == NoRow \notin Rows /\ Defaults \in Rows
BY DEF NoRow, Defaults, Rows, Policies, Themes, Unset

LEMMA ReadingHas ==
  ASSUME PreferencesTypeOK, NEW s \in Saves, save[s].pc = "read"
  PROVE  save[s].row \in Rows \cup {NoRow} /\ save[s].change \in Changes
BY DEF PreferencesTypeOK, SaveStates, Idle

\* What a request makes of an allowed row is allowed.
LEMMA AppliedIsRow ==
  ASSUME NEW row \in Rows, NEW change \in Changes
  PROVE  /\ Apply(row, change) \in Rows
         /\ \A f \in Fields : Apply(row, change)[f] \in {row[f], change[f]}
<1>1. change.policy \in Policies \cup {Unset} /\ change.theme \in Themes \cup {Unset}
  BY DEF Changes
<1>2. row.policy \in Policies /\ row.theme \in Themes \cup {Unset}
  BY DEF Rows
<1>3. Apply(row, change) \in [Fields -> Policies \cup Themes \cup {Unset}]
  BY <1>1, <1>2 DEF Apply, Fields
<1>4. Apply(row, change) = [policy |-> Apply(row, change).policy, theme |-> Apply(row, change).theme]
  BY <1>3 DEF Fields
<1> QED
  BY <1>1, <1>2, <1>4 DEF Rows, Fields, Apply

LEMMA WrittenIsRow ==
  ASSUME PreferencesTypeOK, prefs \in Rows, NEW s \in Saves,
         save[s].pc = "read", save[s].row \in Rows, save[s].change \in Changes
  PROVE  /\ Written(s) \in Rows
         /\ \A f \in Fields : Written(s)[f] = prefs[f] \/ Written(s)[f] = save[s].change[f]
<1>1. \A f \in Fields : f \in Dirty(save[s].row, save[s].change) => save[s].change[f] # Unset
  BY DEF Dirty, Apply
<1>2. /\ save[s].change.policy \in Policies \cup {Unset}
      /\ save[s].change.theme \in Themes \cup {Unset}
  BY DEF Changes
<1>3. prefs.policy \in Policies /\ prefs.theme \in Themes \cup {Unset}
  BY DEF Rows
<1>4. Written(s) \in [Fields -> Policies \cup Themes \cup {Unset}]
  BY <1>2, <1>3 DEF Written, Fields
<1>5. Written(s) = [policy |-> Written(s).policy, theme |-> Written(s).theme]
  BY <1>4 DEF Fields
<1>6. \A f \in Fields : Written(s)[f] = IF f \in Dirty(save[s].row, save[s].change)
                                        THEN save[s].change[f] ELSE prefs[f]
  BY DEF Written
<1>7. Written(s).policy \in Policies /\ Written(s).theme \in Themes \cup {Unset}
  BY <1>1, <1>2, <1>3, <1>6 DEF Fields
<1> QED
  BY <1>5, <1>6, <1>7 DEF Rows

\* A reset theme leaves a row where there was one, and none where there was none.
LEMMA ResetIsRow ==
  ASSUME prefs \in Rows \cup {NoRow}
  PROVE  /\ ResetTheme \in Rows \cup {NoRow}
         /\ ResetTheme = NoRow <=> prefs = NoRow
         /\ ResetTheme.policy = prefs.policy
         /\ ResetTheme.theme = IF prefs.theme = "dark" THEN Unset ELSE prefs.theme
<1>1. CASE prefs = NoRow
  BY <1>1 DEF ResetTheme, NoRow, Unset
<1>2. CASE prefs \in Rows
  <2>1. PICK p \in Policies, t \in Themes \cup {Unset} : prefs = [policy |-> p, theme |-> t]
    BY <1>2 DEF Rows
  <2>2. ResetTheme = [policy |-> p, theme |-> IF t = "dark" THEN Unset ELSE t]
    BY <2>1 DEF ResetTheme
  <2>3. ResetTheme \in Rows
    BY <2>2 DEF Rows
  <2> QED
    BY <2>1, <2>2, <2>3, <1>2, NoRowIsNoRow
<1> QED
  BY <1>1, <1>2

\* What one step does to the row, action by action.
LEMMA PreferencesSteps ==
  ASSUME PreferencesInv, PreferencesNext
  PROVE  \/ /\ prefs' = prefs
            /\ \E s \in Saves, change \in Changes :
                 save' = [save EXCEPT ![s] = [pc |-> "read", row |-> prefs, change |-> change]]
         \/ \E s \in Saves :
              /\ save[s].pc = "read"
              /\ save' = [save EXCEPT ![s] = Idle]
              /\ prefs' \in Rows
              /\ prefs = NoRow => prefs' = Apply(Defaults, save[s].change)
              /\ prefs # NoRow => \A f \in Fields :
                                    prefs'[f] = prefs[f] \/ prefs'[f] = save[s].change[f]
         \/ prefs' = ResetTheme /\ save' = [s \in Saves |-> Idle]
<1>1. ASSUME NEW s \in Saves, NEW change \in Changes, ReadRow(s, change)
      PROVE  /\ prefs' = prefs
             /\ save' = [save EXCEPT ![s] = [pc |-> "read", row |-> prefs, change |-> change]]
  BY <1>1 DEF ReadRow
<1>2. ASSUME NEW s \in Saves, InsertRow(s)
      PROVE  /\ save[s].pc = "read"
             /\ save' = [save EXCEPT ![s] = Idle]
             /\ prefs' \in Rows
             /\ prefs = NoRow => prefs' = Apply(Defaults, save[s].change)
             /\ prefs # NoRow => prefs' = prefs
  <2>1. save[s].change \in Changes
    BY <1>2, ReadingHas DEF InsertRow, PreferencesInv
  <2>2. Apply(Defaults, save[s].change) \in Rows
    BY <2>1, AppliedIsRow, NoRowIsNoRow
  <2> QED
    BY <1>2, <2>2 DEF InsertRow, PreferencesInv, PreferencesTypeOK
<1>3. ASSUME NEW s \in Saves, UpdateRow(s)
      PROVE  /\ save[s].pc = "read"
             /\ save' = [save EXCEPT ![s] = Idle]
             /\ prefs' \in Rows /\ prefs # NoRow
             /\ \A f \in Fields : prefs'[f] = prefs[f] \/ prefs'[f] = save[s].change[f]
  <2>1. save[s].row \in Rows /\ save[s].change \in Changes
    BY <1>3, ReadingHas DEF UpdateRow, PreferencesInv
  <2>2. prefs # NoRow /\ prefs \in Rows
    BY <1>3 DEF UpdateRow, PreferencesInv, PreferencesTypeOK, ReadRowStays
  <2> QED
    BY <1>3, <2>1, <2>2, WrittenIsRow DEF UpdateRow, PreferencesInv
<1>4. ASSUME Migrate
      PROVE  prefs' = ResetTheme /\ save' = [s \in Saves |-> Idle]
  BY <1>4 DEF Migrate
<1> QED
  BY <1>1, <1>2, <1>3, <1>4 DEF PreferencesNext

LEMMA NextPreferences ==
  ASSUME PreferencesInv, [PreferencesNext]_prefVars
  PROVE  PreferencesInv'
<1>1. prefs \in Rows \cup {NoRow} /\ save \in [Saves -> SaveStates]
  BY DEF PreferencesInv, PreferencesTypeOK
<1>2. Idle \in SaveStates /\ Idle.pc # "read"
  BY DEF SaveStates, Idle
<1>3. CASE UNCHANGED prefVars
  BY <1>3 DEF PreferencesInv, PreferencesTypeOK, ReadRowStays, prefVars
<1>4. ASSUME prefs' = prefs, NEW s \in Saves, NEW change \in Changes,
             save' = [save EXCEPT ![s] = [pc |-> "read", row |-> prefs, change |-> change]]
      PROVE  PreferencesInv'
  <2>1. [pc |-> "read", row |-> prefs, change |-> change] \in SaveStates
    BY <1>1 DEF SaveStates
  <2>2. save' \in [Saves -> SaveStates]
    BY <1>1, <1>4, <2>1
  <2>3. \A t \in Saves : save'[t] = IF t = s THEN [pc |-> "read", row |-> prefs, change |-> change]
                                            ELSE save[t]
    BY <1>1, <1>4
  <2>4. ReadRowStays'
    BY <1>4, <2>3 DEF ReadRowStays, PreferencesInv
  <2> QED
    BY <1>1, <1>4, <2>2, <2>4 DEF PreferencesInv, PreferencesTypeOK
<1>5. ASSUME NEW s \in Saves, save' = [save EXCEPT ![s] = Idle], prefs' \in Rows
      PROVE  PreferencesInv'
  BY <1>1, <1>2, <1>5, NoRowIsNoRow DEF PreferencesInv, PreferencesTypeOK, ReadRowStays
<1>6. ASSUME prefs' = ResetTheme, save' = [s \in Saves |-> Idle]
      PROVE  PreferencesInv'
  BY <1>1, <1>2, <1>6, ResetIsRow DEF PreferencesInv, PreferencesTypeOK, ReadRowStays
<1> QED
  BY <1>3, <1>4, <1>5, <1>6, PreferencesSteps

\* Every request and every start keeps the row of preferences in its type.
THEOREM PreferencesAreTyped == PreferencesSpec => []PreferencesTypeOK
<1>1. PreferencesInv => PreferencesTypeOK
  BY DEF PreferencesInv
<1> QED
  BY <1>1, InitPreferences, NextPreferences, PTL DEF PreferencesSpec

LEMMA StepKeepsFields ==
  ASSUME PreferencesInv, PreferencesNext,
         NEW f \in Fields, Shown'[f] # Shown[f]
  PROVE  \/ \E s \in Saves : save[s].pc = "read" /\ save'[s] = Idle
                             /\ save[s].change[f] = Shown'[f]
         \/ f = "theme" /\ Shown.theme = "dark" /\ Shown'.theme = Unset
<1>1. prefs \in Rows \cup {NoRow} /\ save \in [Saves -> SaveStates]
  BY DEF PreferencesInv, PreferencesTypeOK
<1>2. prefs' # prefs
  BY DEF Shown
<1>3. ASSUME NEW s \in Saves, save[s].pc = "read",
             save' = [save EXCEPT ![s] = Idle],
             prefs' \in Rows,
             prefs = NoRow => prefs' = Apply(Defaults, save[s].change),
             prefs # NoRow => \A g \in Fields :
                                prefs'[g] = prefs[g] \/ prefs'[g] = save[s].change[g]
      PROVE  save'[s] = Idle /\ save[s].change[f] = Shown'[f]
  <2>1. Shown' = prefs'
    BY <1>3, NoRowIsNoRow DEF Shown
  <2>2. save'[s] = Idle
    BY <1>1, <1>3
  <2>3. CASE prefs = NoRow
    <3>1. Shown = Defaults
      BY <2>3 DEF Shown
    <3>2. save[s].change \in Changes
      BY <1>3, ReadingHas DEF PreferencesInv
    <3>3. Apply(Defaults, save[s].change)[f] \in {Defaults[f], save[s].change[f]}
      BY <3>2, AppliedIsRow, NoRowIsNoRow
    <3> QED
      BY <1>3, <2>1, <2>2, <2>3, <3>1, <3>3
  <2>4. CASE prefs # NoRow
    BY <1>3, <2>1, <2>2, <2>4 DEF Shown
  <2> QED
    BY <2>3, <2>4
<1>4. ASSUME prefs' = ResetTheme
      PROVE  f = "theme" /\ Shown.theme = "dark" /\ Shown'.theme = Unset
  <2>1. prefs # NoRow /\ prefs' # NoRow
    BY <1>1, <1>2, <1>4, ResetIsRow
  <2>2. Shown = prefs /\ Shown' = prefs'
    BY <2>1 DEF Shown
  <2> QED
    BY <1>1, <1>4, <2>2, ResetIsRow DEF Fields
<1> QED
  BY <1>2, <1>3, <1>4, PreferencesSteps

\* Two requests for different fields never disturb each other, and nothing but
\* a request or the reset at a start changes what is shown.
THEOREM PreferencesFieldsIndependent == PreferencesSpec => FieldsIndependent
<1>1. PreferencesInv /\ [PreferencesNext]_prefVars
        => [\A f \in Fields : Shown'[f] # Shown[f] =>
              \/ \E s \in Saves : save[s].pc = "read" /\ save'[s] = Idle
                                  /\ save[s].change[f] = Shown'[f]
              \/ f = "theme" /\ Shown.theme = "dark" /\ Shown'.theme = Unset]_prefVars
  BY StepKeepsFields DEF prefVars
<1> QED
  BY <1>1, InitPreferences, NextPreferences, PTL DEF PreferencesSpec, FieldsIndependent

-----------------------------------------------------------------------------
(* Sessions *)

\* A session that stands for one principal.
Consistent(s) == s \in Session /\ (s.is_owner <=> s.admin_id = OWNER)

\* The inductive invariant: whatever a request carries or answers with, and
\* what the browser holds, is consistent.
SessionsInv ==
  /\ admins \in [AdminIds -> {"free", "live", "deleted"}]
  /\ Consistent(cookie)
  /\ flight \in [Tabs -> FlightStates]
  /\ \A t \in Tabs : flight[t] # NoRequest => Consistent(flight[t].session)

LEMMA InitSessions == SessionsInit => SessionsInv
BY SessionsAssumption
   DEF SessionsInit, SessionsInv, Consistent, Session, Empty, FlightStates, NoRequest, OWNER, Absent

\* The handlers change a consistent session into a consistent one.
LEMMA HandlersKeepConsistent ==
  ASSUME NEW s, Consistent(s)
  PROVE  /\ \A state \in States : Consistent([s EXCEPT !.yandex_oauth_state = state])
         /\ Consistent([s EXCEPT !.yandex_oauth_state = Absent])
         /\ Consistent([s EXCEPT !.user_id = User])
         /\ Consistent([s EXCEPT !.owner_theme = "dark"])
         /\ Consistent([s EXCEPT !.admin_id = Absent, !.is_owner = FALSE])
         /\ Consistent(WithOwner(s))
         /\ \A a \in AdminIds : Consistent(WithAdmin(s, a))
         /\ Consistent(Empty)
         /\ Consistent(CurrentAdmin(s))
<1>1. PICK u \in {User, Absent}, a \in Principals \cup {Absent}, o \in BOOLEAN,
           th \in {"dark", Absent}, y \in States \cup {Absent} :
        s = [user_id |-> u, admin_id |-> a, is_owner |-> o, owner_theme |-> th,
             yandex_oauth_state |-> y]
  BY DEF Consistent, Session
<1>2. o <=> a = OWNER
  BY <1>1 DEF Consistent
<1>3. ASSUME NEW u2 \in {User, Absent}, NEW a2 \in Principals \cup {Absent}, NEW o2 \in BOOLEAN,
             NEW t2 \in {"dark", Absent}, NEW y2 \in States \cup {Absent}, o2 <=> a2 = OWNER
      PROVE  Consistent([user_id |-> u2, admin_id |-> a2, is_owner |-> o2, owner_theme |-> t2,
                         yandex_oauth_state |-> y2])
  BY <1>3 DEF Consistent, Session
<1>4. \A state \in States \cup {Absent} : Consistent([s EXCEPT !.yandex_oauth_state = state])
  <2> SUFFICES ASSUME NEW state \in States \cup {Absent}
               PROVE  Consistent([s EXCEPT !.yandex_oauth_state = state])
    OBVIOUS
  <2>1. [s EXCEPT !.yandex_oauth_state = state]
          = [user_id |-> u, admin_id |-> a, is_owner |-> o, owner_theme |-> th,
             yandex_oauth_state |-> state]
    BY <1>1
  <2> QED
    BY <1>2, <1>3, <2>1
<1>5. Consistent([s EXCEPT !.user_id = User])
  <2>1. [s EXCEPT !.user_id = User]
          = [user_id |-> User, admin_id |-> a, is_owner |-> o, owner_theme |-> th,
             yandex_oauth_state |-> y]
    BY <1>1
  <2> QED
    BY <1>2, <1>3, <2>1
<1>6. Consistent([s EXCEPT !.owner_theme = "dark"])
  <2>1. [s EXCEPT !.owner_theme = "dark"]
          = [user_id |-> u, admin_id |-> a, is_owner |-> o, owner_theme |-> "dark",
             yandex_oauth_state |-> y]
    BY <1>1
  <2> QED
    BY <1>2, <1>3, <2>1
<1>7. Consistent([s EXCEPT !.admin_id = Absent, !.is_owner = FALSE])
  <2> DEFINE r == [s EXCEPT !.admin_id = Absent, !.is_owner = FALSE]
  <2>1. r \in Session
    BY DEF Consistent, Session
  <2>2. r.admin_id = Absent /\ ~r.is_owner
    BY DEF Consistent, Session
  <2> HIDE DEF r
  <2>3. Absent # OWNER
    BY DEF OWNER, Absent
  <2> QED
    BY <2>1, <2>2, <2>3 DEF Consistent, r
<1>8. Consistent(WithOwner(s))
  <2>1. WithOwner(s) \in Session
    BY DEF Consistent, Session, WithOwner, Principals
  <2>2. WithOwner(s).admin_id = OWNER /\ WithOwner(s).is_owner
    BY DEF Consistent, Session, WithOwner
  <2> QED
    BY <2>1, <2>2 DEF Consistent
<1>9. \A b \in AdminIds : Consistent(WithAdmin(s, b))
  <2> SUFFICES ASSUME NEW b \in AdminIds PROVE Consistent(WithAdmin(s, b))
    OBVIOUS
  <2>1. WithAdmin(s, b) \in Session
    BY DEF Consistent, Session, WithAdmin, Principals
  <2>2. WithAdmin(s, b).admin_id = b /\ ~WithAdmin(s, b).is_owner
    BY DEF Consistent, Session, WithAdmin
  <2>3. b # OWNER
    BY SessionsAssumption
  <2> QED
    BY <2>1, <2>2, <2>3 DEF Consistent
<1>10. Consistent(Empty)
  BY <1>3 DEF Empty, OWNER, Absent
<1>11. Consistent(CurrentAdmin(s))
  <2>1. CASE ~Stale(s)
    BY <2>1 DEF CurrentAdmin
  <2>2. CASE Stale(s)
    <3>1. ~o
      <4>1. s.admin_id = a /\ s.is_owner = o
        BY <1>1
      <4>2. a = OWNER => o
        BY <1>2
      <4>3. a # OWNER
        BY <2>2, <4>1, <4>2, SessionsAssumption DEF Stale
      <4> QED
        BY <1>2, <4>3
    <3>2. CurrentAdmin(s)
            = [user_id |-> u, admin_id |-> Absent, is_owner |-> o, owner_theme |-> th,
               yandex_oauth_state |-> y]
      BY <1>1, <2>2 DEF CurrentAdmin
    <3> QED
      BY <1>3, <3>1, <3>2 DEF OWNER, Absent
  <2> QED
    BY <2>1, <2>2
<1> QED
  BY <1>4, <1>5, <1>6, <1>7, <1>8, <1>9, <1>10, <1>11

LEMMA NoRequestIsNone ==
  ASSUME NEW s \in Session
  PROVE  /\ Sent(s) \in FlightStates /\ Sent(s).session = s
         /\ Answered(s) \in FlightStates /\ Answered(s).session = s
         /\ NoRequest \in FlightStates
BY DEF Sent, Answered, FlightStates, NoRequest

\* The state of one request changes, to a consistent session or to none.
LEMMA FlightKeeps ==
  ASSUME SessionsInv, NEW t \in Tabs, NEW f \in FlightStates,
         f # NoRequest => Consistent(f.session),
         flight' = [flight EXCEPT ![t] = f],
         Consistent(cookie'),
         admins' \in [AdminIds -> {"free", "live", "deleted"}]
  PROVE  SessionsInv'
<1>1. flight' \in [Tabs -> FlightStates]
  BY DEF SessionsInv
<1>2. \A u \in Tabs : flight'[u] = IF u = t THEN f ELSE flight[u]
  BY DEF SessionsInv
<1>3. \A u \in Tabs : flight'[u] # NoRequest => Consistent(flight'[u].session)
  BY <1>2 DEF SessionsInv
<1> QED
  BY <1>1, <1>3 DEF SessionsInv, Consistent

LEMMA AnswerKeeps ==
  ASSUME SessionsInv, NEW t \in Tabs, NEW s, Consistent(s), Answer(t, s),
         admins' \in [AdminIds -> {"free", "live", "deleted"}]
  PROVE  SessionsInv'
<1> DEFINE f == IF s = Empty /\ Carried(t) = Empty THEN NoRequest ELSE Answered(s)
<1>1. f \in FlightStates /\ (f # NoRequest => Consistent(f.session))
  BY NoRequestIsNone DEF Consistent
<1>2. flight' = [flight EXCEPT ![t] = f] /\ cookie' = cookie
  BY DEF Answer
<1>3. Consistent(cookie')
  BY <1>2 DEF SessionsInv
<1> HIDE DEF f
<1> QED
  BY <1>1, <1>2, <1>3, FlightKeeps

LEMMA HandleKeeps ==
  ASSUME SessionsInv, NEW t \in Tabs, Handle(t)
  PROVE  SessionsInv'
<1> DEFINE s == Carried(t)
<1>1. flight[t].pc = "sent"
  BY DEF Handle
<1>2. Consistent(s)
  BY <1>1 DEF SessionsInv, NoRequest, Carried
<1> HIDE DEF s
<1>3. UNCHANGED admins => admins' \in [AdminIds -> {"free", "live", "deleted"}]
  BY DEF SessionsInv
<1>4. CASE YandexLogin(t)
  BY <1>2, <1>3, <1>4, HandlersKeepConsistent, AnswerKeeps DEF YandexLogin, s
<1>5. CASE YandexCallback(t)
  <2>1. PICK state \in States :
          \/ Answer(t, [s EXCEPT !.yandex_oauth_state = Absent])
          \/ Answer(t, [[s EXCEPT !.yandex_oauth_state = Absent] EXCEPT !.user_id = User])
    BY <1>5 DEF YandexCallback, s
  <2>2. Consistent([s EXCEPT !.yandex_oauth_state = Absent])
    BY <1>2, HandlersKeepConsistent
  <2>3. Consistent([[s EXCEPT !.yandex_oauth_state = Absent] EXCEPT !.user_id = User])
    BY <2>2, HandlersKeepConsistent
  <2>4. UNCHANGED admins
    BY <1>5 DEF YandexCallback
  <2> QED
    BY <1>3, <2>1, <2>2, <2>3, <2>4, AnswerKeeps
<1>6. CASE GoogleCallback(t)
  BY <1>2, <1>3, <1>6, HandlersKeepConsistent, AnswerKeeps DEF GoogleCallback, s
<1>7. CASE Logout(t)
  BY <1>2, <1>3, <1>7, HandlersKeepConsistent, AnswerKeeps DEF Logout
<1>8. CASE LoginAsOwner(t)
  BY <1>2, <1>3, <1>8, HandlersKeepConsistent, AnswerKeeps DEF LoginAsOwner, s
<1>9. CASE LoginAsAdmin(t)
  BY <1>2, <1>3, <1>9, HandlersKeepConsistent, AnswerKeeps DEF LoginAsAdmin, s
<1>10. CASE AdminLogout(t)
  BY <1>2, <1>3, <1>10, HandlersKeepConsistent, AnswerKeeps DEF AdminLogout, s
<1>11. CASE AdminRequest(t)
  BY <1>2, <1>3, <1>11, HandlersKeepConsistent, AnswerKeeps DEF AdminRequest, s
<1>12. CASE PutTheme(t)
  BY <1>2, <1>3, <1>12, HandlersKeepConsistent, AnswerKeeps DEF PutTheme, s
<1>13. CASE UserRequest(t)
  BY <1>2, <1>3, <1>13, AnswerKeeps DEF UserRequest, s
<1>14. CASE CreateAdmin(t)
  <2>1. admins' \in [AdminIds -> {"free", "live", "deleted"}]
    BY <1>14 DEF CreateAdmin, NewAdmin, SessionsInv
  <2> QED
    BY <1>2, <1>14, <2>1, AnswerKeeps DEF CreateAdmin, s
<1>15. CASE DeleteAdmin(t)
  <2>1. admins' \in [AdminIds -> {"free", "live", "deleted"}]
    BY <1>15 DEF DeleteAdmin, RemovedAdmin, SessionsInv
  <2> QED
    BY <1>2, <1>15, <2>1, AnswerKeeps DEF DeleteAdmin, s
<1> QED
  BY <1>4, <1>5, <1>6, <1>7, <1>8, <1>9, <1>10, <1>11, <1>12, <1>13, <1>14, <1>15 DEF Handle

LEMMA NextSessions ==
  ASSUME SessionsInv, [SessionsNext]_sessionVars
  PROVE  SessionsInv'
<1>1. CASE UNCHANGED sessionVars
  BY <1>1 DEF SessionsInv, Consistent, sessionVars
<1>2. ASSUME NEW t \in Tabs, Send(t) PROVE SessionsInv'
  <2>1. Sent(cookie) \in FlightStates /\ Consistent(Sent(cookie).session)
    BY NoRequestIsNone DEF SessionsInv, Consistent
  <2>2. Consistent(cookie') /\ admins' \in [AdminIds -> {"free", "live", "deleted"}]
    BY <1>2 DEF Send, SessionsInv
  <2> QED
    BY <1>2, <2>1, <2>2, FlightKeeps DEF Send
<1>3. ASSUME NEW t \in Tabs, Receive(t) PROVE SessionsInv'
  <2>1. NoRequest \in FlightStates
    BY DEF FlightStates
  <2>2. Consistent(cookie')
    BY <1>3 DEF Receive, SessionsInv, NoRequest
  <2>3. admins' \in [AdminIds -> {"free", "live", "deleted"}]
    BY <1>3 DEF Receive, SessionsInv
  <2> QED
    BY <1>3, <2>1, <2>2, <2>3, FlightKeeps DEF Receive
<1>4. CASE Restart
  <2>1. flight' \in [Tabs -> FlightStates] /\ \A t \in Tabs : flight'[t] = NoRequest
    BY <1>4 DEF Restart, FlightStates
  <2>2. admins' \in [AdminIds -> {"free", "live", "deleted"}]
    BY <1>4 DEF Restart, SessionsInv
  <2>3. Consistent(cookie')
    BY <1>4 DEF Restart, SessionsInv
  <2> QED
    BY <2>1, <2>2, <2>3 DEF SessionsInv, Consistent
<1> QED
  BY <1>1, <1>2, <1>3, <1>4, HandleKeeps DEF SessionsNext

\* Every request, response and restart keeps sessions and admins in their types.
THEOREM SessionsAreTyped == SessionsSpec => []SessionsTypeOK
<1>1. SessionsInv => SessionsTypeOK
  BY DEF SessionsInv, SessionsTypeOK, Consistent
<1> QED
  BY <1>1, InitSessions, NextSessions, PTL DEF SessionsSpec

\* However responses overtake one another, a session that says it is the
\* owner's stands for the owner, and for nobody else.
THEOREM SessionsAreOfOnePrincipal == SessionsSpec => []SessionIsOnePrincipal
<1>1. SessionsInv => SessionIsOnePrincipal
  BY DEF SessionsInv, SessionIsOnePrincipal, Consistent, Sessions, Carried
<1> QED
  BY <1>1, InitSessions, NextSessions, PTL DEF SessionsSpec
=============================================================================
