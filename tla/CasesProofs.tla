---------------------------- MODULE CasesProofs -----------------------------
(* Proofs about the rows of a case: Quota, for any limits and any number of *)
(* requests, and Versions, for any number of saves under way at once.       *)
EXTENDS Quota, Versions, FiniteSetTheorems, TLAPS

-----------------------------------------------------------------------------
(* The quota of a month                                                    *)

\* A request that is held to a limit has passed it: the limit is a number above
\* nought.
AdmittedHasRoom == \A r \in Admitted : request[r].limit \in Numbers /\ request[r].limit > 0

\* The inductive invariant: the cases that were held to a limit are among the
\* cases of the month, which is what every request counts.
QuotaInv == QuotaTypeOK /\ metered <= cases /\ AdmittedHasRoom /\ QuotaOvershootBounded

LEMMA NumbersAreNaturals == Numbers \subseteq Nat /\ NoLimit \notin Numbers /\ NoPlan \notin EffectiveLimits
BY QuotaAssumption DEF Numbers, EffectiveLimits

LEMMA AdmittedIsFinite ==
  /\ IsFiniteSet(Admitted) /\ Cardinality(Admitted) \in Nat
  /\ Cardinality(Requests) \in Nat /\ Cardinality(Requests) > 0
  /\ Cardinality(Admitted) <= Cardinality(Requests)
<1>1. Admitted \subseteq Requests
  BY DEF Admitted
<1>2. Cardinality(Requests) \in Nat /\ Cardinality(Requests) # 0
  BY QuotaAssumption, FS_CardinalityType, FS_EmptySet
<1> QED
  BY <1>1, <1>2, QuotaAssumption, FS_Subset, FS_CardinalityType

LEMMA InitQuota == QuotaInit => QuotaInv
<1> SUFFICES ASSUME QuotaInit PROVE QuotaInv
  OBVIOUS
<1>1. QuotaTypeOK
  BY DEF QuotaInit, QuotaTypeOK, RequestStates, PlanCodes
<1>2. Admitted = {}
  BY DEF QuotaInit, Admitted, Waiting
<1>3. Cardinality(Admitted) = 0
  BY <1>2, FS_EmptySet
<1>4. QuotaOvershootBounded
  BY <1>3, AdmittedIsFinite, NumbersAreNaturals DEF QuotaInit, QuotaOvershootBounded
<1> QED
  BY <1>1, <1>2, <1>4 DEF QuotaInv, QuotaInit, AdmittedHasRoom

LEMMA StatesOfRequest ==
  /\ Waiting \in RequestStates /\ Waiting.pc = "waiting"
  /\ \A c \in PlanCodes : [pc |-> "plan", code |-> c] \in RequestStates
  /\ \A l \in EffectiveLimits :
       /\ [pc |-> "counting", limit |-> l] \in RequestStates
       /\ Passed(l) \in RequestStates /\ Passed(l).pc = "passed" /\ Passed(l).limit = l
BY DEF Waiting, Passed, RequestStates

LEMMA LimitsOfRequest ==
  ASSUME QuotaTypeOK, NEW r \in Requests
  PROVE  /\ request[r].pc = "plan" => request[r].code \in PlanCodes
         /\ request[r].pc \in {"counting", "passed"} => request[r].limit \in EffectiveLimits
BY DEF QuotaTypeOK, RequestStates, Waiting

LEMMA EffectiveLimitTyped ==
  ASSUME QuotaTypeOK, NEW c \in PlanCodes
  PROVE  EffectiveLimit(c) \in EffectiveLimits
BY DEF QuotaTypeOK, EffectiveLimit, EffectiveLimits, Numbers, PlanLimits

-----------------------------------------------------------------------------
(* The steps *)

\* A request that neither begins nor ceases to be admitted changes nothing
\* that the bound is about.
LEMMA RequestKeeps ==
  ASSUME QuotaInv, NEW r \in Requests, r \notin Admitted,
         request' \in [Requests -> RequestStates],
         \A q \in Requests : q # r => request'[q] = request[q],
         ~(request'[r].pc = "passed" /\ request'[r].limit # NoLimit),
         UNCHANGED <<limitOf, subscribed>>,
         cases' \in Nat, cases' >= cases, metered' = metered
  PROVE  QuotaInv'
<1>2. Admitted' = Admitted
  BY DEF Admitted
<1>3. QuotaTypeOK'
  BY DEF QuotaInv, QuotaTypeOK
<1>4. AdmittedHasRoom'
  <2>1. \A q \in Admitted : request'[q] = request[q]
    BY DEF Admitted
  <2> QED
    BY <1>2, <2>1 DEF QuotaInv, AdmittedHasRoom
<1>5. QuotaOvershootBounded'
  BY <1>2 DEF QuotaInv, QuotaOvershootBounded
<1> QED
  BY <1>3, <1>4, <1>5 DEF QuotaInv, QuotaTypeOK

LEMMA CountKeeps ==
  ASSUME QuotaInv, NEW r \in Requests, CountCases(r)
  PROVE  QuotaInv'
<1> DEFINE l == request[r].limit
<1>1. request[r].pc = "counting" /\ l \in EffectiveLimits /\ r \notin Admitted
  BY LimitsOfRequest DEF CountCases, QuotaInv, Admitted
<1>2. CASE Exceeded(cases, l) \/ l = NoLimit
  <2>1. PICK state \in {Waiting, Passed(NoLimit)} : request' = [request EXCEPT ![r] = state]
    BY <1>2 DEF CountCases
  <2>2. state \in RequestStates /\ ~(state.pc = "passed" /\ state.limit # NoLimit)
    BY <2>1, StatesOfRequest DEF EffectiveLimits
  <2>3. UNCHANGED <<limitOf, subscribed, cases, metered>> /\ cases \in Nat
    BY DEF CountCases, QuotaInv, QuotaTypeOK
  <2>4. /\ request' \in [Requests -> RequestStates] /\ request'[r] = state
        /\ \A q \in Requests : q # r => request'[q] = request[q]
    BY <2>1, <2>2 DEF QuotaInv, QuotaTypeOK
  <2> QED
    BY <1>1, <2>2, <2>3, <2>4, RequestKeeps
<1>3. CASE ~Exceeded(cases, l) /\ l # NoLimit
  <2>1. l \in Numbers /\ l \in Nat /\ cases \in Nat /\ cases < l
    <3>1. l \in Numbers
      BY <1>1, <1>3 DEF EffectiveLimits
    <3>2. l \in Nat /\ cases \in Nat
      BY <3>1, NumbersAreNaturals DEF QuotaInv, QuotaTypeOK
    <3>3. ~(cases >= l)
      BY <1>3 DEF Exceeded
    <3> QED
      BY <3>1, <3>2, <3>3
  <2>2. request' = [request EXCEPT ![r] = Passed(l)]
    BY <1>3 DEF CountCases
  <2>3. \A q \in Requests : request'[q] = IF q = r THEN Passed(l) ELSE request[q]
    BY <2>2 DEF QuotaInv, QuotaTypeOK
  <2>4. Admitted' = Admitted \cup {r}
    BY <1>3, <2>3 DEF Admitted, Passed
  <2>5. QuotaTypeOK'
    BY <1>1, <2>2, StatesOfRequest DEF CountCases, QuotaInv, QuotaTypeOK
  <2>6. AdmittedHasRoom'
    <3>1. request'[r].limit \in Numbers /\ request'[r].limit > 0
      BY <2>1, <2>3 DEF Passed
    <3>2. \A q \in Admitted : q # r /\ request'[q] = request[q]
      BY <1>1, <2>3 DEF Admitted
    <3> QED
      BY <2>4, <3>1, <3>2 DEF QuotaInv, AdmittedHasRoom
  <2>7. Cardinality(Admitted') <= Cardinality(Requests) /\ Cardinality(Admitted') \in Nat
    <3>1. Admitted' \subseteq Requests
      BY DEF Admitted
    <3> QED
      BY <3>1, QuotaAssumption, FS_Subset, FS_CardinalityType
  <2>8. QuotaOvershootBounded'
    <3> SUFFICES ASSUME NEW highest \in Numbers, \A k \in Numbers : k <= highest
                 PROVE  metered' + Cardinality(Admitted') < highest + Cardinality(Requests)
      BY DEF QuotaOvershootBounded
    <3>1. l <= highest /\ highest \in Nat
      BY <2>1, NumbersAreNaturals
    <3>2. metered' \in Nat /\ metered' <= cases
      BY DEF CountCases, QuotaInv, QuotaTypeOK
    <3> QED
      BY <2>1, <2>7, <3>1, <3>2, AdmittedIsFinite
  <2> QED
    BY <2>5, <2>6, <2>8 DEF QuotaInv, CountCases
<1> QED
  BY <1>2, <1>3

LEMMA CreateKeeps ==
  ASSUME QuotaInv, NEW r \in Requests, CreateCase(r)
  PROVE  QuotaInv'
<1>1. request[r].pc = "passed" /\ request' = [request EXCEPT ![r] = Waiting]
  BY DEF CreateCase
<1>2. cases \in Nat /\ metered \in Nat /\ cases' = cases + 1
  BY DEF CreateCase, QuotaInv, QuotaTypeOK
<1>3. CASE request[r].limit = NoLimit
  <2>1. r \notin Admitted /\ Waiting \in RequestStates /\ Waiting.pc # "passed"
    BY <1>3, StatesOfRequest DEF Admitted
  <2>2. UNCHANGED <<limitOf, subscribed, metered>>
    BY <1>3 DEF CreateCase
  <2>3. /\ request' \in [Requests -> RequestStates] /\ request'[r] = Waiting
        /\ \A q \in Requests : q # r => request'[q] = request[q]
    BY <1>1, <2>1 DEF QuotaInv, QuotaTypeOK
  <2> QED
    BY <1>2, <2>1, <2>2, <2>3, RequestKeeps
<1>4. CASE request[r].limit # NoLimit
  <2>1. \A q \in Requests : request'[q] = IF q = r THEN Waiting ELSE request[q]
    BY <1>1 DEF QuotaInv, QuotaTypeOK
  <2>2. r \in Admitted /\ Admitted' = Admitted \ {r}
    BY <1>1, <1>4, <2>1, StatesOfRequest DEF Admitted
  <2>3. Cardinality(Admitted') = Cardinality(Admitted) - 1
    BY <2>2, AdmittedIsFinite, FS_RemoveElement
  <2>4. metered' = metered + 1
    BY <1>4 DEF CreateCase
  <2>5. QuotaTypeOK'
    BY <1>1, <1>2, <2>4, StatesOfRequest DEF CreateCase, QuotaInv, QuotaTypeOK
  <2>6. AdmittedHasRoom'
    <3>1. \A q \in Admitted' : q \in Admitted /\ request'[q] = request[q]
      BY <2>1, <2>2 DEF Admitted
    <3> QED
      BY <3>1 DEF QuotaInv, AdmittedHasRoom
  <2>7. QuotaOvershootBounded'
    BY <1>2, <2>3, <2>4, AdmittedIsFinite DEF QuotaInv, QuotaOvershootBounded
  <2> QED
    BY <1>2, <2>4, <2>5, <2>6, <2>7 DEF QuotaInv
<1> QED
  BY <1>3, <1>4

\* When the month ends nothing is counted; the requests that have passed are
\* at most all there are, and none has passed a limit of nought.
LEMMA MonthKeeps ==
  ASSUME QuotaInv, NextMonth
  PROVE  QuotaInv'
<1>1. cases' = 0 /\ metered' = 0 /\ Admitted' = Admitted /\ request' = request
  BY DEF NextMonth, Admitted
<1>2. QuotaOvershootBounded'
  <2> SUFFICES ASSUME NEW highest \in Numbers, \A k \in Numbers : k <= highest
               PROVE  Cardinality(Admitted) < highest + Cardinality(Requests)
    BY <1>1, AdmittedIsFinite DEF QuotaOvershootBounded
  <2>1. highest \in Nat
    BY NumbersAreNaturals
  <2>2. CASE Admitted = {}
    BY <2>1, <2>2, FS_EmptySet, AdmittedIsFinite
  <2>3. CASE Admitted # {}
    <3>1. PICK q \in Admitted : request[q].limit \in Numbers /\ request[q].limit > 0
      BY <2>3 DEF QuotaInv, AdmittedHasRoom
    <3>2. request[q].limit \in Nat /\ request[q].limit <= highest
      BY <3>1, NumbersAreNaturals
    <3>3. highest > 0
      BY <2>1, <3>1, <3>2
    <3> QED
      BY <2>1, <3>3, AdmittedIsFinite
  <2> QED
    BY <2>2, <2>3
<1> QED
  BY <1>1, <1>2 DEF QuotaInv, QuotaTypeOK, AdmittedHasRoom, NextMonth

LEMMA NextQuota ==
  ASSUME QuotaInv, [QuotaNext]_quotaVars
  PROVE  QuotaInv'
<1>1. ASSUME UNCHANGED <<request, metered>>, QuotaTypeOK', cases' >= cases PROVE QuotaInv'
  <2>1. Admitted' = Admitted
    BY <1>1 DEF Admitted
  <2> QED
    BY <1>1, <2>1 DEF QuotaInv, QuotaTypeOK, AdmittedHasRoom, QuotaOvershootBounded
<1>2. CASE UNCHANGED quotaVars
  BY <1>1, <1>2 DEF quotaVars, QuotaInv, QuotaTypeOK
<1>3. ASSUME NEW r \in Requests, FindSubscription(r) PROVE QuotaInv'
  <2>1. [pc |-> "plan", code |-> subscribed] \in RequestStates /\ r \notin Admitted
    BY <1>3, StatesOfRequest DEF FindSubscription, QuotaInv, QuotaTypeOK, Admitted
  <2>2. /\ request' = [request EXCEPT ![r] = [pc |-> "plan", code |-> subscribed]]
        /\ UNCHANGED <<limitOf, subscribed, cases, metered>> /\ cases \in Nat
    BY <1>3 DEF FindSubscription, QuotaInv, QuotaTypeOK
  <2>3. /\ request' \in [Requests -> RequestStates] /\ request'[r].pc = "plan"
        /\ \A q \in Requests : q # r => request'[q] = request[q]
    BY <2>1, <2>2 DEF QuotaInv, QuotaTypeOK
  <2> QED
    BY <2>1, <2>2, <2>3, RequestKeeps
<1>4. ASSUME NEW r \in Requests, ReadPlan(r) PROVE QuotaInv'
  <2> DEFINE l == EffectiveLimit(request[r].code)
  <2>1. l \in EffectiveLimits /\ r \notin Admitted
    BY <1>4, LimitsOfRequest, EffectiveLimitTyped DEF ReadPlan, QuotaInv, Admitted
  <2> DEFINE state == IF l = NoLimit THEN Passed(l) ELSE [pc |-> "counting", limit |-> l]
  <2>2. request' = [request EXCEPT ![r] = state]
    BY <1>4 DEF ReadPlan
  <2>3. state \in RequestStates /\ ~(state.pc = "passed" /\ state.limit # NoLimit)
    BY <2>1, StatesOfRequest
  <2> HIDE DEF state, l
  <2>4. UNCHANGED <<limitOf, subscribed, cases, metered>> /\ cases \in Nat
    BY <1>4 DEF ReadPlan, QuotaInv, QuotaTypeOK
  <2>5. /\ request' \in [Requests -> RequestStates] /\ request'[r] = state
        /\ \A q \in Requests : q # r => request'[q] = request[q]
    BY <2>2, <2>3 DEF QuotaInv, QuotaTypeOK
  <2> QED
    BY <2>1, <2>3, <2>4, <2>5, RequestKeeps
<1>5. CASE CreateCaseDirectly
  BY <1>1, <1>5 DEF CreateCaseDirectly, QuotaInv, QuotaTypeOK
<1>6. ASSUME NEW c \in PlanCodes, NEW l \in PlanLimits, SetLimit(c, l) PROVE QuotaInv'
  BY <1>1, <1>6 DEF SetLimit, QuotaInv, QuotaTypeOK
<1>7. ASSUME NEW c \in PlanCodes, ChangeSubscription(c) PROVE QuotaInv'
  BY <1>1, <1>7 DEF ChangeSubscription, QuotaInv, QuotaTypeOK
<1> QED
  BY <1>2, <1>3, <1>4, <1>5, <1>6, <1>7, CountKeeps, CreateKeeps, MonthKeeps DEF QuotaNext

-----------------------------------------------------------------------------
(* The theorems *)

\* Every step of a request, an admin or the calendar keeps the state in its type.
THEOREM QuotaIsTyped == QuotaSpec => []QuotaTypeOK
<1>1. QuotaInv => QuotaTypeOK
  BY DEF QuotaInv
<1> QED
  BY <1>1, InitQuota, NextQuota, PTL DEF QuotaSpec

\* With n requests under way at a time, a month holds at most n - 1 cases more
\* than the highest limit, and this for every number of requests and all limits.
THEOREM QuotaOvershoot == QuotaSpec => []QuotaOvershootBounded
<1>1. QuotaInv => QuotaOvershootBounded
  BY DEF QuotaInv
<1> QED
  BY <1>1, InitQuota, NextQuota, PTL DEF QuotaSpec

-----------------------------------------------------------------------------
(* The versions of a contract                                              *)

\* Two saves that are under way at once both count as overlapped.
OverlapsAreKnown == \A q, r \in Runs : q # r /\ Busy(q) /\ Busy(r) => r \in overlapped

\* A save that is alone in being under way works on the next number, and what
\* it has written is still its own.
AloneIsNext ==
  \A r \in Runs \ overlapped : Busy(r) =>
    /\ IsNext(saving[r].key)
    /\ saving[r].pc = "insert" => saving[r].number = saving[r].key
    /\ saving[r].pc = "upload" => written[saving[r].key] = r
    /\ saving[r].pc = "unlink" \/ (s3 /\ saving[r].pc \in {"number", "insert"})
         => object[saving[r].key] = r

\* A row that was saved alone is named as its document, no save under way has
\* its number, and its document is in its place.
RowIsSafe(row) ==
  /\ row.number = row.key
  /\ \A other \in rows : other.number = row.number => other = row
  /\ \A q \in Runs : Busy(q) =>
       /\ saving[q].key > row.number
       /\ saving[q].pc = "insert" => saving[q].number > row.number
  /\ row.place = "s3" => object[row.key] = row.run

RowsAreSafe == \A row \in rows : row.run \notin overlapped => RowIsSafe(row)

\* Only the version of the time before S3 may have no path, and its document
\* is where docx_paths looks.
LegacyStays ==
  \A row \in rows :
    /\ row.run = Legacy => row.number = 1 /\ row.place # "s3" /\ served[1] = Legacy
    /\ row.run # Legacy => row.place # "null"

VersionsInv ==
  VersionsTypeOK /\ OverlapsAreKnown /\ AloneIsNext /\ RowsAreSafe /\ LegacyStays

LEMMA StagesOfSave ==
  /\ Before \in Stages /\ Before.pc = "before" /\ Done \in Stages /\ Done.pc = "done"
  /\ \A n \in VersionNumbers :
       /\ \A pc \in {"render", "upload", "unlink", "number"} :
            /\ Step(pc, n) \in Stages /\ Step(pc, n).pc = pc /\ Step(pc, n).key = n
            /\ Step(pc, n) \notin {Before, Done}
       /\ \A m \in VersionNumbers :
            /\ Inserting(n, m) \in Stages /\ Inserting(n, m).pc = "insert"
            /\ Inserting(n, m).key = n /\ Inserting(n, m).number = m
            /\ Inserting(n, m) \notin {Before, Done}
BY DEF Stages, Before, Done, Step, Inserting

LEMMA StageOfBusy ==
  ASSUME VersionsTypeOK, NEW r \in Runs
  PROVE  /\ Busy(r) <=> saving[r].pc \in {"render", "upload", "unlink", "number", "insert"}
         /\ Busy(r) => saving[r].key \in VersionNumbers
         /\ saving[r].pc = "insert" => saving[r].number \in VersionNumbers
BY DEF VersionsTypeOK, Stages, Before, Done, Busy

LEMMA NumbersAreNatural ==
  ASSUME VersionsTypeOK
  PROVE  /\ \A n \in VersionNumbers : n \in Nat /\ n > 0
         /\ \A row \in rows : row.number \in Nat /\ row.key \in Nat
<1>1. \A n \in VersionNumbers : n \in Nat \ {0}
  BY VersionsAssumption
<1>2. \A row \in rows : row.number \in VersionNumbers /\ row.key \in VersionNumbers
  BY DEF VersionsTypeOK, Row
<1> QED
  BY <1>1, <1>2

LEMMA OneNext ==
  ASSUME VersionsTypeOK, NEW m \in VersionNumbers, NEW n \in VersionNumbers, IsNext(m), IsNext(n)
  PROVE  m = n
BY NumbersAreNatural DEF IsNext

LEMMA InitVersions == VersionsInit => VersionsInv
<1> SUFFICES ASSUME VersionsInit PROVE VersionsInv
  OBVIOUS
<1>1. VersionsTypeOK
  BY VersionsAssumption, StagesOfSave DEF VersionsInit, VersionsTypeOK, NoFiles, Files, Authors, Row
<1>2. \A r \in Runs : ~Busy(r)
  BY DEF VersionsInit, Busy
<1>3. \A row \in rows : /\ row.run = Legacy /\ row.number = 1 /\ row.key = 1
                        /\ row.place # "s3" /\ served[1] = Legacy
                        /\ \A other \in rows : other = row
  BY VersionsAssumption DEF VersionsInit, NoFiles
<1>4. RowsAreSafe
  BY <1>2, <1>3 DEF RowsAreSafe, RowIsSafe
<1>5. LegacyStays
  BY <1>3 DEF LegacyStays
<1> QED
  BY <1>1, <1>2, <1>4, <1>5 DEF VersionsInv, OverlapsAreKnown, AloneIsNext

-----------------------------------------------------------------------------
(* The steps *)

\* A save goes on: it keeps its key, and may write under it.
LEMMA SaveGoesOn ==
  ASSUME VersionsInv, NEW r \in Runs, Busy(r),
         NEW stage \in Stages, stage \notin {Before, Done}, stage.key = saving[r].key,
         stage.pc = "insert" => IsNext(stage.number),
         saving' = [saving EXCEPT ![r] = stage],
         written' \in Files, object' \in Files,
         \A n \in VersionNumbers \ {saving[r].key} : object'[n] = object[n],
         r \notin overlapped =>
           /\ stage.pc = "upload" => written'[saving[r].key] = r
           /\ stage.pc = "unlink" \/ (s3 /\ stage.pc \in {"number", "insert"})
                => object'[saving[r].key] = r,
         UNCHANGED <<s3, rows, served, overlapped>>
  PROVE  VersionsInv'
<1>1. \A q \in Runs : /\ saving'[q] = IF q = r THEN stage ELSE saving[q]
                      /\ Busy(q)' <=> Busy(q)
  BY DEF VersionsInv, VersionsTypeOK, Busy
<1>2. VersionsTypeOK /\ VersionsTypeOK'
  BY DEF VersionsInv, VersionsTypeOK
<1>3. OverlapsAreKnown'
  BY <1>1 DEF VersionsInv, OverlapsAreKnown
<1>4. \A n : IsNext(n)' <=> IsNext(n)
  BY DEF IsNext
<1>5. stage.pc = "insert" => stage.number \in VersionNumbers
  BY DEF Stages, Before, Done
<1>6. saving[r].key \in VersionNumbers
  BY <1>2, StageOfBusy
<1>7. AloneIsNext'
  <2> SUFFICES ASSUME NEW q \in Runs, q \notin overlapped, Busy(q)
               PROVE  /\ IsNext(saving'[q].key)
                      /\ saving'[q].pc = "insert" => saving'[q].number = saving'[q].key
                      /\ saving'[q].pc = "upload" => written'[saving'[q].key] = q
                      /\ saving'[q].pc = "unlink" \/ (s3 /\ saving'[q].pc \in {"number", "insert"})
                           => object'[saving'[q].key] = q
    BY <1>1, <1>4 DEF AloneIsNext
  <2>1. q = r
    BY DEF VersionsInv, OverlapsAreKnown
  <2>2. IsNext(saving[r].key)
    BY <2>1 DEF VersionsInv, AloneIsNext
  <2>3. stage.pc = "insert" => stage.number = saving[r].key
    BY <1>2, <1>5, <1>6, <2>2, OneNext
  <2> QED
    BY <1>1, <2>1, <2>2, <2>3
<1>8. RowsAreSafe'
  <2> SUFFICES ASSUME NEW row \in rows, row.run \notin overlapped, RowIsSafe(row)
               PROVE  RowIsSafe(row)'
    BY DEF VersionsInv, RowsAreSafe
  <2>1. saving[r].key > row.number /\ row.number = row.key
    BY DEF RowIsSafe
  <2>2. row.key \in VersionNumbers /\ row.number \in Nat /\ row.key # saving[r].key
    BY <1>2, <1>6, <2>1, NumbersAreNatural DEF VersionsTypeOK, Row
  <2>3. stage.pc = "insert" => stage.number > row.number
    BY DEF IsNext
  <2> QED
    BY <1>1, <2>1, <2>2, <2>3 DEF RowIsSafe
<1>9. LegacyStays'
  BY DEF VersionsInv, LegacyStays
<1> QED
  BY <1>2, <1>3, <1>7, <1>8, <1>9 DEF VersionsInv

LEMMA LookKeeps ==
  ASSUME VersionsInv, NEW r \in Runs, Look(r)
  PROVE  VersionsInv'
<1>1. PICK n \in VersionNumbers : IsNext(n) /\ saving' = [saving EXCEPT ![r] = Step("render", n)]
  BY DEF Look
<1>2. \A q \in Runs : saving'[q] = IF q = r THEN Step("render", n) ELSE saving[q]
  BY <1>1 DEF VersionsInv, VersionsTypeOK
<1>3. /\ ~Busy(r) /\ Busy(r)'
      /\ \A q \in Runs \ {r} : Busy(q)' <=> Busy(q)
  BY <1>2, StagesOfSave DEF Look, Busy
<1>4. /\ overlapped \subseteq overlapped' /\ overlapped' \subseteq Runs
      /\ \A q \in Runs : Busy(q) => q \in overlapped' /\ r \in overlapped'
  BY DEF Look, VersionsInv, VersionsTypeOK
<1>5. UNCHANGED <<s3, rows, object, written, served>>
  BY DEF Look
<1>6. VersionsTypeOK'
  BY <1>1, <1>4, <1>5, StagesOfSave DEF VersionsInv, VersionsTypeOK
<1>7. OverlapsAreKnown'
  BY <1>3, <1>4 DEF OverlapsAreKnown
<1>8. AloneIsNext'
  <2>1. IsNext(n)'
    BY <1>1, <1>5 DEF IsNext
  <2>2. \A q \in Runs \ overlapped' : Busy(q)' => q = r
    BY <1>3, <1>4
  <2> QED
    BY <1>2, <2>1, <2>2, StagesOfSave DEF AloneIsNext
<1>9. RowsAreSafe'
  <2> SUFFICES ASSUME NEW row \in rows, row.run \notin overlapped, RowIsSafe(row)
               PROVE  RowIsSafe(row)'
    BY <1>4, <1>5 DEF VersionsInv, RowsAreSafe
  <2>1. n > row.number
    BY <1>1, NumbersAreNatural DEF IsNext, VersionsInv
  <2> QED
    BY <1>2, <1>3, <1>5, <2>1, StagesOfSave DEF RowIsSafe
<1>10. LegacyStays'
  BY <1>5 DEF VersionsInv, LegacyStays
<1> QED
  BY <1>6, <1>7, <1>8, <1>9, <1>10 DEF VersionsInv

LEMMA WorkKeeps ==
  ASSUME VersionsInv, NEW r \in Runs, Render(r) \/ Upload(r) \/ Unlink(r) \/ Number(r)
  PROVE  VersionsInv'
<1> DEFINE key == saving[r].key
<1>1. VersionsTypeOK /\ Busy(r) /\ key \in VersionNumbers
  BY StageOfBusy DEF VersionsInv, Render, Upload, Unlink, Number
<1>2. r \in Authors /\ \A n \in VersionNumbers : written[n] \in Authors \cup {Missing}
  BY <1>1 DEF VersionsTypeOK, Authors, Files
<1>3. r \notin overlapped =>
        /\ saving[r].pc = "upload" => written[key] = r
        /\ saving[r].pc = "unlink" \/ (s3 /\ saving[r].pc = "number") => object[key] = r
  BY <1>1 DEF VersionsInv, AloneIsNext
<1>4. CASE Render(r)
  <2> DEFINE stage == Step(IF s3 THEN "upload" ELSE "number", key)
  <2>1. /\ stage \in Stages /\ stage \notin {Before, Done} /\ stage.key = key
        /\ stage.pc = IF s3 THEN "upload" ELSE "number"
    BY <1>1, StagesOfSave
  <2>2. written' \in Files /\ written'[key] = r /\ object' \in Files
    BY <1>1, <1>2, <1>4 DEF Render, VersionsTypeOK, Files
  <2> HIDE DEF stage
  <2> QED
    BY <1>1, <1>4, <2>1, <2>2, SaveGoesOn DEF Render, stage
<1>5. CASE Upload(r)
  <2> DEFINE stage == Step("unlink", key)
  <2>1. /\ stage \in Stages /\ stage \notin {Before, Done} /\ stage.key = key
        /\ stage.pc = "unlink"
    BY <1>1, StagesOfSave
  <2>2. /\ written' \in Files /\ object' \in Files /\ object'[key] = written[key]
        /\ \A n \in VersionNumbers \ {key} : object'[n] = object[n]
    BY <1>1, <1>2, <1>5 DEF Upload, VersionsTypeOK, Files
  <2>3. saving[r].pc = "upload"
    BY <1>5 DEF Upload
  <2> HIDE DEF stage
  <2> QED
    BY <1>1, <1>3, <1>5, <2>1, <2>2, <2>3, SaveGoesOn DEF Upload, stage
<1>6. CASE Unlink(r)
  <2> DEFINE stage == Step("number", key)
  <2>1. /\ stage \in Stages /\ stage \notin {Before, Done} /\ stage.key = key
        /\ stage.pc = "number"
    BY <1>1, StagesOfSave
  <2>2. written' \in Files /\ object' = object /\ object \in Files
    BY <1>1, <1>6 DEF Unlink, VersionsTypeOK, Files
  <2>3. saving[r].pc = "unlink"
    BY <1>6 DEF Unlink
  <2> HIDE DEF stage
  <2> QED
    BY <1>1, <1>3, <1>6, <2>1, <2>2, <2>3, SaveGoesOn DEF Unlink, stage
<1>7. CASE Number(r)
  <2>1. PICK n \in VersionNumbers :
          IsNext(n) /\ saving' = [saving EXCEPT ![r] = Inserting(key, n)]
    BY <1>7 DEF Number
  <2> DEFINE stage == Inserting(key, n)
  <2>2. /\ stage \in Stages /\ stage \notin {Before, Done} /\ stage.key = key
        /\ stage.pc = "insert" /\ stage.number = n
    BY <1>1, StagesOfSave
  <2>3. written' = written /\ object' = object /\ object \in Files /\ written \in Files
    BY <1>1, <1>7 DEF Number, VersionsTypeOK
  <2>4. saving[r].pc = "number"
    BY <1>7 DEF Number
  <2> HIDE DEF stage
  <2> QED
    BY <1>1, <1>3, <1>7, <2>1, <2>2, <2>3, <2>4, SaveGoesOn DEF Number, stage
<1> QED
  BY <1>4, <1>5, <1>6, <1>7

\* A save that ends leaves the other saves and the rows there are as they were.
LEMMA SaveEnds ==
  ASSUME VersionsInv, NEW r \in Runs, Busy(r), saving' = [saving EXCEPT ![r] = Done],
         UNCHANGED <<s3, object, written, served, overlapped>>
  PROVE  /\ saving' \in [Runs -> Stages]
         /\ ~Busy(r)' /\ \A q \in Runs \ {r} : saving'[q] = saving[q] /\ (Busy(q)' <=> Busy(q))
         /\ OverlapsAreKnown'
         /\ \A q \in Runs \ overlapped : ~Busy(q)'
<1>1. \A q \in Runs : saving'[q] = IF q = r THEN Done ELSE saving[q]
  BY DEF VersionsInv, VersionsTypeOK
<1> QED
  BY <1>1, StagesOfSave DEF VersionsInv, VersionsTypeOK, OverlapsAreKnown, Busy

LEMMA InsertKeeps ==
  ASSUME VersionsInv, NEW r \in Runs, Insert(r)
  PROVE  VersionsInv'
<1>1. /\ VersionsTypeOK /\ Busy(r) /\ saving[r].pc = "insert"
      /\ saving[r].key \in VersionNumbers /\ saving[r].number \in VersionNumbers
  BY StageOfBusy DEF VersionsInv, Insert
<1> PICK new \in Row : new = [run |-> r, number |-> saving[r].number, key |-> saving[r].key,
                              place |-> IF s3 THEN "s3" ELSE "disk"]
  <2>1. \A place \in {"s3", "disk"} :
          [run |-> r, number |-> saving[r].number, key |-> saving[r].key, place |-> place] \in Row
    BY <1>1 DEF Row, Authors
  <2> QED
    BY <2>1
<1>2. rows' = rows \cup {new} /\ UNCHANGED <<s3, object, written, served, overlapped>>
  BY DEF Insert
<1>3. /\ saving' \in [Runs -> Stages]
      /\ ~Busy(r)' /\ \A q \in Runs \ {r} : saving'[q] = saving[q] /\ (Busy(q)' <=> Busy(q))
      /\ OverlapsAreKnown'
      /\ \A q \in Runs \ overlapped : ~Busy(q)'
  BY <1>1, SaveEnds DEF Insert
<1>4. VersionsTypeOK'
  BY <1>1, <1>2, <1>3 DEF VersionsTypeOK
<1>5. AloneIsNext'
  BY <1>2, <1>3 DEF AloneIsNext
<1>6. ASSUME NEW row \in rows, row.run \notin overlapped, RowIsSafe(row)
      PROVE  RowIsSafe(row)'
  <2>1. new.number > row.number
    BY <1>1, <1>6 DEF RowIsSafe
  <2>2. new.number # row.number
    BY <1>1, <2>1, NumbersAreNatural
  <2> QED
    BY <1>2, <1>3, <1>6, <2>2 DEF RowIsSafe
<1>7. ASSUME r \notin overlapped
      PROVE  RowIsSafe(new)'
  <2>1. /\ IsNext(new.key) /\ new.number = new.key
        /\ s3 => object[new.key] = r
    BY <1>1, <1>7 DEF VersionsInv, AloneIsNext
  <2>2. \A row \in rows : row.number < new.number
    BY <2>1 DEF IsNext
  <2>3. \A row \in rows : row.number # new.number
    BY <1>1, <2>2, NumbersAreNatural
  <2>4. \A q \in Runs : ~Busy(q)'
    BY <1>1, <1>3, <1>7 DEF VersionsInv, OverlapsAreKnown
  <2> QED
    BY <1>2, <2>1, <2>3, <2>4 DEF RowIsSafe
<1>8. RowsAreSafe'
  <2>1. \A row \in rows' : row \in rows \/ (row = new /\ row.run = r)
    BY <1>2
  <2> QED
    BY <1>2, <1>6, <1>7, <2>1 DEF VersionsInv, RowsAreSafe
<1>9. LegacyStays'
  BY <1>2, VersionsAssumption DEF VersionsInv, LegacyStays
<1> QED
  BY <1>3, <1>4, <1>5, <1>8, <1>9 DEF VersionsInv

LEMMA AbandonKeeps ==
  ASSUME VersionsInv, NEW r \in Runs, Abandon(r)
  PROVE  VersionsInv'
<1>1. UNCHANGED <<s3, rows, object, written, served, overlapped>>
  BY DEF Abandon
<1>2. /\ saving' \in [Runs -> Stages]
      /\ ~Busy(r)' /\ \A q \in Runs \ {r} : saving'[q] = saving[q] /\ (Busy(q)' <=> Busy(q))
      /\ OverlapsAreKnown'
      /\ \A q \in Runs \ overlapped : ~Busy(q)'
  BY SaveEnds DEF Abandon
<1>3. VersionsTypeOK'
  BY <1>1, <1>2 DEF VersionsInv, VersionsTypeOK
<1>4. AloneIsNext' /\ LegacyStays'
  BY <1>1, <1>2 DEF VersionsInv, AloneIsNext, LegacyStays
<1>5. RowsAreSafe'
  BY <1>1, <1>2 DEF VersionsInv, RowsAreSafe, RowIsSafe
<1> QED
  BY <1>2, <1>3, <1>4, <1>5 DEF VersionsInv

LEMMA NextVersions ==
  ASSUME VersionsInv, [VersionsNext]_versionVars
  PROVE  VersionsInv'
<1>1. CASE UNCHANGED versionVars
  BY <1>1 DEF VersionsInv, VersionsTypeOK, OverlapsAreKnown, AloneIsNext, RowsAreSafe, RowIsSafe,
              LegacyStays, IsNext, Busy, versionVars
<1> QED
  BY <1>1, LookKeeps, WorkKeeps, InsertKeeps, AbandonKeeps DEF VersionsNext

LEMMA VersionsInvServes == VersionsInv => VersionServesItself
<1> SUFFICES ASSUME VersionsInv, NEW row \in rows, row.run \notin overlapped,
                    row.place = "disk" => row.run = Legacy
             PROVE  /\ \A other \in rows : other.number = row.number => other = row
                    /\ Offered(row)
                    /\ Download(row) = row.run
  BY DEF VersionServesItself
<1>1. RowIsSafe(row)
  BY DEF VersionsInv, RowsAreSafe
<1>2. row.place \in {"s3", "disk", "null"} /\ row.run \in Runs \cup {Legacy}
  BY DEF VersionsInv, VersionsTypeOK, Row, Authors
<1>3. CASE row.place = "s3"
  BY <1>1, <1>3 DEF RowIsSafe, Offered, Download, Stored
<1>4. CASE row.place # "s3"
  <2>1. row.run = Legacy
    BY <1>2, <1>4 DEF VersionsInv, LegacyStays
  <2>2. row.number = 1 /\ served[1] = Legacy /\ Legacy # Missing
    BY <2>1, VersionsAssumption DEF VersionsInv, LegacyStays
  <2> QED
    BY <1>1, <1>2, <1>4, <2>1, <2>2 DEF RowIsSafe, Offered, Download, OnDisk
<1> QED
  BY <1>3, <1>4

\* Every step of a save keeps the state in its type.
THEOREM VersionsAreTyped == VersionsSpec => []VersionsTypeOK
<1>1. VersionsInv => VersionsTypeOK
  BY DEF VersionsInv
<1> QED
  BY <1>1, InitVersions, NextVersions, PTL DEF VersionsSpec

\* A version that was saved alone keeps a number of its own and serves its own
\* document for good, whatever saves overlap, fail or die after it, for any
\* number of runs.
THEOREM VersionsServeThemselves == VersionsSpec => []VersionServesItself
BY InitVersions, NextVersions, VersionsInvServes, PTL DEF VersionsSpec
=============================================================================
