-------------------------------- MODULE Quota --------------------------------
(***************************************************************************)
(* The monthly limit on new cases (app/billing/service.py), as the two     *)
(* routes that create cases use it (app/cases/routes.py).                  *)
(*                                                                         *)
(* POST /api/chat checks the limit in a worker thread, with one database   *)
(* transaction for the subscription, one for the plan and one for the      *)
(* count, and creates the case afterwards in the event loop.  POST         *)
(* /api/cases creates a case and checks nothing.  Requests of other users  *)
(* touch other rows, so one user is enough.                                *)
(***************************************************************************)
EXTENDS Integers, FiniteSets

CONSTANTS
  Requests,    \* POST /api/chat requests that can be under way at a time
  Limits,      \* the limits an admin may enter
  FreeLimit,   \* what effective_plan makes up for a free plan without a row
  NoLimit,     \* monthly_generation_limit IS NULL
  NoPlan,      \* the plan's row is missing
  MaxCases     \* bound on the cases of one month

ASSUME QuotaAssumption ==
  /\ IsFiniteSet(Requests) /\ Requests # {}
  /\ Limits \subseteq Nat
  /\ FreeLimit \in Nat
  /\ NoLimit \notin Nat
  /\ NoPlan \notin Nat \cup {NoLimit}
  /\ MaxCases \in Nat

FreePlan == "free"
PlanCodes == {FreePlan, "paid"}

VARIABLES
  limitOf,     \* limitOf[c]: the limit of plan c in subscription_plans
  subscribed,  \* the code of the user's live subscription, FreePlan if none
  cases,       \* cases of the user created since the month began
  request,     \* request[r]: how far POST /api/chat number r has come
  metered      \* history: those of `cases' whose request was held to a limit

quotaVars == <<limitOf, subscribed, cases, request, metered>>

PlanLimits == Limits \cup {NoLimit}
Waiting == [pc |-> "waiting"]
Passed(l) == [pc |-> "passed", limit |-> l]

Numbers == Limits \cup {FreeLimit}
EffectiveLimits == Numbers \cup {NoLimit}

RequestStates ==
  {Waiting} \cup [pc : {"plan"}, code : PlanCodes]
            \cup [pc : {"counting", "passed"}, limit : EffectiveLimits]

QuotaInit ==
  /\ limitOf \in [PlanCodes -> PlanLimits \cup {NoPlan}]
  /\ limitOf["paid"] # NoPlan
  /\ subscribed = FreePlan
  /\ cases = 0
  /\ metered = 0
  /\ request = [r \in Requests |-> Waiting]

-----------------------------------------------------------------------------
(* POST /api/chat without a case_id *)

\* enforce_create_case starts: get_active_subscription.
FindSubscription(r) ==
  /\ request[r] = Waiting
  /\ request' = [request EXCEPT ![r] = [pc |-> "plan", code |-> subscribed]]
  /\ UNCHANGED <<limitOf, subscribed, cases, metered>>

EffectiveLimit(c) == IF limitOf[c] = NoPlan THEN FreeLimit ELSE limitOf[c]

\* get_plan; a plan without a limit is not counted at all.
ReadPlan(r) ==
  /\ request[r].pc = "plan"
  /\ LET l == EffectiveLimit(request[r].code)
     IN  request' = [request EXCEPT ![r] =
                       IF l = NoLimit THEN Passed(l)
                                      ELSE [pc |-> "counting", limit |-> l]]
  /\ UNCHANGED <<limitOf, subscribed, cases, metered>>

\* Mutant: the case that reaches the limit is counted out.
Exceeded_Late(used, l) == used > l

Exceeded(used, l) == used >= l

\* count_generations_this_month; QuotaExceeded ends the request with a 402.
CountCases(r) ==
  /\ request[r].pc = "counting"
  /\ request' = [request EXCEPT ![r] =
                   IF Exceeded(cases, request[r].limit) THEN Waiting
                                                        ELSE Passed(request[r].limit)]
  /\ UNCHANGED <<limitOf, subscribed, cases, metered>>

\* Back in the event loop: create_case.
CreateCase(r) ==
  /\ request[r].pc = "passed"
  /\ cases < MaxCases
  /\ cases' = cases + 1
  /\ metered' = IF request[r].limit = NoLimit THEN metered ELSE metered + 1
  /\ request' = [request EXCEPT ![r] = Waiting]
  /\ UNCHANGED <<limitOf, subscribed>>

-----------------------------------------------------------------------------

\* POST /api/cases.
CreateCaseDirectly ==
  /\ cases < MaxCases
  /\ cases' = cases + 1
  /\ UNCHANGED <<limitOf, subscribed, request, metered>>

\* An admin edits a plan.
SetLimit(c, l) ==
  /\ limitOf[c] # NoPlan
  /\ limitOf' = [limitOf EXCEPT ![c] = l]
  /\ UNCHANGED <<subscribed, cases, request, metered>>

\* A purchase is applied, or the last period ends.
ChangeSubscription(c) ==
  /\ subscribed # c
  /\ subscribed' = c
  /\ UNCHANGED <<limitOf, cases, request, metered>>

\* _month_start_utc moves on.
NextMonth ==
  /\ cases > 0
  /\ cases' = 0
  /\ metered' = 0
  /\ UNCHANGED <<limitOf, subscribed, request>>

QuotaNext ==
  \/ \E r \in Requests :
       FindSubscription(r) \/ ReadPlan(r) \/ CountCases(r) \/ CreateCase(r)
  \/ CreateCaseDirectly
  \/ \E c \in PlanCodes, l \in PlanLimits : SetLimit(c, l)
  \/ \E c \in PlanCodes : ChangeSubscription(c)
  \/ NextMonth

QuotaSpec == QuotaInit /\ [][QuotaNext]_quotaVars

-----------------------------------------------------------------------------
(* Properties *)

QuotaTypeOK ==
  /\ limitOf \in [PlanCodes -> PlanLimits \cup {NoPlan}]
  /\ subscribed \in PlanCodes
  /\ cases \in Nat
  /\ metered \in Nat
  /\ request \in [Requests -> RequestStates]

\* The requests that were counted and have yet to create their case.
Admitted == {r \in Requests : request[r].pc = "passed" /\ request[r].limit # NoLimit}

\* The promise of enforce_create_case is "at most monthly_generation_limit
\* cases per month".  Its check and the creation are apart, so requests that
\* pass together go beyond it: but never by more than the number of requests
\* that can be under way at once, less one, whatever happens to the plan, the
\* subscription and the calendar in the meantime, and with cases made
\* without any check counted in the limit.
QuotaOvershootBounded ==
  \A highest \in Numbers :
    (\A l \in Numbers : l <= highest)
      => metered + Cardinality(Admitted) < highest + Cardinality(Requests)
=============================================================================
