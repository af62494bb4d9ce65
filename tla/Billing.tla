------------------------------- MODULE Billing -------------------------------
(***************************************************************************)
(* Checkout, the payment provider's notifications, and the subscriptions   *)
(* they buy (app/billing), with the two neighbours that touch the same     *)
(* tables: the admin's plan catalogue (app/admin/crud.py) and the seeding  *)
(* of that catalogue at start-up (app/db/migrate.py).                      *)
(*                                                                         *)
(* POST /checkout and the webhook are coroutines of one event loop whose   *)
(* database and provider calls block it, so at most one of them is under   *)
(* way: `loop'.  Every database transaction is one action.  The admin's    *)
(* plan routes are plain functions that run in worker threads, so they     *)
(* take place between any two transactions of the loop.                    *)
(*                                                                         *)
(* Money is left out: a payment is the PaymentIntent row it belongs to,    *)
(* and the provider's object for it has the same name.  The free plan is   *)
(* left out too: checkout refuses it, its row has no duration, and nobody  *)
(* can create or delete it.                                                *)
(***************************************************************************)
EXTENDS Integers, FiniteSets

CONSTANTS
  Users,
  Codes,            \* codes of paid plans
  Defaults,         \* those of the default catalogue
  DefaultDuration,  \* duration_days of each default plan
  Durations,        \* what an admin may enter as duration_days
  Intents,          \* PaymentIntent rows that can ever exist
  MaxTime,          \* bound on the clock
  AutoConfirm,      \* possible values of settings.yookassa_auto_confirm
  Edited,           \* codes whose plans an admin may edit
  Faults            \* may a transaction fail, or the process die and restart?

ASSUME BillingAssumption ==
  /\ Defaults \subseteq Codes
  /\ DefaultDuration \in [Defaults -> Nat \ {0}]
  /\ Durations \subseteq Nat \ {0}
  /\ MaxTime \in Nat
  /\ AutoConfirm \subseteq BOOLEAN
  /\ Edited \subseteq Codes
  /\ Faults \in BOOLEAN

VARIABLES
  autoConfirm, \* the setting, fixed when the process starts
  plans,      \* subscription_plans, by code
  intents,    \* payment_intents, by id
  subs,       \* user_subscriptions; no code path leaves the ACTIVE status
  provider,   \* the provider's own record of each payment
  acked,      \* the provider got HTTP 200 for the notification of the payment
  loop,       \* the billing handler the event loop is inside, and its payment
  now,        \* the clock, in days
  applied,    \* history: the payments apply_purchase has committed
  days        \* history: the paid time those payments bought, by user

vars == <<autoConfirm, plans, intents, subs, provider, acked, loop, now, applied, days>>

-----------------------------------------------------------------------------
(* Rows *)

Plan == [exists : BOOLEAN, duration : Nat, active : BOOLEAN]
NoPlan == [exists |-> FALSE, duration |-> 0, active |-> FALSE]

\* `linked' says that yookassa_payment_id has been stored.
Intent == [status : {"pending", "succeeded", "canceled"},
           user : Users, code : Codes, linked : BOOLEAN]
NoIntent == [status |-> "none"]

Subscription == [user : Users, code : Codes, started : Nat, expires : Nat,
                 payment : Intents]

Idle == [pc |-> "idle"]
Busy == [pc : {"creating", "linking", "confirming", "applying"},
         intent : Intents]

PlanRow(d, active) == [exists |-> TRUE, duration |-> d, active |-> active]

SeededPlan(c) == PlanRow(DefaultDuration[c], TRUE)

\* INSERT ... ON CONFLICT (code) DO NOTHING for every default plan.
Seeded(catalogue) ==
  [c \in Codes |-> IF c \in Defaults /\ ~catalogue[c].exists
                   THEN SeededPlan(c) ELSE catalogue[c]]

Init ==
  /\ autoConfirm \in AutoConfirm
  /\ plans = Seeded([c \in Codes |-> NoPlan])
  /\ intents = [i \in Intents |-> NoIntent]
  /\ subs = {}
  /\ provider = [i \in Intents |-> "none"]
  /\ acked = [i \in Intents |-> FALSE]
  /\ loop = Idle
  /\ now = 0
  /\ applied = {}
  /\ days = [u \in Users |-> 0]

-----------------------------------------------------------------------------
(* POST /api/billing/checkout *)

Purchasable(c) ==
  /\ plans[c].exists
  /\ plans[c].active
  /\ plans[c].duration # 0

\* The request is validated and the PENDING intent committed.
StartCheckout(u, c, i) ==
  /\ loop = Idle
  /\ intents[i] = NoIntent
  /\ Purchasable(c)
  /\ intents' = [intents EXCEPT ![i] =
                   [status |-> "pending", user |-> u, code |-> c, linked |-> FALSE]]
  /\ loop' = [pc |-> "creating", intent |-> i]
  /\ UNCHANGED <<autoConfirm, plans, subs, provider, acked, now, applied, days>>

\* yookassa_client.create_payment returns.
PaymentCreated(i) ==
  /\ loop = [pc |-> "creating", intent |-> i]
  /\ provider' = [provider EXCEPT ![i] = "created"]
  /\ loop' = [pc |-> "linking", intent |-> i]
  /\ UNCHANGED <<autoConfirm, plans, intents, subs, acked, now, applied, days>>

\* It raises, with or without a payment at the provider; the intent is
\* canceled unless that transaction fails too.
PaymentNotCreated(i) ==
  /\ loop = [pc |-> "creating", intent |-> i]
  /\ \E p \in {"none", "created"} : provider' = [provider EXCEPT ![i] = p]
  /\ \/ intents' = [intents EXCEPT ![i].status = "canceled"]
     \/ Faults /\ UNCHANGED intents
  /\ loop' = Idle
  /\ UNCHANGED <<autoConfirm, plans, subs, acked, now, applied, days>>

\* The confirmation URL reaches the user, who can pay from then on.
Offer(i) ==
  provider' = [provider EXCEPT ![i] = IF @ = "created" THEN "offered" ELSE @]

\* Mutants: the setting is not read; the provider's id is never stored.
LinkPayment_AlwaysConfirm(i) ==
  /\ loop = [pc |-> "linking", intent |-> i]
  /\ intents' = [intents EXCEPT ![i].linked = TRUE]
  /\ loop' = [pc |-> "confirming", intent |-> i]
  /\ UNCHANGED <<autoConfirm, plans, subs, provider, acked, now, applied, days>>

LinkPayment_IdLost(i) ==
  /\ loop = [pc |-> "linking", intent |-> i]
  /\ loop' = Idle
  /\ Offer(i)
  /\ UNCHANGED <<autoConfirm, plans, intents, subs, acked, now, applied, days>>

\* The provider's id is stored and, outside the auto-confirm mode, the
\* confirmation URL returned.
LinkPayment(i) ==
  /\ loop = [pc |-> "linking", intent |-> i]
  /\ intents' = [intents EXCEPT ![i].linked = TRUE]
  /\ IF autoConfirm
     THEN /\ loop' = [pc |-> "confirming", intent |-> i]
          /\ UNCHANGED provider
     ELSE /\ loop' = Idle
          /\ Offer(i)
  /\ UNCHANGED <<autoConfirm, plans, subs, acked, now, applied, days>>

LinkFails(i) ==
  /\ Faults
  /\ loop = [pc |-> "linking", intent |-> i]
  /\ loop' = Idle
  /\ UNCHANGED <<autoConfirm, plans, intents, subs, provider, acked, now, applied, days>>

-----------------------------------------------------------------------------
(* mark_payment_status, used by the webhook and by auto-confirm *)

\* The intent is found by its yookassa_payment_id.
Known(i) == intents[i] # NoIntent /\ intents[i].linked

\* Mutants: the status is read after it was set; only a cancelation is final.
Terminal_AfterUpdate(i) == intents[i].status \in {"pending", "succeeded", "canceled"}
Terminal_OnlyCanceled(i) == intents[i].status = "canceled"

Terminal(i) == intents[i].status \in {"succeeded", "canceled"}

\* Mutant: the spelling of the subscription status is used for the payment.
MarkStatus_Misspelt(i, status) ==
  intents' = [intents EXCEPT ![i].status = IF status = "canceled" THEN "cancelled" ELSE status]

MarkStatus(i, status) == intents' = [intents EXCEPT ![i].status = status]

\* Auto-confirm marks the payment itself, before the user has paid; when that
\* transaction fails the error is swallowed and the URL is returned anyway.
ConfirmPayment(i) ==
  /\ loop = [pc |-> "confirming", intent |-> i]
  /\ \/ /\ ~Terminal(i)
        /\ MarkStatus(i, "succeeded")
        /\ loop' = [pc |-> "applying", intent |-> i]
        /\ UNCHANGED provider
     \/ /\ Terminal(i) \/ Faults
        /\ loop' = Idle
        /\ Offer(i)
        /\ UNCHANGED intents
  /\ UNCHANGED <<autoConfirm, plans, subs, acked, now, applied, days>>

\* payment.succeeded: mark the intent and go on to apply the purchase; an
\* unknown payment is "ignored" and a terminal one a "duplicate", both HTTP 200.
WebhookSucceeded(i) ==
  /\ loop = Idle
  /\ provider[i] = "succeeded"
  /\ IF Known(i) /\ ~Terminal(i)
     THEN /\ MarkStatus(i, "succeeded")
          /\ loop' = [pc |-> "applying", intent |-> i]
          /\ UNCHANGED acked
     ELSE /\ acked' = [acked EXCEPT ![i] = TRUE]
          /\ UNCHANGED <<intents, loop>>
  /\ UNCHANGED <<autoConfirm, plans, subs, provider, now, applied, days>>

\* payment.canceled: mark the intent unless it is unknown or terminal.
WebhookCanceled(i) ==
  /\ loop = Idle
  /\ provider[i] = "canceled"
  /\ IF Known(i) /\ ~Terminal(i)
     THEN MarkStatus(i, "canceled")
     ELSE UNCHANGED intents
  /\ acked' = [acked EXCEPT ![i] = TRUE]
  /\ UNCHANGED <<autoConfirm, plans, subs, provider, loop, now, applied, days>>

-----------------------------------------------------------------------------
(* apply_purchase *)

\* The user's unexpired rows, and those that expire last among them.
Live(u) == {r \in subs : r.user = u /\ r.expires > now}

\* Mutant: any unexpired row will do (no ORDER BY expires_at DESC).
Latest_Unordered(u) == Live(u)

Latest(u) == {r \in Live(u) : \A s \in Live(u) : s.expires <= r.expires}

Row(u, c, start, end, i) ==
  [user |-> u, code |-> c, started |-> start, expires |-> end, payment |-> i]

\* Mutants of Purchase: an extension counts from now; another plan's row
\* changes its plan.
Purchase_FromNow(u, c, d, i) ==
  \/ /\ Live(u) = {}
     /\ subs' = subs \cup {Row(u, c, now, now + d, i)}
  \/ \E r \in Latest(u) :
       \/ /\ r.code = c
          /\ subs' = (subs \ {r}) \cup {Row(u, c, r.started, now + d, i)}
       \/ /\ r.code # c
          /\ subs' = subs \cup {Row(u, c, r.expires, r.expires + d, i)}

Purchase_Switch(u, c, d, i) ==
  \/ /\ Live(u) = {}
     /\ subs' = subs \cup {Row(u, c, now, now + d, i)}
  \/ \E r \in Latest(u) :
       subs' = (subs \ {r}) \cup {Row(u, c, r.started, r.expires + d, i)}

\* No live row: a period from now.  A live row of the same plan: that row is
\* extended.  A live row of another plan: a period stacked after it.
Purchase(u, c, d, i) ==
  \/ /\ Live(u) = {}
     /\ subs' = subs \cup {Row(u, c, now, now + d, i)}
  \/ \E r \in Latest(u) :
       \/ /\ r.code = c
          /\ subs' = (subs \ {r}) \cup {Row(u, c, r.started, r.expires + d, i)}
       \/ /\ r.code # c
          /\ subs' = subs \cup {Row(u, c, r.expires, r.expires + d, i)}

\* What the handler does once apply_purchase is over: auto-confirm returns the
\* URL whatever happened, the webhook answers 200 or, after an error, 500.
Respond(i, ok) ==
  /\ loop' = Idle
  /\ acked' = [acked EXCEPT ![i] = @ \/ (ok /\ provider[i] = "succeeded")]
  /\ Offer(i)

\* The plan is looked up again, by a transaction of its own.
ApplyPurchase(i) ==
  /\ loop = [pc |-> "applying", intent |-> i]
  /\ LET u == intents[i].user
         c == intents[i].code
         d == plans[c].duration
     IN /\ plans[c].exists /\ d # 0
        /\ Purchase(u, c, d, i)
        /\ days' = [days EXCEPT ![u] = @ + d]
  /\ applied' = applied \cup {i}
  /\ Respond(i, TRUE)
  /\ UNCHANGED <<autoConfirm, plans, intents, now>>

\* PlanNotFound, or the transaction fails.
ApplyFails(i) ==
  /\ loop = [pc |-> "applying", intent |-> i]
  /\ \/ ~plans[intents[i].code].exists
     \/ plans[intents[i].code].duration = 0
     \/ Faults
  /\ Respond(i, FALSE)
  /\ UNCHANGED <<autoConfirm, plans, intents, subs, now, applied, days>>

-----------------------------------------------------------------------------
(* The admin's catalogue: worker threads, so `loop' is not consulted *)

CreatePlan(c, d, active) ==
  /\ ~plans[c].exists
  /\ plans' = [plans EXCEPT ![c] = PlanRow(d, active)]
  /\ UNCHANGED <<autoConfirm, intents, subs, provider, acked, loop, now, applied, days>>

\* duration_days 0 in the request becomes NULL in the row.
UpdatePlan(c, d, active) ==
  /\ plans[c].exists
  /\ plans' = [plans EXCEPT ![c] = PlanRow(d, active)]
  /\ UNCHANGED <<autoConfirm, intents, subs, provider, acked, loop, now, applied, days>>

\* Mutant: a foreign key that does not restrict.
DeletePlan_NoForeignKey(c) ==
  /\ plans[c].exists
  /\ plans' = [plans EXCEPT ![c] = NoPlan]
  /\ UNCHANGED <<autoConfirm, intents, subs, provider, acked, loop, now, applied, days>>

\* The foreign key of user_subscriptions restricts the deletion; the intents
\* have none.
DeletePlan(c) ==
  /\ plans[c].exists
  /\ \A r \in subs : r.code # c
  /\ plans' = [plans EXCEPT ![c] = NoPlan]
  /\ UNCHANGED <<autoConfirm, intents, subs, provider, acked, loop, now, applied, days>>

-----------------------------------------------------------------------------
(* The provider and its users, the clock, and the process itself *)

UserPays(i) ==
  /\ provider[i] = "offered"
  /\ provider' = [provider EXCEPT ![i] = "succeeded"]
  /\ UNCHANGED <<autoConfirm, plans, intents, subs, acked, loop, now, applied, days>>

ProviderCancels(i) ==
  /\ provider[i] \in {"created", "offered"}
  /\ provider' = [provider EXCEPT ![i] = "canceled"]
  /\ UNCHANGED <<autoConfirm, plans, intents, subs, acked, loop, now, applied, days>>

Tick ==
  /\ now < MaxTime
  /\ now' = now + 1
  /\ UNCHANGED <<autoConfirm, plans, intents, subs, provider, acked, loop, applied, days>>

\* The process dies wherever it is and comes back: the handler is gone, the
\* catalogue is seeded again (a failure to seed is only logged).
Restart ==
  /\ Faults
  /\ loop' = Idle
  /\ \/ plans' = Seeded(plans)
     \/ Faults /\ UNCHANGED plans
  /\ UNCHANGED <<autoConfirm, intents, subs, provider, acked, now, applied, days>>

-----------------------------------------------------------------------------
Checkout(i) ==
  \/ PaymentCreated(i) \/ PaymentNotCreated(i)
  \/ LinkPayment(i) \/ LinkFails(i) \/ ConfirmPayment(i)

Apply(i) == ApplyPurchase(i) \/ ApplyFails(i)

Webhook(i) == WebhookSucceeded(i) \/ WebhookCanceled(i)

Admin ==
  \E c \in Edited :
    \/ \E d \in Durations \cup {0}, active \in BOOLEAN :
         CreatePlan(c, d, active) \/ UpdatePlan(c, d, active)
    \/ DeletePlan(c)

Next ==
  \/ \E i \in Intents :
       \/ \E u \in Users, c \in Codes : StartCheckout(u, c, i)
       \/ Checkout(i) \/ Webhook(i) \/ Apply(i)
       \/ UserPays(i) \/ ProviderCancels(i)
  \/ Admin \/ Tick \/ Restart

Spec == Init /\ [][Next]_vars

\* The loop finishes what it started, and the provider repeats a notification
\* until it is answered with 200.  Nobody has to check out or to pay.
Fairness ==
  \A i \in Intents :
    /\ WF_vars(Checkout(i) \/ Apply(i))
    /\ SF_vars(Webhook(i) /\ ~acked[i])

FairSpec == Spec /\ Fairness

-----------------------------------------------------------------------------
(* Properties *)

TypeOK ==
  /\ autoConfirm \in BOOLEAN
  /\ plans \in [Codes -> Plan]
  /\ intents \in [Intents -> Intent \cup {NoIntent}]
  /\ subs \subseteq Subscription
  /\ provider \in [Intents -> {"none", "created", "offered", "succeeded", "canceled"}]
  /\ acked \in [Intents -> BOOLEAN]
  /\ loop \in Busy \cup {Idle}
  /\ now \in Nat
  /\ applied \subseteq Intents
  /\ days \in [Users -> Nat]

\* Two purchases of one user never pay for the same day twice: the periods of
\* a user's rows are disjoint, whatever mixture of fresh, extended and stacked
\* rows apply_purchase wrote, and whenever it wrote them.
PeriodsDisjoint ==
  \A r, s \in subs :
    r.user = s.user /\ r # s => r.expires <= s.started \/ s.expires <= r.started

\* Paid access has no hole: as long as some row of a user is to expire later,
\* some row of the user covers each day from now to then (a stacked row starts
\* where the row it was stacked on ends).
PaidTimeContiguous ==
  \A r \in subs : \A t \in now .. r.expires - 1 :
    \E s \in subs : s.user = r.user /\ s.started <= t /\ t < s.expires

\* The paid periods of a user tile the time: they never overlap, and from now to
\* the end of the last one there is no hole.
PaidTimeTiles == PeriodsDisjoint /\ PaidTimeContiguous

\* The days on which a user has paid access, past or to come.
PaidDays(u) == UNION {r.started .. r.expires - 1 : r \in {s \in subs : s.user = u}}

\* There are exactly as many of them as the user bought: nothing that was paid
\* for is lost or counted twice, nothing is given away, whatever mixture of
\* fresh, extended and stacked rows the purchases became.
PaidTimeConserved == \A u \in Users : Cardinality(PaidDays(u)) = days[u]

\* apply_purchase commits only for an intent that was marked succeeded, which
\* (outside the auto-confirm mode) only a payment the user really made does:
\* no duplicate, late or crossed notification buys anything.
CreditedOnlyIfPaid ==
  \A i \in applied :
    /\ intents[i] # NoIntent /\ intents[i].status = "succeeded"
    /\ autoConfirm \/ provider[i] = "succeeded"

\* What a handler learned about its payment before its last transaction still
\* holds at the next one, though worker threads, the provider and the clock
\* have moved: the intent it creates, links or confirms is still pending, and
\* the one whose purchase it applies is marked, paid for and not yet applied.
HandlerViewHolds ==
  loop # Idle =>
    /\ intents[loop.intent] # NoIntent
    /\ loop.pc # "applying" => intents[loop.intent].status = "pending"
    /\ loop.pc = "confirming" => autoConfirm
    /\ loop.pc = "applying" =>
         /\ intents[loop.intent].status = "succeeded"
         /\ autoConfirm \/ provider[loop.intent] = "succeeded"
         /\ loop.intent \notin applied

\* The plan of every subscription is in the catalogue, so effective_plan, which
\* looks it up for each request of a paying user, never raises PlanNotFound,
\* whatever an admin deletes between two transactions of a purchase.
SubscribedPlanExists == \A r \in subs : plans[r.code].exists

\* A paid period is never cut short, moved or given to another plan.
PaidPeriodKept ==
  [][\A r \in subs : \E s \in subs' :
       /\ s.user = r.user /\ s.code = r.code
       /\ s.started = r.started /\ s.expires >= r.expires]_vars

\* Every payment is settled once and credited at most once, and paid time grows
\* only by crediting one: the billing tables implement the ledger.
Ledger == INSTANCE PaymentLedger WITH
  ledger <- [i \in Intents |->
               IF i \in applied THEN "credited"
               ELSE IF intents[i].status = "succeeded" THEN "settled"
               ELSE IF intents[i].status = "canceled" THEN "void"
               ELSE "open"]

ImplementsLedger == Ledger!LedgerSpec

\* The provider stops repeating a notification once it is answered with 200, so
\* that answer (a "duplicate" included) must mean that the purchase is applied.
AcknowledgedIsApplied ==
  \A i \in Intents : acked[i] /\ provider[i] = "succeeded" => i \in applied

\* A user who has paid gets the subscription.
PaidIsApplied ==
  \A i \in Intents : (provider[i] = "succeeded") ~> (i \in applied)
=============================================================================
