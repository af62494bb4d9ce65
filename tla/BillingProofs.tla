---------------------------- MODULE BillingProofs ----------------------------
(***************************************************************************)
(* Theorems about Billing, for any number of users, plans, payments and    *)
(* days, with or without an admin at work, faults and auto-confirm.        *)
(***************************************************************************)
EXTENDS Billing, FiniteSetTheorems, TLAPS

\* TypeOK alone is not inductive: that the payment a handler holds has a row is
\* known only from the handler's earlier transactions.
BillingInv == TypeOK /\ HandlerViewHolds /\ CreditedOnlyIfPaid

LEMMA BillingInvInit == Init => BillingInv
  BY BillingAssumption
  DEF Init, BillingInv, TypeOK, HandlerViewHolds, CreditedOnlyIfPaid, Seeded, SeededPlan, PlanRow,
      Plan, NoPlan, Intent, NoIntent, Subscription, Idle, Busy

\* The payment a handler is busy with has a row.
LEMMA HandlerHasIntent ==
  ASSUME TypeOK, HandlerViewHolds, NEW i \in Intents, NEW p, p # "idle",
         loop = [pc |-> p, intent |-> i]
  PROVE  intents[i] \in Intent
<1>1. loop # Idle /\ loop.intent = i
  BY DEF Idle
<1>2. intents[i] # NoIntent
  BY <1>1 DEF HandlerViewHolds
<1>3. QED
  BY <1>2 DEF TypeOK

LEMMA IntentUpdates ==
  ASSUME NEW e \in Intent
  PROVE  /\ \A st \in {"pending", "succeeded", "canceled"} :
              [e EXCEPT !.status = st] \in Intent
         /\ [e EXCEPT !.linked = TRUE] \in Intent
  BY DEF Intent

LEMMA PlanRowType ==
  ASSUME NEW d \in Nat, NEW active \in BOOLEAN
  PROVE  PlanRow(d, active) \in Plan
<1>1. PlanRow(d, TRUE) \in Plan /\ PlanRow(d, FALSE) \in Plan
  BY DEF PlanRow, Plan
<1>2. CASE active = TRUE
  BY <1>1, <1>2
<1>3. CASE active = FALSE
  BY <1>1, <1>3
<1>4. active = TRUE \/ active = FALSE
  OBVIOUS
<1>5. QED
  BY ONLY <1>2, <1>3, <1>4, Zenon

LEMMA RowType ==
  ASSUME NEW u \in Users, NEW c \in Codes, NEW t \in Nat, NEW e \in Nat, NEW i \in Intents
  PROVE  Row(u, c, t, e, i) \in Subscription
  BY DEF Row, Subscription

\* Offer keeps the type of the provider's record.
LEMMA OfferType ==
  ASSUME TypeOK, NEW i \in Intents, Offer(i)
  PROVE  provider' \in [Intents -> {"none", "created", "offered", "succeeded", "canceled"}]
  BY DEF TypeOK, Offer

LEMMA TypeOKStep == BillingInv /\ [Next]_vars => TypeOK'
<1>. USE BillingAssumption DEF TypeOK
<1>. SUFFICES ASSUME TypeOK, HandlerViewHolds, [Next]_vars PROVE TypeOK'
  BY DEF BillingInv
<1>1. ASSUME NEW i \in Intents, NEW u \in Users, NEW c \in Codes, StartCheckout(u, c, i)
      PROVE  TypeOK'
  <2>1. [status |-> "pending", user |-> u, code |-> c, linked |-> FALSE] \in Intent
    BY DEF Intent
  <2>2. [pc |-> "creating", intent |-> i] \in Busy
    BY DEF Busy
  <2>3. QED
    BY <1>1, <2>1, <2>2 DEF StartCheckout
<1>2. ASSUME NEW i \in Intents, PaymentCreated(i) PROVE TypeOK'
  BY <1>2 DEF PaymentCreated, Busy
<1>3. ASSUME NEW i \in Intents, PaymentNotCreated(i) PROVE TypeOK'
  <2>1. intents[i] \in Intent
    BY <1>3, HandlerHasIntent DEF PaymentNotCreated
  <2>2. [intents[i] EXCEPT !.status = "canceled"] \in Intent
    BY <2>1, IntentUpdates
  <2>3. QED
    BY <1>3, <2>2 DEF PaymentNotCreated
<1>4. ASSUME NEW i \in Intents, LinkPayment(i) PROVE TypeOK'
  <2>1. intents[i] \in Intent
    BY <1>4, HandlerHasIntent DEF LinkPayment
  <2>2. [intents[i] EXCEPT !.linked = TRUE] \in Intent
    BY <2>1, IntentUpdates
  <2>3. intents' \in [Intents -> Intent \cup {NoIntent}]
    BY <1>4, <2>2 DEF LinkPayment
  <2>4. loop' \in Busy \cup {Idle}
    BY <1>4 DEF LinkPayment, Busy
  <2>5. provider' \in [Intents -> {"none", "created", "offered", "succeeded", "canceled"}]
    BY <1>4, OfferType DEF LinkPayment
  <2>6. QED
    BY <1>4, <2>3, <2>4, <2>5 DEF LinkPayment
<1>5. ASSUME NEW i \in Intents, LinkFails(i) PROVE TypeOK'
  BY <1>5 DEF LinkFails
<1>6. ASSUME NEW i \in Intents, ConfirmPayment(i) PROVE TypeOK'
  <2>1. intents[i] \in Intent
    BY <1>6, HandlerHasIntent DEF ConfirmPayment
  <2>2. [intents[i] EXCEPT !.status = "succeeded"] \in Intent
    BY <2>1, IntentUpdates
  <2>3. intents' \in [Intents -> Intent \cup {NoIntent}]
    BY <1>6, <2>2 DEF ConfirmPayment, MarkStatus
  <2>4. loop' \in Busy \cup {Idle}
    BY <1>6 DEF ConfirmPayment, Busy
  <2>5. provider' \in [Intents -> {"none", "created", "offered", "succeeded", "canceled"}]
    BY <1>6, OfferType DEF ConfirmPayment
  <2>6. QED
    BY <1>6, <2>3, <2>4, <2>5 DEF ConfirmPayment
<1>7. ASSUME NEW i \in Intents, WebhookSucceeded(i) PROVE TypeOK'
  <2>1. Known(i) => [intents[i] EXCEPT !.status = "succeeded"] \in Intent
    BY IntentUpdates DEF Known
  <2>2. intents' \in [Intents -> Intent \cup {NoIntent}]
    BY <1>7, <2>1 DEF WebhookSucceeded, MarkStatus
  <2>3. loop' \in Busy \cup {Idle}
    BY <1>7 DEF WebhookSucceeded, Busy
  <2>4. acked' \in [Intents -> BOOLEAN]
    BY <1>7 DEF WebhookSucceeded
  <2>5. QED
    BY <1>7, <2>2, <2>3, <2>4 DEF WebhookSucceeded
<1>8. ASSUME NEW i \in Intents, WebhookCanceled(i) PROVE TypeOK'
  <2>1. Known(i) => [intents[i] EXCEPT !.status = "canceled"] \in Intent
    BY IntentUpdates DEF Known
  <2>2. intents' \in [Intents -> Intent \cup {NoIntent}]
    BY <1>8, <2>1 DEF WebhookCanceled, MarkStatus
  <2>3. QED
    BY <1>8, <2>2 DEF WebhookCanceled
<1>9. ASSUME NEW i \in Intents, ApplyPurchase(i) PROVE TypeOK'
  <2>. DEFINE u == intents[i].user
              c == intents[i].code
              d == plans[c].duration
  <2>1. u \in Users /\ c \in Codes
    BY <1>9, HandlerHasIntent DEF ApplyPurchase, Intent
  <2>2. d \in Nat
    BY <2>1 DEF Plan
  <2>3. Purchase(u, c, d, i)
    BY <1>9 DEF ApplyPurchase
  <2>4. ASSUME NEW r \in subs PROVE r.started \in Nat /\ r.expires \in Nat
    BY DEF Subscription
  <2>. HIDE DEF u, c, d
  <2>5. \A t, e \in Nat : Row(u, c, t, e, i) \in Subscription
    BY <2>1, RowType
  <2>6. subs' \subseteq Subscription
    BY <2>2, <2>3, <2>4, <2>5 DEF Purchase, Latest, Live
  <2>7. days' \in [Users -> Nat]
    BY <1>9, <2>1, <2>2 DEF ApplyPurchase, u, c, d
  <2>8. QED
    BY <1>9, <2>6, <2>7, OfferType DEF ApplyPurchase, Respond
<1>10. ASSUME NEW i \in Intents, ApplyFails(i) PROVE TypeOK'
  BY <1>10, OfferType DEF ApplyFails, Respond
<1>11. ASSUME NEW i \in Intents, UserPays(i) \/ ProviderCancels(i) PROVE TypeOK'
  BY <1>11 DEF UserPays, ProviderCancels
<1>12. CASE Admin
  <2>1. PICK c \in Edited :
          \/ \E d \in Durations \cup {0}, active \in BOOLEAN :
               CreatePlan(c, d, active) \/ UpdatePlan(c, d, active)
          \/ DeletePlan(c)
    BY <1>12 DEF Admin
  <2>2. c \in Codes /\ plans[c] \in Plan
    BY DEF BillingAssumption
  <2>3. ASSUME NEW d \in Durations \cup {0}, NEW active \in BOOLEAN,
               CreatePlan(c, d, active) \/ UpdatePlan(c, d, active)
        PROVE  TypeOK'
    <3>1. d \in Nat
      BY DEF BillingAssumption
    <3>2. plans' \in [Codes -> Plan]
      BY <2>2, <2>3, <3>1, PlanRowType DEF CreatePlan, UpdatePlan
    <3>3. QED
      BY <2>3, <3>2 DEF CreatePlan, UpdatePlan
  <2>4. CASE DeletePlan(c)
    <3>1. NoPlan \in Plan
      BY DEF NoPlan, Plan
    <3>2. QED
      BY <2>2, <2>4, <3>1 DEF DeletePlan
  <2>5. QED
    BY <2>1, <2>3, <2>4
<1>13. CASE Tick
  BY <1>13 DEF Tick
<1>14. CASE Restart
  <2>1. ASSUME NEW c \in Defaults PROVE SeededPlan(c) \in Plan
    BY PlanRowType DEF SeededPlan, BillingAssumption
  <2>2. Seeded(plans) \in [Codes -> Plan]
    BY <2>1 DEF Seeded
  <2>3. QED
    BY <1>14, <2>2 DEF Restart
<1>15. CASE UNCHANGED vars
  BY <1>15 DEF vars
<1>16. QED
  BY <1>1, <1>2, <1>3, <1>4, <1>5, <1>6, <1>7, <1>8, <1>9, <1>10, <1>11, <1>12,
     <1>13, <1>14, <1>15 DEF Next, Checkout, Webhook, Apply

-----------------------------------------------------------------------------
(* What a handler knows of its payment, and what has been credited *)

LEMMA HandlerStep ==
  BillingInv /\ [Next]_vars => HandlerViewHolds' /\ CreditedOnlyIfPaid'
<1>. USE DEF HandlerViewHolds, CreditedOnlyIfPaid, Idle, NoIntent
<1>. SUFFICES ASSUME TypeOK, HandlerViewHolds, CreditedOnlyIfPaid, [Next]_vars
              PROVE  HandlerViewHolds' /\ CreditedOnlyIfPaid'
  BY DEF BillingInv
<1>. USE DEF TypeOK
<1>1. ASSUME NEW i \in Intents, NEW u \in Users, NEW c \in Codes, StartCheckout(u, c, i)
      PROVE  HandlerViewHolds' /\ CreditedOnlyIfPaid'
  BY <1>1 DEF StartCheckout
<1>2. ASSUME NEW i \in Intents, PaymentCreated(i)
      PROVE  HandlerViewHolds' /\ CreditedOnlyIfPaid'
  BY <1>2 DEF PaymentCreated
<1>3. ASSUME NEW i \in Intents, PaymentNotCreated(i)
      PROVE  HandlerViewHolds' /\ CreditedOnlyIfPaid'
  BY <1>3, HandlerHasIntent DEF PaymentNotCreated, Intent
<1>4. ASSUME NEW i \in Intents, LinkPayment(i)
      PROVE  HandlerViewHolds' /\ CreditedOnlyIfPaid'
  BY <1>4, HandlerHasIntent DEF LinkPayment, Offer, Intent
<1>5. ASSUME NEW i \in Intents, LinkFails(i)
      PROVE  HandlerViewHolds' /\ CreditedOnlyIfPaid'
  BY <1>5 DEF LinkFails
<1>6. ASSUME NEW i \in Intents, ConfirmPayment(i)
      PROVE  HandlerViewHolds' /\ CreditedOnlyIfPaid'
  BY <1>6, HandlerHasIntent DEF ConfirmPayment, MarkStatus, Offer, Terminal, Intent
<1>7. ASSUME NEW i \in Intents, WebhookSucceeded(i)
      PROVE  HandlerViewHolds' /\ CreditedOnlyIfPaid'
  BY <1>7 DEF WebhookSucceeded, MarkStatus, Known, Terminal, Intent
<1>8. ASSUME NEW i \in Intents, WebhookCanceled(i)
      PROVE  HandlerViewHolds' /\ CreditedOnlyIfPaid'
  BY <1>8 DEF WebhookCanceled, MarkStatus, Known, Terminal, Intent
<1>9. ASSUME NEW i \in Intents, ApplyPurchase(i)
      PROVE  HandlerViewHolds' /\ CreditedOnlyIfPaid'
  BY <1>9 DEF ApplyPurchase, Respond, Offer
<1>10. ASSUME NEW i \in Intents, ApplyFails(i)
      PROVE  HandlerViewHolds' /\ CreditedOnlyIfPaid'
  BY <1>10 DEF ApplyFails, Respond, Offer
<1>11. ASSUME NEW i \in Intents, UserPays(i) \/ ProviderCancels(i)
      PROVE  HandlerViewHolds' /\ CreditedOnlyIfPaid'
  <2>1. \A j \in Intents : provider[j] = "succeeded" => provider'[j] = "succeeded"
    BY <1>11 DEF UserPays, ProviderCancels
  <2>2. UNCHANGED <<autoConfirm, intents, loop, applied>>
    BY <1>11 DEF UserPays, ProviderCancels
  <2>3. loop # Idle => loop.intent \in Intents
    BY DEF Busy
  <2>4. HandlerViewHolds'
    BY <2>1, <2>2, <2>3
  <2>5. CreditedOnlyIfPaid'
    BY <2>1, <2>2
  <2>6. QED
    BY <2>4, <2>5
<1>12. CASE Admin
  BY <1>12 DEF Admin, CreatePlan, UpdatePlan, DeletePlan
<1>13. CASE Tick
  BY <1>13 DEF Tick
<1>14. CASE Restart
  BY <1>14 DEF Restart
<1>15. CASE UNCHANGED vars
  BY <1>15 DEF vars
<1>16. QED
  BY <1>1, <1>2, <1>3, <1>4, <1>5, <1>6, <1>7, <1>8, <1>9, <1>10, <1>11, <1>12,
     <1>13, <1>14, <1>15 DEF Next, Checkout, Webhook, Apply

LEMMA BillingInvariant == Spec => []BillingInv
<1>1. BillingInv /\ [Next]_vars => BillingInv'
  BY TypeOKStep, HandlerStep DEF BillingInv
<1>2. QED
  BY <1>1, BillingInvInit, PTL DEF Spec

\* The tables, the handler and the history keep their types.
THEOREM BillingTypeOK == Spec => []TypeOK
<1>1. BillingInv => TypeOK
  BY DEF BillingInv
<1>2. QED
  BY <1>1, BillingInvariant, PTL

\* Nothing moves under a handler between its transactions.
THEOREM BillingHandlerViewHolds == Spec => []HandlerViewHolds
<1>1. BillingInv => HandlerViewHolds
  BY DEF BillingInv
<1>2. QED
  BY <1>1, BillingInvariant, PTL

\* Only a payment that was made, and marked so, is ever credited.
THEOREM BillingCreditedOnlyIfPaid == Spec => []CreditedOnlyIfPaid
<1>1. BillingInv => CreditedOnlyIfPaid
  BY DEF BillingInv
<1>2. QED
  BY <1>1, BillingInvariant, PTL

-----------------------------------------------------------------------------
(* The periods of a user's subscriptions *)

\* Every transaction but apply_purchase leaves the subscriptions alone, and
\* nothing but the passing of time moves the clock.
LEMMA OtherSteps ==
  ASSUME [Next]_vars
  PROVE  \/ \E i \in Intents : ApplyPurchase(i)
         \/ Tick
         \/ UNCHANGED <<subs, now>>
<1>1. ASSUME NEW i \in Intents, NEW u \in Users, NEW c \in Codes, StartCheckout(u, c, i)
      PROVE  UNCHANGED <<subs, now>>
  BY <1>1 DEF StartCheckout
<1>2. ASSUME NEW i \in Intents, Checkout(i) \/ Webhook(i) \/ ApplyFails(i)
      PROVE  UNCHANGED <<subs, now>>
  BY <1>2 DEF Checkout, PaymentCreated, PaymentNotCreated, LinkPayment, LinkFails,
              ConfirmPayment, Webhook, WebhookSucceeded, WebhookCanceled, ApplyFails
<1>3. ASSUME NEW i \in Intents, UserPays(i) \/ ProviderCancels(i)
      PROVE  UNCHANGED <<subs, now>>
  BY <1>3 DEF UserPays, ProviderCancels
<1>4. CASE Admin \/ Restart
  BY <1>4 DEF Admin, CreatePlan, UpdatePlan, DeletePlan, Restart
<1>5. CASE UNCHANGED vars
  BY <1>5 DEF vars
<1>6. QED
  BY <1>1, <1>2, <1>3, <1>4, <1>5 DEF Next, Apply

\* Disjointness needs non-empty periods: a row that expires last then starts
\* after every other row of its user has ended.
PeriodInv ==
  /\ \A r \in subs : r.started < r.expires
  /\ PeriodsDisjoint
  /\ PaidTimeContiguous

\* The three ways apply_purchase writes a row keep the periods in order.
LEMMA PurchaseKeepsPeriods ==
  ASSUME TypeOK, PeriodInv, now' = now,
         NEW u \in Users, NEW c \in Codes, NEW d \in Nat \ {0}, NEW i \in Intents,
         Purchase(u, c, d, i)
  PROVE  PeriodInv'
<1>. USE DEF PeriodInv, PeriodsDisjoint, PaidTimeContiguous
<1>1. now \in Nat /\ \A r \in subs : r.started \in Nat /\ r.expires \in Nat
  BY DEF TypeOK, Subscription
<1>2. CASE Live(u) = {} /\ subs' = subs \cup {Row(u, c, now, now + d, i)}
  <2>. DEFINE n == Row(u, c, now, now + d, i)
  <2>1. n.user = u /\ n.started = now /\ n.expires = now + d
    BY DEF Row
  <2>2. \A r \in subs : r.user = u => r.expires <= now
    BY <1>1, <1>2 DEF Live
  <2>. HIDE DEF n
  <2>3. subs' = subs \cup {n}
    BY <1>2 DEF n
  <2>4. (\A r \in subs : r.started < r.expires)'
    BY <1>1, <2>1, <2>3
  <2>5. PeriodsDisjoint'
    BY <1>1, <2>1, <2>2, <2>3
  <2>6. PaidTimeContiguous'
    BY <1>1, <2>1, <2>2, <2>3
  <2>7. QED
    BY <2>4, <2>5, <2>6
<1>3. ASSUME NEW r \in Latest(u)
      PROVE  /\ r \in subs /\ r.user = u /\ r.expires > now
             /\ \A s \in subs : s.user = u => s.expires <= r.expires
             /\ \A s \in subs : s.user = u /\ s # r => s.expires <= r.started
  <2>1. r \in subs /\ r.user = u /\ r.expires > now
    BY DEF Latest, Live
  <2>2. \A s \in subs : s.user = u => s.expires <= r.expires
    BY <1>1, <2>1 DEF Latest, Live
  <2>3. QED
    BY <1>1, <2>1, <2>2
<1>4. ASSUME NEW r \in Latest(u),
             subs' = (subs \ {r}) \cup {Row(u, c, r.started, r.expires + d, i)}
      PROVE  PeriodInv'
  <2>. DEFINE n == Row(u, c, r.started, r.expires + d, i)
  <2>1. n.user = u /\ n.started = r.started /\ n.expires = r.expires + d
    BY DEF Row
  <2>. HIDE DEF n
  <2>2. subs' = (subs \ {r}) \cup {n}
    BY <1>4 DEF n
  <2>3. (\A s \in subs : s.started < s.expires)'
    BY <1>1, <1>3, <2>1, <2>2
  <2>4. PeriodsDisjoint'
    BY <1>1, <1>3, <2>1, <2>2
  <2>5. PaidTimeContiguous'
    <3>. SUFFICES ASSUME NEW q \in subs', NEW t \in now' .. q.expires - 1
                  PROVE  \E s \in subs' : s.user = q.user /\ s.started <= t /\ t < s.expires
      OBVIOUS
    <3>1. t \in Int /\ now <= t /\ t < q.expires
      BY <1>1, <1>3, <2>1, <2>2
    <3>2. CASE q \in subs
      <4>1. t \in now .. q.expires - 1
        BY <1>1, <3>1, <3>2
      <4>2. PICK s \in subs : s.user = q.user /\ s.started <= t /\ t < s.expires
        BY <3>2, <4>1
      <4>3. QED
        BY <1>1, <1>3, <2>1, <2>2, <3>1, <4>2
    <3>3. CASE q = n /\ t < r.expires
      <4>1. t \in now .. r.expires - 1
        BY <1>1, <1>3, <3>1, <3>3
      <4>2. PICK s \in subs : s.user = r.user /\ s.started <= t /\ t < s.expires
        BY <1>3, <4>1
      <4>3. QED
        BY <1>1, <1>3, <2>1, <2>2, <3>1, <3>3, <4>2
    <3>4. CASE q = n /\ r.expires <= t
      BY <1>1, <1>3, <2>1, <2>2, <3>1, <3>4
    <3>5. QED
      BY <1>1, <1>3, <2>2, <3>1, <3>2, <3>3, <3>4
  <2>6. QED
    BY <2>3, <2>4, <2>5
<1>5. ASSUME NEW r \in Latest(u),
             subs' = subs \cup {Row(u, c, r.expires, r.expires + d, i)}
      PROVE  PeriodInv'
  <2>. DEFINE n == Row(u, c, r.expires, r.expires + d, i)
  <2>1. n.user = u /\ n.started = r.expires /\ n.expires = r.expires + d
    BY DEF Row
  <2>. HIDE DEF n
  <2>2. subs' = subs \cup {n}
    BY <1>5 DEF n
  <2>3. (\A s \in subs : s.started < s.expires)'
    BY <1>1, <1>3, <2>1, <2>2
  <2>4. PeriodsDisjoint'
    BY <1>1, <1>3, <2>1, <2>2
  <2>5. PaidTimeContiguous'
    <3>. SUFFICES ASSUME NEW q \in subs', NEW t \in now' .. q.expires - 1
                  PROVE  \E s \in subs' : s.user = q.user /\ s.started <= t /\ t < s.expires
      OBVIOUS
    <3>1. t \in Int /\ now <= t /\ t < q.expires
      BY <1>1, <1>3, <2>1, <2>2
    <3>2. CASE q \in subs
      BY <1>1, <2>2, <3>1, <3>2
    <3>3. CASE q = n /\ t < r.expires
      BY <1>1, <1>3, <2>1, <2>2, <3>1, <3>3
    <3>4. CASE q = n /\ r.expires <= t
      BY <1>1, <1>3, <2>1, <2>2, <3>1, <3>4
    <3>5. QED
      BY <1>1, <1>3, <2>2, <3>1, <3>2, <3>3, <3>4
  <2>6. QED
    BY <2>3, <2>4, <2>5
<1>6. QED
  BY <1>2, <1>4, <1>5 DEF Purchase

LEMMA PeriodStep == BillingInv /\ PeriodInv /\ [Next]_vars => PeriodInv'
<1>. SUFFICES ASSUME BillingInv, PeriodInv, [Next]_vars PROVE PeriodInv'
  OBVIOUS
<1>1. ASSUME NEW i \in Intents, ApplyPurchase(i) PROVE PeriodInv'
  <2>1. intents[i] \in Intent
    BY <1>1, HandlerHasIntent DEF ApplyPurchase, BillingInv
  <2>2. intents[i].user \in Users /\ intents[i].code \in Codes
    BY <2>1 DEF Intent
  <2>3. plans[intents[i].code].duration \in Nat \ {0}
    BY <1>1, <2>2 DEF ApplyPurchase, BillingInv, TypeOK, Plan
  <2>4. QED
    BY <1>1, <2>2, <2>3, PurchaseKeepsPeriods DEF ApplyPurchase, BillingInv
<1>2. CASE Tick
  <2>1. now \in Nat /\ \A r \in subs : r.started \in Nat /\ r.expires \in Nat
    BY DEF BillingInv, TypeOK, Subscription
  <2>2. \A r \in subs : now' .. r.expires - 1 \subseteq now .. r.expires - 1
    BY <1>2, <2>1 DEF Tick
  <2>3. QED
    BY <1>2, <2>2 DEF Tick, PeriodInv, PeriodsDisjoint, PaidTimeContiguous
<1>3. CASE UNCHANGED <<subs, now>>
  BY <1>3 DEF PeriodInv, PeriodsDisjoint, PaidTimeContiguous
<1>4. QED
  BY <1>1, <1>2, <1>3, OtherSteps

LEMMA PeriodInvariant == Spec => []PeriodInv
<1>1. Init => PeriodInv
  BY DEF Init, PeriodInv, PeriodsDisjoint, PaidTimeContiguous
<1>2. QED
  BY <1>1, PeriodStep, BillingInvariant, PTL DEF Spec

\* However purchases, days and faults interleave, a user never pays twice for
\* the same day.
THEOREM BillingPeriodsDisjoint == Spec => []PeriodsDisjoint
<1>1. PeriodInv => PeriodsDisjoint
  BY DEF PeriodInv
<1>2. QED
  BY <1>1, PeriodInvariant, PTL

\* Nor does paid access have a hole before the last row expires.
THEOREM BillingPaidTimeContiguous == Spec => []PaidTimeContiguous
<1>1. PeriodInv => PaidTimeContiguous
  BY DEF PeriodInv
<1>2. QED
  BY <1>1, PeriodInvariant, PTL

\* Together: the paid periods of a user tile the time.
THEOREM BillingPaidTimeTiles == Spec => []PaidTimeTiles
<1>1. PeriodInv => PaidTimeTiles
  BY DEF PeriodInv, PaidTimeTiles
<1>2. QED
  BY <1>1, PeriodInvariant, PTL

-----------------------------------------------------------------------------
(* The days that were paid for *)

Conserved ==
  \A u \in Users : IsFiniteSet(PaidDays(u)) /\ Cardinality(PaidDays(u)) = days[u]

\* A day is paid for by a row whose period it is in.
LEMMA PaidDay ==
  ASSUME NEW u, NEW t
  PROVE  t \in PaidDays(u) <=>
           \E r \in subs : r.user = u /\ t \in r.started .. r.expires - 1
BY DEF PaidDays

\* Whichever way apply_purchase writes a row, its d days follow the days the
\* user had, and those of the others stay.
LEMMA PurchaseAddsDays ==
  ASSUME TypeOK, PeriodInv,
         NEW u \in Users, NEW c \in Codes, NEW d \in Nat \ {0}, NEW i \in Intents,
         Purchase(u, c, d, i)
  PROVE  /\ \E a \in Nat : /\ PaidDays(u)' = PaidDays(u) \cup (a .. a + d - 1)
                           /\ PaidDays(u) \cap (a .. a + d - 1) = {}
         /\ \A w \in Users \ {u} : PaidDays(w)' = PaidDays(w)
<1>1. now \in Nat /\ \A r \in subs : r.started \in Nat /\ r.expires \in Nat
  BY DEF TypeOK, Subscription
<1>2. \A w, t : t \in PaidDays(w)' <=>
                \E r \in subs' : r.user = w /\ t \in r.started .. r.expires - 1
  BY DEF PaidDays
<1>3. CASE Live(u) = {} /\ subs' = subs \cup {Row(u, c, now, now + d, i)}
  <2> PICK n : n = Row(u, c, now, now + d, i)
    OBVIOUS
  <2>1. n.user = u /\ n.started = now /\ n.expires = now + d /\ subs' = subs \cup {n}
    BY <1>3 DEF Row
  <2>2. \A r \in subs : r.user = u => r.expires <= now
    BY <1>1, <1>3 DEF Live
  <2>3. \A w, t : (\E s \in subs' : s.user = w /\ t \in s.started .. s.expires - 1) <=>
                  \/ \E s \in subs : s.user = w /\ t \in s.started .. s.expires - 1
                  \/ w = u /\ t \in now .. now + d - 1
    <3>1. n.started .. n.expires - 1 = now .. now + d - 1
      BY <1>1, <2>1
    <3> QED
      BY <2>1, <3>1
  <2>4. \A w, t : t \in PaidDays(w)' <=> t \in PaidDays(w) \/ (w = u /\ t \in now .. now + d - 1)
    BY <1>2, <2>3, PaidDay
  <2>5. PaidDays(u) \cap (now .. now + d - 1) = {}
    BY <1>1, <2>2, PaidDay
  <2> QED
    BY <1>1, <2>4, <2>5
<1>4. ASSUME NEW r \in Latest(u)
      PROVE  /\ r \in subs /\ r.user = u /\ r.started < r.expires
             /\ \A s \in subs : s.user = u => s.expires <= r.expires
  <2>1. r \in subs /\ r.user = u /\ r.expires > now
    BY DEF Latest, Live
  <2>2. \A s \in subs : s.user = u => s.expires <= r.expires
    BY <1>1, <2>1 DEF Latest, Live
  <2> QED
    BY <2>1, <2>2 DEF PeriodInv
<1>5. ASSUME NEW r \in Latest(u) PROVE PaidDays(u) \cap (r.expires .. r.expires + d - 1) = {}
  <2>1. \A t \in PaidDays(u) : t < r.expires
    BY <1>1, <1>4, PaidDay
  <2> QED
    BY <1>1, <1>4, <2>1
<1>6. ASSUME NEW r \in Latest(u),
             subs' = (subs \ {r}) \cup {Row(u, c, r.started, r.expires + d, i)}
      PROVE  \A w, t : t \in PaidDays(w)' <=>
                       t \in PaidDays(w) \/ (w = u /\ t \in r.expires .. r.expires + d - 1)
  <2> PICK n : n = Row(u, c, r.started, r.expires + d, i)
    OBVIOUS
  <2>1. n.user = u /\ n.started = r.started /\ n.expires = r.expires + d /\ subs' = (subs \ {r}) \cup {n}
    BY <1>6 DEF Row
  <2>2. \A t : t \in n.started .. n.expires - 1 <=>
               t \in r.started .. r.expires - 1 \/ t \in r.expires .. r.expires + d - 1
    BY <1>1, <1>4, <2>1
  <2>3. \A w, t : (\E s \in subs' : s.user = w /\ t \in s.started .. s.expires - 1) <=>
                  \/ \E s \in subs : s.user = w /\ t \in s.started .. s.expires - 1
                  \/ w = u /\ t \in r.expires .. r.expires + d - 1
    BY <1>4, <2>1, <2>2
  <2> QED
    BY <1>2, <2>3, PaidDay
<1>7. ASSUME NEW r \in Latest(u),
             subs' = subs \cup {Row(u, c, r.expires, r.expires + d, i)}
      PROVE  \A w, t : t \in PaidDays(w)' <=>
                       t \in PaidDays(w) \/ (w = u /\ t \in r.expires .. r.expires + d - 1)
  <2> PICK n : n = Row(u, c, r.expires, r.expires + d, i)
    OBVIOUS
  <2>1. n.user = u /\ n.started = r.expires /\ n.expires = r.expires + d /\ subs' = subs \cup {n}
    BY <1>7 DEF Row
  <2>2. \A w, t : (\E s \in subs' : s.user = w /\ t \in s.started .. s.expires - 1) <=>
                  \/ \E s \in subs : s.user = w /\ t \in s.started .. s.expires - 1
                  \/ w = u /\ t \in r.expires .. r.expires + d - 1
    <3>1. n.started .. n.expires - 1 = r.expires .. r.expires + d - 1
      BY <1>1, <1>4, <2>1
    <3> QED
      BY <2>1, <3>1
  <2> QED
    BY <1>2, <2>2, PaidDay
<1>8. CASE \E r \in Latest(u) :
             \/ subs' = (subs \ {r}) \cup {Row(u, c, r.started, r.expires + d, i)}
             \/ subs' = subs \cup {Row(u, c, r.expires, r.expires + d, i)}
  <2>1. PICK r \in Latest(u) :
          \A w, t : t \in PaidDays(w)' <=>
                    t \in PaidDays(w) \/ (w = u /\ t \in r.expires .. r.expires + d - 1)
    BY <1>6, <1>7, <1>8
  <2>2. r.expires \in Nat /\ PaidDays(u) \cap (r.expires .. r.expires + d - 1) = {}
    BY <1>1, <1>4, <1>5
  <2> QED
    BY <2>1, <2>2
<1> QED
  BY <1>3, <1>8 DEF Purchase

LEMMA ConservedStep == BillingInv /\ PeriodInv /\ Conserved /\ [Next]_vars => Conserved'
<1> SUFFICES ASSUME BillingInv, PeriodInv, Conserved, [Next]_vars PROVE Conserved'
  OBVIOUS
<1>1. ASSUME NEW i \in Intents, ApplyPurchase(i) PROVE Conserved'
  <2> PICK u, c, d : u = intents[i].user /\ c = intents[i].code /\ d = plans[intents[i].code].duration
    OBVIOUS
  <2>1. intents[i] \in Intent
    BY <1>1, HandlerHasIntent DEF ApplyPurchase, BillingInv
  <2>2. u \in Users /\ c \in Codes
    BY <2>1 DEF Intent
  <2>3. d \in Nat \ {0} /\ Purchase(u, c, d, i) /\ days' = [days EXCEPT ![u] = @ + d]
    BY <1>1, <2>2 DEF ApplyPurchase, BillingInv, TypeOK, Plan
  <2>4. PICK a \in Nat : /\ PaidDays(u)' = PaidDays(u) \cup (a .. a + d - 1)
                         /\ PaidDays(u) \cap (a .. a + d - 1) = {}
    BY <2>2, <2>3, PurchaseAddsDays DEF BillingInv
  <2>5. \A w \in Users \ {u} : PaidDays(w)' = PaidDays(w)
    BY <2>2, <2>3, PurchaseAddsDays DEF BillingInv
  <2>6. days \in [Users -> Nat]
    BY DEF BillingInv, TypeOK
  <2>7. IsFiniteSet(a .. a + d - 1) /\ Cardinality(a .. a + d - 1) = d
    <3>1. a \in Int /\ a + d - 1 \in Int /\ ~(a > a + d - 1) /\ (a + d - 1) - a + 1 = d
      BY <2>3
    <3> QED
      BY <3>1, FS_Interval
  <2>8. IsFiniteSet(PaidDays(u))' /\ Cardinality(PaidDays(u))' = days[u] + d
    <3>1. IsFiniteSet(PaidDays(u)) /\ Cardinality(PaidDays(u)) = days[u]
      BY <2>2 DEF Conserved
    <3> PICK more : more = a .. a + d - 1
      OBVIOUS
    <3>2. Cardinality(PaidDays(u) \cap more) = 0
      BY <2>4, FS_EmptySet
    <3>3. /\ IsFiniteSet(PaidDays(u) \cup more)
          /\ Cardinality(PaidDays(u) \cup more) =
               Cardinality(PaidDays(u)) + Cardinality(more) - Cardinality(PaidDays(u) \cap more)
      BY <2>7, <3>1, FS_Union
    <3>4. days[u] \in Nat /\ d \in Nat
      BY <2>2, <2>3, <2>6
    <3> QED
      BY <2>4, <2>7, <3>1, <3>2, <3>3, <3>4
  <2> QED
    BY <2>2, <2>3, <2>5, <2>6, <2>8 DEF Conserved
<1>2. ASSUME subs' = subs, days' = days PROVE Conserved'
  <2>1. \A u : PaidDays(u)' = PaidDays(u)
    BY <1>2 DEF PaidDays
  <2> QED
    BY <1>2, <2>1 DEF Conserved
<1>3. ASSUME NEW i \in Intents, NEW u \in Users, NEW c \in Codes, StartCheckout(u, c, i)
      PROVE  Conserved'
  BY <1>2, <1>3 DEF StartCheckout
<1>4. ASSUME NEW i \in Intents, Checkout(i) \/ Webhook(i) \/ ApplyFails(i)
      PROVE  Conserved'
  BY <1>2, <1>4 DEF Checkout, PaymentCreated, PaymentNotCreated, LinkPayment, LinkFails,
    ConfirmPayment, Webhook, WebhookSucceeded, WebhookCanceled, ApplyFails
<1>5. ASSUME NEW i \in Intents, UserPays(i) \/ ProviderCancels(i) PROVE Conserved'
  BY <1>2, <1>5 DEF UserPays, ProviderCancels
<1>6. CASE Admin \/ Restart \/ Tick
  BY <1>2, <1>6 DEF Admin, CreatePlan, UpdatePlan, DeletePlan, Restart, Tick
<1>7. CASE UNCHANGED vars
  BY <1>2, <1>7 DEF vars
<1> QED
  BY <1>1, <1>3, <1>4, <1>5, <1>6, <1>7 DEF Next, Apply

\* The days of paid access a user has are exactly as many as the user bought,
\* through every mixture of fresh, extended and stacked rows.
THEOREM BillingPaidTimeConserved == Spec => []PaidTimeConserved
<1>1. Init => Conserved
  <2>1. ASSUME Init, NEW u \in Users PROVE PaidDays(u) = {} /\ days[u] = 0
    BY <2>1 DEF Init, PaidDays
  <2> QED
    BY <2>1, FS_EmptySet DEF Conserved
<1>2. Conserved => PaidTimeConserved
  BY DEF Conserved, PaidTimeConserved
<1> QED
  BY <1>1, <1>2, ConservedStep, BillingInvariant, PeriodInvariant, PTL DEF Spec

-----------------------------------------------------------------------------
(* The catalogue under the subscriptions *)

\* A subscription never loses its plan: the foreign key stops the admin, and a
\* plan deleted before the purchase is applied stops the purchase.
THEOREM BillingSubscribedPlanExists == Spec => []SubscribedPlanExists
<1>1. Init => SubscribedPlanExists
  BY DEF Init, SubscribedPlanExists
<1>2. ASSUME BillingInv, SubscribedPlanExists, [Next]_vars
      PROVE  SubscribedPlanExists'
  <2>. USE <1>2 DEF SubscribedPlanExists
  <2>1. \A r \in subs : r.code \in Codes
    BY DEF BillingInv, TypeOK, Subscription
  <2>2. ASSUME NEW i \in Intents, ApplyPurchase(i) PROVE SubscribedPlanExists'
    <3>. DEFINE c == intents[i].code
    <3>1. plans[c].exists /\ plans' = plans
      BY <2>2 DEF ApplyPurchase
    <3>2. \A r \in subs' : r \in subs \/ r.code = c
      BY <2>2 DEF ApplyPurchase, Purchase, Latest, Live, Row
    <3>3. QED
      BY <3>1, <3>2
  <2>3. ASSUME NEW d, NEW active, NEW k \in Edited, CreatePlan(k, d, active) \/ UpdatePlan(k, d, active)
        PROVE  SubscribedPlanExists'
    BY <2>1, <2>3, BillingAssumption DEF CreatePlan, UpdatePlan, PlanRow, BillingInv, TypeOK
  <2>4. ASSUME NEW k \in Edited, DeletePlan(k) PROVE SubscribedPlanExists'
    BY <2>1, <2>4, BillingAssumption DEF DeletePlan, BillingInv, TypeOK
  <2>5. CASE Restart
    BY <2>1, <2>5 DEF Restart, Seeded
  <2>6. ASSUME NEW i \in Intents, NEW u \in Users, NEW c \in Codes, StartCheckout(u, c, i)
        PROVE  SubscribedPlanExists'
    BY <2>6 DEF StartCheckout
  <2>7. ASSUME NEW i \in Intents, Checkout(i) \/ Webhook(i) \/ ApplyFails(i)
        PROVE  SubscribedPlanExists'
    BY <2>7 DEF Checkout, PaymentCreated, PaymentNotCreated, LinkPayment, LinkFails,
                ConfirmPayment, Webhook, WebhookSucceeded, WebhookCanceled, ApplyFails
  <2>8. ASSUME NEW i \in Intents, UserPays(i) \/ ProviderCancels(i)
        PROVE  SubscribedPlanExists'
    BY <2>8 DEF UserPays, ProviderCancels
  <2>9. CASE Tick
    BY <2>9 DEF Tick
  <2>10. CASE UNCHANGED vars
    BY <2>10 DEF vars
  <2>11. QED
    BY <2>2, <2>3, <2>4, <2>5, <2>6, <2>7, <2>8, <2>9, <2>10 DEF Next, Admin, Apply
<1>3. QED
  BY <1>1, <1>2, BillingInvariant, PTL DEF Spec

-----------------------------------------------------------------------------
(* What no step may do to a period that was paid for *)

\* A paid period is kept by every step; only its end may move, forward.
THEOREM BillingPaidPeriodKept == Spec => PaidPeriodKept
<1>. DEFINE Kept(S, T) == \A r \in S : \E s \in T :
              /\ s.user = r.user /\ s.code = r.code
              /\ s.started = r.started /\ s.expires >= r.expires
<1>1. ASSUME BillingInv, [Next]_vars PROVE Kept(subs, subs')
  <2>1. \A r \in subs : r.started \in Nat /\ r.expires \in Nat
    BY <1>1 DEF BillingInv, TypeOK, Subscription
  <2>2. CASE subs \subseteq subs'
    BY <2>1, <2>2
  <2>3. ASSUME NEW i \in Intents, ApplyPurchase(i) PROVE Kept(subs, subs')
    <3>. DEFINE u == intents[i].user
                c == intents[i].code
                d == plans[c].duration
    <3>1. intents[i] \in Intent
      BY <1>1, <2>3, HandlerHasIntent DEF ApplyPurchase, BillingInv
    <3>2. d \in Nat
      BY <1>1, <3>1 DEF BillingInv, TypeOK, Plan, Intent
    <3>3. ASSUME NEW r \in subs, r.user = u, r.code = c,
                 subs' = (subs \ {r}) \cup {Row(u, c, r.started, r.expires + d, i)}
          PROVE  Kept(subs, subs')
      <4>. DEFINE n == Row(u, c, r.started, r.expires + d, i)
      <4>1. n \in subs' /\ n.user = r.user /\ n.code = r.code
            /\ n.started = r.started /\ n.expires = r.expires + d
        BY <3>3 DEF Row
      <4>2. n.expires >= r.expires
        BY <2>1, <3>2, <4>1
      <4>3. \A q \in subs : q # r => q \in subs'
        BY <3>3
      <4>. HIDE DEF n
      <4>4. QED
        BY <2>1, <4>1, <4>2, <4>3
    <3>4. QED
      BY <2>2, <2>3, <3>3 DEF ApplyPurchase, Purchase, Latest, Live
  <2>4. CASE Tick
    BY <2>2, <2>4 DEF Tick
  <2>5. QED
    BY <1>1, <2>2, <2>3, <2>4, OtherSteps
<1>2. QED
  BY <1>1, BillingInvariant, PTL DEF Spec, PaidPeriodKept

-----------------------------------------------------------------------------
(* A process that stays up over a catalogue nobody edits *)

Untouched == plans = Seeded([c \in Codes |-> NoPlan])

\* What was ordered can be bought.
Buyable ==
  \A i \in Intents :
    intents[i] # NoIntent => plans[intents[i].code].exists /\ plans[intents[i].code].duration # 0

AckedIsOver == \A i \in Intents : acked[i] => provider[i] \in {"succeeded", "canceled"}

\* What the user can pay for is known by its id.
OfferedIsKnown ==
  \A i \in Intents :
    provider[i] \in {"offered", "succeeded"} => Known(i) /\ intents[i].status # "canceled"

MarkedIsApplied ==
  \A i \in Intents :
    intents[i] # NoIntent /\ intents[i].status = "succeeded" =>
      i \in applied \/ loop = [pc |-> "applying", intent |-> i]

HandledIsLinked == loop # Idle /\ loop.pc \in {"confirming", "applying"} => intents[loop.intent].linked

Fresh ==
  \A i \in Intents :
    intents[i] = NoIntent \/ loop = [pc |-> "creating", intent |-> i] => provider[i] = "none"

ServedInv ==
  /\ Untouched /\ Buyable /\ Fresh /\ AckedIsOver /\ OfferedIsKnown /\ MarkedIsApplied /\ HandledIsLinked
  /\ AcknowledgedIsApplied

LEMMA ServedInit == Init => ServedInv
<1> SUFFICES ASSUME Init PROVE ServedInv
  OBVIOUS
<1>1. plans = Seeded([c \in Codes |-> NoPlan]) /\ loop = Idle
  BY DEF Init
<1>2. \A i \in Intents : intents[i] = NoIntent /\ ~acked[i] /\ provider[i] = "none"
  BY DEF Init
<1> QED
  BY <1>1, <1>2 DEF ServedInv, Untouched, Buyable, Fresh, AckedIsOver, OfferedIsKnown, MarkedIsApplied,
    HandledIsLinked, AcknowledgedIsApplied

LEMMA ServedStep ==
  ASSUME Edited = {}, ~Faults, BillingInv, ServedInv, [Next]_vars
  PROVE  ServedInv'
<1> USE DEF ServedInv, Untouched, Buyable, Fresh, AckedIsOver, OfferedIsKnown, MarkedIsApplied,
    HandledIsLinked, AcknowledgedIsApplied, NoIntent, Idle, Known
<1>0. TypeOK /\ HandlerViewHolds
  BY DEF BillingInv
<1>1. ASSUME NEW i \in Intents, NEW u \in Users, NEW c \in Codes, StartCheckout(u, c, i) PROVE ServedInv'
  BY <1>0, <1>1, HandlerHasIntent DEF StartCheckout, Purchasable, TypeOK
<1>2. ASSUME NEW i \in Intents, PaymentCreated(i) PROVE ServedInv'
  <2>1. Untouched' /\ Buyable'
    BY <1>0, <1>2, HandlerHasIntent DEF PaymentCreated, TypeOK, HandlerViewHolds
  <2>2. Fresh' /\ AckedIsOver'
    BY <1>0, <1>2, HandlerHasIntent DEF PaymentCreated, TypeOK, HandlerViewHolds
  <2>3. OfferedIsKnown'
    BY <1>0, <1>2, HandlerHasIntent DEF PaymentCreated, TypeOK, HandlerViewHolds
  <2>4. MarkedIsApplied'
    BY <1>0, <1>2, HandlerHasIntent DEF PaymentCreated, TypeOK, HandlerViewHolds
  <2>5. HandledIsLinked'
    BY <1>0, <1>2, HandlerHasIntent DEF PaymentCreated, TypeOK, HandlerViewHolds
  <2>6. AcknowledgedIsApplied'
    BY <1>0, <1>2, HandlerHasIntent DEF PaymentCreated, TypeOK, HandlerViewHolds
  <2> QED
    BY <2>1, <2>2, <2>3, <2>4, <2>5, <2>6
<1>3. ASSUME NEW i \in Intents, PaymentNotCreated(i) PROVE ServedInv'
  <2>1. Untouched' /\ Buyable'
    BY <1>0, <1>3, HandlerHasIntent DEF PaymentNotCreated, Intent, TypeOK, HandlerViewHolds
  <2>2. Fresh' /\ AckedIsOver'
    BY <1>0, <1>3, HandlerHasIntent DEF PaymentNotCreated, Intent, TypeOK, HandlerViewHolds
  <2>3. OfferedIsKnown'
    BY <1>0, <1>3, HandlerHasIntent DEF PaymentNotCreated, Intent, TypeOK, HandlerViewHolds
  <2>4. MarkedIsApplied'
    BY <1>0, <1>3, HandlerHasIntent DEF PaymentNotCreated, Intent, TypeOK, HandlerViewHolds
  <2>5. HandledIsLinked'
    BY <1>0, <1>3, HandlerHasIntent DEF PaymentNotCreated, Intent, TypeOK, HandlerViewHolds
  <2>6. AcknowledgedIsApplied'
    BY <1>0, <1>3, HandlerHasIntent DEF PaymentNotCreated, Intent, TypeOK, HandlerViewHolds
  <2> QED
    BY <2>1, <2>2, <2>3, <2>4, <2>5, <2>6
<1>4. ASSUME NEW i \in Intents, LinkPayment(i) PROVE ServedInv'
  <2>1. Untouched' /\ Buyable'
    BY <1>0, <1>4, HandlerHasIntent DEF LinkPayment, Offer, Intent, TypeOK, HandlerViewHolds
  <2>2. Fresh' /\ AckedIsOver'
    <3>1. intents'[i] # NoIntent
      <4>1. intents'[i].status # "none"
        BY <1>0, <1>4, HandlerHasIntent DEF LinkPayment, Offer, Intent, TypeOK, HandlerViewHolds
      <4> QED
        BY <4>1
    <3>2. \A j \in Intents \ {i} : intents'[j] = intents[j]
      BY <1>0, <1>4, HandlerHasIntent DEF LinkPayment, Offer, Intent, TypeOK, HandlerViewHolds
    <3>3. \A j \in Intents \ {i} : provider'[j] = provider[j]
      BY <1>0, <1>4, HandlerHasIntent DEF LinkPayment, Offer, Intent, TypeOK, HandlerViewHolds
    <3>4. \A j : loop' # [pc |-> "creating", intent |-> j]
      <4>1. loop'.pc # "creating"
        BY <1>0, <1>4, HandlerHasIntent DEF LinkPayment, Offer, Intent, TypeOK, HandlerViewHolds
      <4> QED
        BY <4>1
    <3>5. Fresh'
      BY <3>1, <3>2, <3>3, <3>4
    <3>6. AckedIsOver'
      BY <1>0, <1>4, HandlerHasIntent DEF LinkPayment, Offer, Intent, TypeOK, HandlerViewHolds
    <3> QED
      BY <3>5, <3>6
  <2>3. OfferedIsKnown'
    BY <1>0, <1>4, HandlerHasIntent DEF LinkPayment, Offer, Intent, TypeOK, HandlerViewHolds
  <2>4. MarkedIsApplied'
    BY <1>0, <1>4, HandlerHasIntent DEF LinkPayment, Offer, Intent, TypeOK, HandlerViewHolds
  <2>5. HandledIsLinked'
    BY <1>0, <1>4, HandlerHasIntent DEF LinkPayment, Offer, Intent, TypeOK, HandlerViewHolds
  <2>6. AcknowledgedIsApplied'
    BY <1>0, <1>4, HandlerHasIntent DEF LinkPayment, Offer, Intent, TypeOK, HandlerViewHolds
  <2> QED
    BY <2>1, <2>2, <2>3, <2>4, <2>5, <2>6
<1>5. ASSUME NEW i \in Intents, ConfirmPayment(i) PROVE ServedInv'
  <2>1. Untouched' /\ Buyable'
    BY <1>0, <1>5, HandlerHasIntent DEF ConfirmPayment, MarkStatus, Offer, Terminal, Intent, TypeOK, HandlerViewHolds
  <2>2. Fresh' /\ AckedIsOver'
    <3>1. intents'[i] # NoIntent
      <4>1. intents'[i].status # "none"
        BY <1>0, <1>5, HandlerHasIntent DEF ConfirmPayment, MarkStatus, Offer, Terminal, Intent, TypeOK, HandlerViewHolds
      <4> QED
        BY <4>1
    <3>2. \A j \in Intents \ {i} : intents'[j] = intents[j]
      BY <1>0, <1>5, HandlerHasIntent DEF ConfirmPayment, MarkStatus, Offer, Terminal, Intent, TypeOK, HandlerViewHolds
    <3>3. \A j \in Intents \ {i} : provider'[j] = provider[j]
      BY <1>0, <1>5, HandlerHasIntent DEF ConfirmPayment, MarkStatus, Offer, Terminal, Intent, TypeOK, HandlerViewHolds
    <3>4. \A j : loop' # [pc |-> "creating", intent |-> j]
      <4>1. loop'.pc # "creating"
        BY <1>0, <1>5, HandlerHasIntent DEF ConfirmPayment, MarkStatus, Offer, Terminal, Intent, TypeOK, HandlerViewHolds
      <4> QED
        BY <4>1
    <3>5. Fresh'
      BY <3>1, <3>2, <3>3, <3>4
    <3>6. AckedIsOver'
      BY <1>0, <1>5, HandlerHasIntent DEF ConfirmPayment, MarkStatus, Offer, Terminal, Intent, TypeOK, HandlerViewHolds
    <3> QED
      BY <3>5, <3>6
  <2>3. OfferedIsKnown'
    BY <1>0, <1>5, HandlerHasIntent DEF ConfirmPayment, MarkStatus, Offer, Terminal, Intent, TypeOK, HandlerViewHolds
  <2>4. MarkedIsApplied'
    BY <1>0, <1>5, HandlerHasIntent DEF ConfirmPayment, MarkStatus, Offer, Terminal, Intent, TypeOK, HandlerViewHolds
  <2>5. HandledIsLinked'
    BY <1>0, <1>5, HandlerHasIntent DEF ConfirmPayment, MarkStatus, Offer, Terminal, Intent, TypeOK, HandlerViewHolds
  <2>6. AcknowledgedIsApplied'
    BY <1>0, <1>5, HandlerHasIntent DEF ConfirmPayment, MarkStatus, Offer, Terminal, Intent, TypeOK, HandlerViewHolds
  <2> QED
    BY <2>1, <2>2, <2>3, <2>4, <2>5, <2>6
<1>6. ASSUME NEW i \in Intents, WebhookSucceeded(i) PROVE ServedInv'
  <2>1. Untouched' /\ Buyable'
    BY <1>0, <1>6, HandlerHasIntent DEF WebhookSucceeded, MarkStatus, Terminal, Intent, TypeOK, HandlerViewHolds
  <2>2. Fresh' /\ AckedIsOver'
    <3>1. intents'[i] # NoIntent
      <4>1. intents'[i].status # "none"
        BY <1>0, <1>6, HandlerHasIntent DEF WebhookSucceeded, MarkStatus, Terminal, Intent, TypeOK, HandlerViewHolds
      <4> QED
        BY <4>1
    <3>2. \A j \in Intents \ {i} : intents'[j] = intents[j]
      BY <1>0, <1>6, HandlerHasIntent DEF WebhookSucceeded, MarkStatus, Terminal, Intent, TypeOK, HandlerViewHolds
    <3>3. \A j \in Intents \ {i} : provider'[j] = provider[j]
      BY <1>0, <1>6, HandlerHasIntent DEF WebhookSucceeded, MarkStatus, Terminal, Intent, TypeOK, HandlerViewHolds
    <3>4. \A j : loop' # [pc |-> "creating", intent |-> j]
      <4>1. loop'.pc # "creating"
        BY <1>0, <1>6, HandlerHasIntent DEF WebhookSucceeded, MarkStatus, Terminal, Intent, TypeOK, HandlerViewHolds
      <4> QED
        BY <4>1
    <3>5. Fresh'
      BY <3>1, <3>2, <3>3, <3>4
    <3>6. AckedIsOver'
      BY <1>0, <1>6, HandlerHasIntent DEF WebhookSucceeded, MarkStatus, Terminal, Intent, TypeOK, HandlerViewHolds
    <3> QED
      BY <3>5, <3>6
  <2>3. OfferedIsKnown'
    BY <1>0, <1>6, HandlerHasIntent DEF WebhookSucceeded, MarkStatus, Terminal, Intent, TypeOK, HandlerViewHolds
  <2>4. MarkedIsApplied'
    BY <1>0, <1>6, HandlerHasIntent DEF WebhookSucceeded, MarkStatus, Terminal, Intent, TypeOK, HandlerViewHolds
  <2>5. HandledIsLinked'
    BY <1>0, <1>6, HandlerHasIntent DEF WebhookSucceeded, MarkStatus, Terminal, Intent, TypeOK, HandlerViewHolds
  <2>6. AcknowledgedIsApplied'
    BY <1>0, <1>6, HandlerHasIntent DEF WebhookSucceeded, MarkStatus, Terminal, Intent, TypeOK, HandlerViewHolds
  <2> QED
    BY <2>1, <2>2, <2>3, <2>4, <2>5, <2>6
<1>7. ASSUME NEW i \in Intents, WebhookCanceled(i) PROVE ServedInv'
  BY <1>0, <1>7, HandlerHasIntent DEF WebhookCanceled, MarkStatus, Terminal, TypeOK, Intent
<1>8. ASSUME NEW i \in Intents, ApplyPurchase(i) PROVE ServedInv'
  BY <1>0, <1>8, HandlerHasIntent DEF ApplyPurchase, Respond, Offer, TypeOK, HandlerViewHolds
<1>9. ASSUME NEW i \in Intents, UserPays(i) \/ ProviderCancels(i) PROVE ServedInv'
  BY <1>0, <1>9, HandlerHasIntent DEF UserPays, ProviderCancels, TypeOK
<1>10. ASSUME NEW i \in Intents, ApplyFails(i) PROVE FALSE
  <2>1. intents[i] # NoIntent
    BY <1>0, <1>10, HandlerHasIntent DEF ApplyFails, Intent
  <2> QED
    BY <1>10, <2>1 DEF ApplyFails
<1>11. ASSUME NEW i \in Intents, LinkFails(i) PROVE FALSE
  BY <1>11 DEF LinkFails
<1>12. ~Admin /\ ~Restart
  BY DEF Admin, Restart
<1>13. CASE Tick \/ UNCHANGED vars
  BY <1>13 DEF Tick, vars
<1> HIDE DEF ServedInv
<1> QED
  BY <1>1, <1>2, <1>3, <1>4, <1>5, <1>6, <1>7, <1>8, <1>9, <1>10, <1>11, <1>12, <1>13
  DEF Next, Checkout, Webhook, Apply

\* Without faults, over a catalogue that nobody edits, an answer of 200 to a
\* payment that was made means that its purchase is applied (webhooks.py).
THEOREM BillingAcknowledgedIsApplied ==
  ASSUME Edited = {}, ~Faults
  PROVE  Spec => []AcknowledgedIsApplied
<1>1. BillingInv /\ ServedInv /\ [Next]_vars => ServedInv'
  BY ServedStep
<1>2. ServedInv => AcknowledgedIsApplied
  BY DEF ServedInv
<1> QED
  BY <1>1, <1>2, ServedInit, BillingInvariant, PTL DEF Spec

-----------------------------------------------------------------------------
(* Refinement *)

\* The tables implement the ledger: every transaction is one step of the ledger
\* or none, so no payment is settled twice or credited twice.
THEOREM BillingImplementsLedger == Spec => ImplementsLedger
<1>. DEFINE state(i) == IF i \in applied THEN "credited"
                        ELSE IF intents[i].status = "succeeded" THEN "settled"
                        ELSE IF intents[i].status = "canceled" THEN "void"
                        ELSE "open"
            ledgerBar == [i \in Intents |-> state(i)]
<1>1. Init => Ledger!LedgerInit
  BY DEF Init, Ledger!LedgerInit, NoIntent
<1>2. ASSUME BillingInv, [Next]_vars
      PROVE  [Ledger!LedgerNext]_<<ledgerBar, days>>
  <2>. USE <1>2 DEF BillingInv, TypeOK, HandlerViewHolds, CreditedOnlyIfPaid
  <2>1. ASSUME NEW i \in Intents, NEW verdict \in {"settled", "void"},
               i \notin applied, intents[i].status \notin {"succeeded", "canceled"},
               intents[i] \in Intent,
               intents' = [intents EXCEPT ![i].status =
                             IF verdict = "settled" THEN "succeeded" ELSE "canceled"],
               UNCHANGED <<applied, days>>
        PROVE  Ledger!LedgerNext
    <3>1. ledgerBar[i] = "open"
      BY <2>1
    <3>2. intents'[i].status = IF verdict = "settled" THEN "succeeded" ELSE "canceled"
      BY <2>1 DEF Intent
    <3>3. ledgerBar' = [ledgerBar EXCEPT ![i] = verdict]
      <4>1. \A j \in Intents : state(j)' = IF j = i THEN verdict ELSE state(j)
        BY <2>1, <3>2
      <4>. HIDE DEF state
      <4>2. QED
        BY <4>1
    <3>4. Ledger!Settle(i, verdict)
      BY <2>1, <3>1, <3>3 DEF Ledger!Settle
    <3>5. QED
      BY <3>4 DEF Ledger!LedgerNext
  <2>2. ASSUME UNCHANGED <<intents, applied, days>>
        PROVE  UNCHANGED <<ledgerBar, days>>
    BY <2>2
  <2>3. ASSUME NEW i \in Intents, NEW u \in Users, NEW c \in Codes, StartCheckout(u, c, i)
        PROVE  UNCHANGED <<ledgerBar, days>>
    BY <2>3 DEF StartCheckout, NoIntent
  <2>4. ASSUME NEW i \in Intents, PaymentCreated(i) \/ LinkFails(i)
        PROVE  UNCHANGED <<ledgerBar, days>>
    BY <2>2, <2>4 DEF PaymentCreated, LinkFails
  <2>5. ASSUME NEW i \in Intents, PaymentNotCreated(i)
        PROVE  [Ledger!LedgerNext]_<<ledgerBar, days>>
    <3>1. intents[i] \in Intent /\ intents[i].status = "pending" /\ i \notin applied
      BY <2>5, HandlerHasIntent DEF PaymentNotCreated, Idle
    <3>. HIDE DEF ledgerBar
    <3>2. QED
      BY <2>1, <2>2, <2>5, <3>1 DEF PaymentNotCreated
  <2>6. ASSUME NEW i \in Intents, LinkPayment(i)
        PROVE  UNCHANGED <<ledgerBar, days>>
    <3>1. intents[i] \in Intent
      BY <2>6, HandlerHasIntent DEF LinkPayment
    <3>2. \A j \in Intents : intents'[j].status = intents[j].status
      BY <2>6, <3>1 DEF LinkPayment, Intent
    <3>3. QED
      BY <2>6, <3>2 DEF LinkPayment
  <2>7. ASSUME NEW i \in Intents, ConfirmPayment(i)
        PROVE  [Ledger!LedgerNext]_<<ledgerBar, days>>
    <3>1. intents[i] \in Intent /\ i \notin applied
      BY <2>7, HandlerHasIntent DEF ConfirmPayment, Idle
    <3>. HIDE DEF ledgerBar
    <3>2. QED
      BY <2>1, <2>2, <2>7, <3>1 DEF ConfirmPayment, MarkStatus, Terminal
  <2>8. ASSUME NEW i \in Intents, WebhookSucceeded(i) \/ WebhookCanceled(i)
        PROVE  [Ledger!LedgerNext]_<<ledgerBar, days>>
    <3>. HIDE DEF ledgerBar
    <3>1. QED
      BY <2>1, <2>2, <2>8
      DEF WebhookSucceeded, WebhookCanceled, MarkStatus, Known, Terminal
  <2>9. ASSUME NEW i \in Intents, ApplyPurchase(i)
        PROVE  [Ledger!LedgerNext]_<<ledgerBar, days>>
    <3>1. intents[i] \in Intent /\ intents[i].status = "succeeded" /\ i \notin applied
      BY <2>9, HandlerHasIntent DEF ApplyPurchase, Idle
    <3>2. PICK u \in Users, d \in Nat \ {0} :
            u = intents[i].user /\ d = plans[intents[i].code].duration
      BY <2>9, <3>1 DEF ApplyPurchase, Intent, Plan
    <3>3. days' = [days EXCEPT ![u] = days[u] + d]
      BY <2>9, <3>2 DEF ApplyPurchase
    <3>4. days[u] \in Nat /\ days'[u] = days[u] + d
      BY <3>2, <3>3
    <3>5. ledgerBar[i] = "settled"
      BY <3>1
    <3>6. ledgerBar' = [ledgerBar EXCEPT ![i] = "credited"]
      BY <2>9, <3>1 DEF ApplyPurchase
    <3>. HIDE DEF ledgerBar
    <3>7. days'[u] \in Nat /\ days'[u] > days[u]
      BY <3>2, <3>4
    <3>8. days' = [days EXCEPT ![u] = days'[u]]
      BY <3>3, <3>4
    <3>9. Ledger!Credit(i, u)
      BY <3>5, <3>6, <3>7, <3>8 DEF Ledger!Credit, ledgerBar
    <3>10. QED
      BY <3>9 DEF Ledger!LedgerNext
  <2>10. ASSUME NEW i \in Intents, ApplyFails(i) \/ UserPays(i) \/ ProviderCancels(i)
         PROVE  UNCHANGED <<ledgerBar, days>>
    BY <2>2, <2>10 DEF ApplyFails, UserPays, ProviderCancels
  <2>11. CASE Admin \/ Tick \/ Restart \/ UNCHANGED vars
    BY <2>2, <2>11 DEF Admin, CreatePlan, UpdatePlan, DeletePlan, Tick, Restart, vars
  <2>12. QED
    <3>. HIDE DEF ledgerBar
    <3>1. QED
      BY <2>3, <2>4, <2>5, <2>6, <2>7, <2>8, <2>9, <2>10, <2>11
      DEF Next, Checkout, Webhook, Apply
<1>3. QED
  BY <1>1, <1>2, BillingInvariant, PTL DEF Spec, ImplementsLedger, Ledger!LedgerSpec
=============================================================================
