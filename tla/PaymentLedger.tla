---------------------------- MODULE PaymentLedger ----------------------------
(***************************************************************************)
(* What the billing part of the application promises, with no webhook, no  *)
(* database and no clock: a payment is open until the provider's verdict,  *)
(* is settled or void by that verdict, and a settled payment buys its      *)
(* owner one period of paid time, once.                                    *)
(***************************************************************************)
EXTENDS Integers

CONSTANTS
  Users,      \* the people who pay
  Intents     \* payments, one per checkout

VARIABLES
  ledger,     \* ledger[i]: what became of payment i
  days        \* days[u]: paid time credited to u so far

LedgerStates == {"open", "settled", "credited", "void"}

LedgerTypeOK ==
  /\ ledger \in [Intents -> LedgerStates]
  /\ days \in [Users -> Nat]

LedgerInit ==
  /\ ledger = [i \in Intents |-> "open"]
  /\ days = [u \in Users |-> 0]

\* The provider's verdict on payment i is recorded.
Settle(i, verdict) ==
  /\ ledger[i] = "open"
  /\ verdict \in {"settled", "void"}
  /\ ledger' = [ledger EXCEPT ![i] = verdict]
  /\ UNCHANGED days

\* A settled payment is turned into paid time of one user.
Credit(i, u) ==
  /\ ledger[i] = "settled"
  /\ ledger' = [ledger EXCEPT ![i] = "credited"]
  /\ days'[u] \in Nat /\ days'[u] > days[u]
  /\ days' = [days EXCEPT ![u] = days'[u]]

LedgerNext ==
  \E i \in Intents :
    \/ \E verdict \in {"settled", "void"} : Settle(i, verdict)
    \/ \E u \in Users : Credit(i, u)

LedgerSpec == LedgerInit /\ [][LedgerNext]_<<ledger, days>>
=============================================================================
