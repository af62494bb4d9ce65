------------------------------ MODULE MCBilling ------------------------------
(* Small instances of Billing for TLC. *)
EXTENDS Billing, TLC

CONSTANTS u1, u2, i1, i2, i3, monthly, yearly

MCDefaultDuration == (monthly :> 1) @@ (yearly :> 2)

Symmetry == Permutations(Users) \cup Permutations(Intents)
=============================================================================
