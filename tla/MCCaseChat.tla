----------------------------- MODULE MCCaseChat -----------------------------
(* Small instances of CaseChat for TLC. *)
EXTENDS CaseChat, TLC

CONSTANTS c1, c2

Symmetry == Permutations(Cases)
=============================================================================
