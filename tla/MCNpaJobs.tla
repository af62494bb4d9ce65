------------------------------ MODULE MCNpaJobs ------------------------------
(* Small instances of NpaJobs for TLC. *)
EXTENDS NpaJobs

CONSTANTS n1, n2, law, j1, j2, primal, general

\* Two uploads of one file: of one batch, and, after an amendment, of two.
MCName == [n \in Rows |-> law]
MCSize == [n \in Rows |-> IF n = n1 THEN 1 ELSE 2]
=============================================================================
