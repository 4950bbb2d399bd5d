-------------------------- MODULE MCClarification --------------------------
(* The instances of Clarification that TLC checks.                          *)
EXTENDS ClarificationRefinement, TLC

CONSTANTS q1, q2, q3, c1, x1, k1, k2

\* The runs that only answers and recoveries start are alike, and so are calls.
Alike == Permutations(Claims) \cup Permutations(Runs \ (Roots \cup Askers))
=============================================================================
