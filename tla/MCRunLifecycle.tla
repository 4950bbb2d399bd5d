--------------------------- MODULE MCRunLifecycle ---------------------------
(* The instances of RunLifecycle that TLC checks.                           *)
EXTENDS RunLifecycle, TLC

CONSTANTS q1, q2, c1, x1

\* Runs are alike; a liveness property is checked without the symmetry.
AlikeRuns == Permutations(Runs)
=============================================================================
