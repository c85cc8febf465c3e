-------------------------- MODULE MCPaymentLedger --------------------------
(* A small instance of PaymentLedger for TLC. *)
EXTENDS PaymentLedger, TLC

CONSTANTS s1, s2, t1, t2, c1, c2

\* Sound for the invariants and the refinement, not for liveness.
Symmetry == Permutations({s1, s2}) \cup Permutations({t1, t2}) \cup Permutations({c1, c2})
=============================================================================
