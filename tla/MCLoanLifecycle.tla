-------------------------- MODULE MCLoanLifecycle --------------------------
(* A small instance of LoanLifecycle for TLC. *)
EXTENDS LoanLifecycle, TLC

CONSTANTS s1, s2, p1, p2, p3

\* Requests in flight and proposal rows are interchangeable.
Symmetry == Permutations(Sessions) \cup Permutations(Proposals)
=============================================================================
