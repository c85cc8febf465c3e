------------------------- MODULE MCCyclePenalties -------------------------
(* A small instance of CyclePenalties for TLC. *)
EXTENDS CyclePenalties, TLC

CONSTANTS s1, s2

Symmetry == Permutations(Sessions)
=============================================================================
