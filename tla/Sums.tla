------------------------------- MODULE Sums -------------------------------
(***************************************************************************)
(* The sum of f[x] over the elements x of a finite set S.                  *)
(***************************************************************************)
EXTENDS Integers, Folds

SumOver(f, S) ==
    MapThenFoldSet(LAMBDA x, y : x + y, 0, LAMBDA x : f[x],
                   LAMBDA T : CHOOSE x \in T : TRUE, S)
=============================================================================
