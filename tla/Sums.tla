-------------------------------- MODULE Sums --------------------------------
(* Sums over finite sets, as a fold of the community modules. *)
EXTENDS Integers, Functions

\* The sum of f[x] over the elements x of S.
SumOver(f, S) == FoldFunctionOnSet(+, 0, f, S)
=============================================================================
