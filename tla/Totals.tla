------------------------------- MODULE Totals -------------------------------
(***************************************************************************)
(* Sums of functions with integer values over a finite set.                *)
(***************************************************************************)
EXTENDS Integers, FiniteSets, Functions

(* The sum of f[x] for all x in S. *)
Sum(f, S) == FoldFunctionOnSet(LAMBDA x, y : x + y, 0, f, S)

Total(f) == Sum(f, DOMAIN f)
=============================================================================
