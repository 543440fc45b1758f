-------------------------------- MODULE Sums --------------------------------
(***************************************************************************)
(* The total of a column of numbers: what the code writes as a reduce over *)
(* lines, rows or movements.                                               *)
(***************************************************************************)
EXTENDS Integers, FiniteSetsExt

Total(w) == MapThenSumSet(LAMBDA x : w[x], DOMAIN w)

=============================================================================
