----------------------------- MODULE MCFiscalYears -----------------------------
(* Instances of FiscalYears for TLC. *)
EXTENDS FiscalYears, TLC

CONSTANTS r1, r2, y1, y2, fyA, fyB

YearSymmetry == Permutations(Years) \union Permutations(Names)
=============================================================================
