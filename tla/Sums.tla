--------------------------------- MODULE Sums ---------------------------------
(****************************************************************************)
(* SUM(column) over a set of rows, with the column as a function of the row.*)
(****************************************************************************)
EXTENDS Integers, FiniteSetsExt

SumOver(f, S) == MapThenSumSet(LAMBDA i : f[i], S)
==============================================================================
