-------------------------------- MODULE Sums --------------------------------
(* The sum of a function over a finite set, as the totals of the ledger,    *)
(* of the rounds and of the prizes use it.                                  *)
EXTENDS FiniteSetsExt

SumOver(f, S) == MapThenSumSet(LAMBDA x : f[x], S)
=============================================================================
