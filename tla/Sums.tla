-------------------------------- MODULE Sums --------------------------------
(***************************************************************************)
(* Amounts added up over a set of payments, intents or runs.               *)
(***************************************************************************)
EXTENDS Integers, FiniteSetsExt

(* The sum of f[x] over the elements x of a finite set S.                  *)
SumOver(f, S) == MapThenSumSet(LAMBDA x : f[x], S)
=============================================================================
