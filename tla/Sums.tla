-------------------------------- MODULE Sums --------------------------------
(***************************************************************************)
(* Totals over finite sets, as the services compute them with reduce over  *)
(* rows and the database with SUM.                                         *)
(***************************************************************************)
EXTENDS Integers, FiniteSets, FiniteSetsExt

SumOver(f, S) == MapThenSumSet(LAMBDA x : f[x], S)
=============================================================================
