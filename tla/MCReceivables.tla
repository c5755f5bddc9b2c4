--------------------------- MODULE MCReceivables ---------------------------
(* Constants of the model-checking runs of Receivables. *)
EXTENDS Receivables, TLC

CONSTANTS c1, c2, i1, i2, l1, l2

\* i1 falls due first.
MCRank == i1 :> 1 @@ i2 :> 2
MCTotal == i1 :> 2 @@ i2 :> 1
MCOneTotal == i1 :> 2
MCOneRank == i1 :> 1
MCUnit == [i \in Invoices |-> 1]
MCCash == [i \in Invoices |-> "101"]
MCBank == [i \in Invoices |-> "221"]
MCLine == [l \in Lines |-> 1]
MCNoLine == [l \in {} |-> 1]

Symmetry == Permutations(Clients)
=============================================================================
