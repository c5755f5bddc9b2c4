---------------------------- MODULE MCBackOffice ----------------------------
(* Constants of the model-checking runs of BackOffice. *)
EXTENDS BackOffice, TLC

CONSTANTS c1, c2, a1, a2, k1, x1, x2, y1, r1, g1, g2, p1, l1, l2, e1, e2, e3, q1, q2, d1, d2, d3, b1, b2

\* The second month takes what remains of one asset and nothing of the other.
MCMaxDep == a1 :> 3 @@ a2 :> 1
MCMonthly == a1 :> 2 @@ a2 :> 1

\* A receipt, two payouts, an advance report, the receipt of an invoice.
MCKind == k1 :> "KMO" @@ x1 :> "KXO" @@ x2 :> "KXO" @@ y1 :> "REPORT" @@ r1 :> "LINKED"
MCCashAmount == k1 :> 2 @@ x1 :> 1 @@ x2 :> 2 @@ y1 :> 2 @@ r1 :> 1

\* A draft of the amount of the wages.
MCWages == 1 :> 5 @@ 2 :> 6
MCPayAmount == p1 :> 5 @@ l1 :> 5 @@ l2 :> 5

\* The two clients.
Symmetry == Permutations({c1, c2})
=============================================================================
