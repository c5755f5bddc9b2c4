------------------------------ MODULE MCStock ------------------------------
(* Constants of the model-checking runs of Stock. *)
EXTENDS Stock

CONSTANTS c1, c2, w1, w2, f1, i1, d1

MCNeed == [i \in Invoices |-> 1]
MCFrom == [i \in Invoices |-> w1]
\* A unit of the product makes one, or two do and one of them returns as scrap.
MCPlain == [of |-> w1, takes |-> 1, makes |-> f1, returns |-> 0]
MCScrap == [of |-> w1, takes |-> 2, makes |-> f1, returns |-> 1]
MCRecipes == {MCPlain, MCScrap}
MCPlainOnly == {MCPlain}
Symmetry == Permutations(Clients)
=============================================================================
