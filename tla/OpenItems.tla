----------------------------- MODULE OpenItems -----------------------------
(***************************************************************************)
(* What the settlement of receivables promises for the invoices of one     *)
(* counterparty, without sessions, journals or statuses kept by hand: an   *)
(* item is billed once for its whole total, a settlement lowers one or     *)
(* several billed items at once and never below zero, the standing of an   *)
(* item is what its settled amount says, and a signed item is frozen.      *)
(* Abstract counterpart of Receivables (invoices.service.ts).              *)
(***************************************************************************)
EXTENDS Integers

CONSTANTS Invoices, Total   \* Total \in [Invoices -> Nat]

VARIABLE item   \* billed, settled, standing

Standings == {"draft", "open", "partly", "closed", "signed"}

Item == [billed : BOOLEAN, settled : Nat, standing : Standings]

NewItem == [billed |-> FALSE, settled |-> 0, standing |-> "draft"]

Init == item = [i \in Invoices |-> NewItem]

\* The standing of a billed item with so much settled.
StandingOf(i, x) ==
  IF x >= Total[i] THEN "closed" ELSE IF x > 0 THEN "partly" ELSE "open"

Billed(i, x) == [billed |-> TRUE, settled |-> x, standing |-> StandingOf(i, x)]

\* The invoice is issued: nothing is settled yet.
Bill(i) ==
  /\ item[i].standing = "draft" /\ ~item[i].billed
  /\ item' = [item EXCEPT ![i] = [billed |-> TRUE, settled |-> 0, standing |-> "open"]]

\* An invoice is billed and settled in one go (set to PAID, or matched to a bank line).
BillAndSettle(i, x) ==
  /\ item[i].standing = "draft" /\ ~item[i].billed
  /\ x \in 0..Total[i]
  /\ item' = [item EXCEPT ![i] = Billed(i, x)]

\* One payment settles f[i] of each invoice i.
Settle(f) ==
  /\ f # [i \in Invoices |-> 0]
  /\ \A i \in Invoices : f[i] > 0 =>
       /\ item[i].billed /\ item[i].standing # "signed"
       /\ item[i].settled + f[i] <= Total[i]
  /\ item' = [i \in Invoices |-> IF f[i] > 0 THEN Billed(i, item[i].settled + f[i]) ELSE item[i]]

\* The invoice is signed.
Sign(i) == item' = [item EXCEPT ![i].standing = "signed"]

\* The largest amount an invoice can be settled by.
Amount(i) == 0..Total[i]

Next ==
  \/ \E i \in Invoices : Bill(i) \/ Sign(i) \/ \E x \in Amount(i) : BillAndSettle(i, x)
  \/ \E f \in [Invoices -> UNION {Amount(i) : i \in Invoices}] : Settle(f)

Spec == Init /\ [][Next]_item

\* No invoice is settled beyond its total, and nothing is settled before it is billed.
NeverOverSettled ==
  \A i \in Invoices : item[i].settled <= Total[i] /\ (item[i].settled > 0 => item[i].billed)
=============================================================================
