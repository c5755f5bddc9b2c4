------------------------------- MODULE Stock -------------------------------
(***************************************************************************)
(* Stock of one product in several warehouses, and of what is made of it   *)
(* (inventory.service.ts, stock.service.ts, inventory-audit.service.ts,    *)
(* manufacturing.service.ts).                                              *)
(*                                                                         *)
(* Every client runs one request at a time in a READ COMMITTED             *)
(* transaction: the stock row is read without a lock, the cost of an issue *)
(* is computed from the movements seen then, and the new quantity is       *)
(* written as an absolute value.  The statements from the last row lock a  *)
(* transaction waits for to its commit are one action.                     *)
(*                                                                         *)
(* Quantities are whole units and prices whole numbers.  The average cost  *)
(* of a stock row is a quotient; where it enters, any member of Prices is  *)
(* taken.  A transfer moves one unit and a release makes one, so that      *)
(* their unit costs are whole.                                             *)
(***************************************************************************)
EXTENDS Sums, Sequences, SequencesExt

CONSTANTS
  Clients,       \* concurrent requests
  Warehouses,    \* stock rows: of the product in each warehouse, and of the finished products
  Recipes,       \* what one unit takes from a row, the row it is put on, the scrap that returns
  Invoices,      \* sales invoices with one line of the product
  Need,          \* the quantity of that line
  From,          \* the warehouse it is shipped from
  Docs,          \* counting documents
  Kinds,         \* their kinds: "INVENTORY_COUNT", "WRITE_OFF", "SURPLUS", "AUDIT"
  Quantities,    \* quantities a request may name
  Prices,        \* prices per unit
  Requests,      \* the operations in use
  Fifo,          \* the valuation method is FIFO
  AllowNegative, \* settings.inventory.allowNegativeStock
  Receiving,     \* bound of the model: the warehouses that goods are bought or taken in to
  MaxDate,       \* bound of the model: the last date
  MaxMoves,      \* bound of the model: movements
  None

AllRequests == {"BUY", "SALE", "MOVE", "IN", "OUT", "POST", "APPROVE", "RELEASE"}

ASSUME StockAssumption ==
  /\ IsFiniteSet(Warehouses)
  /\ Need \in [Invoices -> Nat \ {0}] /\ From \in [Invoices -> Warehouses]
  /\ Kinds \subseteq {"INVENTORY_COUNT", "WRITE_OFF", "SURPLUS", "AUDIT"}
  /\ Recipes \subseteq [of : Warehouses, takes : Nat \ {0}, makes : Warehouses, returns : Nat]
  /\ \A r \in Recipes : r.of # r.makes /\ r.returns <= r.takes
  /\ Quantities \subseteq Nat \ {0} /\ Prices \subseteq Nat \ {0}
  /\ Requests \subseteq AllRequests
  /\ Receiving \subseteq Warehouses
  /\ Fifo \in BOOLEAN /\ AllowNegative \in BOOLEAN
  /\ MaxDate \in Nat /\ MaxMoves \in Nat
  /\ None \notin Invoices \cup Docs \cup Warehouses \cup Recipes

VARIABLES
  today,    \* the current date (an instant: documents, invoices and movements carry one)
  qty,      \* StockItem.quantity of each warehouse
  moves,    \* StockMovement rows of each warehouse, by documentDate, then createdAt
  account,  \* balance of the inventory accounts (201, 204)
  sale,     \* invoices: the date of their creation, inventorySettled
  doc,      \* counting documents
  pc,       \* where each client is
  req,      \* its request
  work,     \* what its transaction has read and computed
  disordered  \* history: a movement was dated before an existing one

vars == <<today, qty, moves, account, sale, doc, pc, req, work, disordered>>

Movement == [in : BOOLEAN, n : Nat, cost : Nat, date : Nat]
Doc == [st : {"NONE", "DRAFT", "POSTED"}, kind : Kinds \cup {None}, wh : Warehouses \cup {None},
        fact : Nat, system : Int, price : Nat, date : Nat]
Work == [qty : Int, delta : Int, cost : Nat, other : Int]

NoDoc == [st |-> "NONE", kind |-> None, wh |-> None, fact |-> 0, system |-> 0, price |-> 0, date |-> 0]
NoWork == [qty |-> 0, delta |-> 0, cost |-> 0, other |-> 0]
Ask(op, w, v, n, p, id) ==
  [op |-> op, from |-> w, to |-> v, n |-> n, price |-> p, id |-> id, date |-> today]
NoRequest == [op |-> None, from |-> None, to |-> None, n |-> 0, price |-> 0, id |-> None, date |-> 0]

Init ==
  /\ today = 0
  /\ qty = [w \in Warehouses |-> 0]
  /\ moves = [w \in Warehouses |-> <<>>]
  /\ account = 0
  /\ sale = [i \in Invoices |-> [made |-> None, settled |-> FALSE]]
  /\ doc = [d \in Docs |-> NoDoc]
  /\ pc = [c \in Clients |-> "idle"]
  /\ req = [c \in Clients |-> NoRequest]
  /\ work = [c \in Clients |-> NoWork]
  /\ disordered = FALSE

-----------------------------------------------------------------------------
(* Pure parts.  A definition named X_Y is a faulty variant of X that no action *)
(* uses.                                                                       *)

Lesser(a, b) == IF a < b THEN a ELSE b
Abs(a) == IF a < 0 THEN -a ELSE a
Total(s) == SumOver(s, DOMAIN s)
Room(k) == SumOver([w \in Warehouses |-> Len(moves[w])], Warehouses) + k <= MaxMoves

MoveOf_Signed(delta, cost, date) == [in |-> delta > 0, n |-> delta, cost |-> cost, date |-> date]
MoveOf(delta, cost, date) == [in |-> delta > 0, n |-> Abs(delta), cost |-> cost, date |-> date]

\* The movements sorted by date; among equal dates the new one comes last.
NotAfter(s, d) == Cardinality({k \in DOMAIN s : s[k].date <= d})
Inserted_First(s, m) == <<m>> \o s
Inserted(s, m) == InsertAt(s, NotAfter(s, m.date) + 1, m)

\* fifoIssueUnitCost: the cost layers left when the movements are replayed, one entry
\* per unit; an issue takes the oldest ones, as far as there are any.
Replay_Newest(layers, m) ==
  IF m.in THEN layers \o [k \in 1..m.n |-> m.cost \div m.n]
  ELSE SubSeq(layers, 1, Len(layers) - Lesser(m.n, Len(layers)))
Replay(layers, m) ==
  IF m.in THEN layers \o [k \in 1..m.n |-> m.cost \div m.n]
  ELSE SubSeq(layers, Lesser(m.n, Len(layers)) + 1, Len(layers))
Layers(s) ==
  LET left[k \in 0..Len(s)] == IF k = 0 THEN <<>> ELSE Replay(left[k - 1], s[k])
  IN  left[Len(s)]

\* computeIssueUnitCost times the quantity: FIFO takes the oldest layers and prices
\* what they do not cover like AVCO does, at the average cost.
IssueCosts(w, n) ==
  LET layers == IF Fifo THEN Layers(moves[w]) ELSE <<>>
      covered == Lesser(n, Len(layers))
  IN  {Total(SubSeq(layers, 1, covered)) + (n - covered) * p : p \in Prices}

\* The quantity written: a purchase starts anew from a stock that is not positive.
NewQuantity_Anew(op, q, delta) == delta
NewQuantity(op, q, delta) == IF op = "BUY" /\ q <= 0 THEN delta ELSE q + delta

\* Whether the stock read suffices for the issue.
Suffices(op, q, n) == q >= n \/ (op \in {"OUT", "POST"} /\ AllowNegative)

\* postAdjustment compares the count with the stock of now, not of the draft.
Difference_Drafted(d, q) == d.fact - d.system
Difference(d, q) == d.fact - q

\* The differences a document of this kind may have.
Permitted(kind, delta) ==
  /\ kind = "WRITE_OFF" => delta <= 0
  /\ kind = "SURPLUS" => delta >= 0

\* The account of the journal entry that goes with a movement.
Booked_AtPrice(b, op, m, p) == IF m.in THEN b + m.cost ELSE b - m.n * p
Booked(b, op, m, p) == IF m.in THEN b + m.cost ELSE b - m.cost

-----------------------------------------------------------------------------
\* The invoice of a sale is created as a draft.
CreateInvoice(i) ==
  /\ "SALE" \in Requests /\ sale[i].made = None
  /\ sale' = [sale EXCEPT ![i].made = today]
  /\ UNCHANGED <<today, qty, moves, account, doc, pc, req, work, disordered>>

\* createInventoryAdjustment (counted quantity and date come with the request) and
\* createDraftWithLines (a line for each stock row, its count starts as the stock).
CreateDoc(d, kind, w, fact, p, date) ==
  /\ doc[d].st = "NONE"
  /\ IF kind = "AUDIT" THEN "APPROVE" \in Requests ELSE "POST" \in Requests
  /\ kind = "AUDIT" => moves[w] # <<>> /\ fact = qty[w]
  /\ doc' = [doc EXCEPT ![d] = [st |-> "DRAFT", kind |-> kind, wh |-> w, fact |-> fact,
                                system |-> qty[w],
                                price |-> IF kind = "AUDIT" THEN p ELSE 0, date |-> date]]
  /\ UNCHANGED <<today, qty, moves, account, sale, pc, req, work, disordered>>

\* patchLine: the counted quantity of an audit line.
PatchLine(d, fact) ==
  /\ doc[d].st = "DRAFT" /\ doc[d].kind = "AUDIT"
  /\ doc' = [doc EXCEPT ![d].fact = fact]
  /\ UNCHANGED <<today, qty, moves, account, sale, pc, req, work, disordered>>

\* syncSystemFromStock
SyncSystem(d) ==
  /\ doc[d].st = "DRAFT" /\ doc[d].kind = "AUDIT"
  /\ doc' = [doc EXCEPT ![d].system = qty[doc[d].wh]]
  /\ UNCHANGED <<today, qty, moves, account, sale, pc, req, work, disordered>>

-----------------------------------------------------------------------------
\* The movements a request leaves.
Moves(r) == IF r.op = "RELEASE" /\ r.id.returns > 0 THEN 3 ELSE IF r.op \in {"MOVE", "RELEASE"} THEN 2 ELSE 1

\* A request, up to its transaction: the invoice or the draft of a document is read here.
Accept(c, r) ==
  /\ pc[c] = "idle" /\ r.op \in Requests /\ Room(Moves(r))
  /\ r.op = "SALE" => ~sale[r.id].settled
  /\ pc' = [pc EXCEPT ![c] = "stock"]
  /\ req' = [req EXCEPT ![c] = r]
  /\ UNCHANGED <<today, qty, moves, account, sale, doc, work, disordered>>

\* Goods in at a price: recordGoodsPurchase and adjustStock(IN) read the stock row.
ReadReceipt(c) ==
  LET r == req[c]
  IN  /\ pc[c] = "stock" /\ r.op \in {"BUY", "IN"}
      /\ work' = [work EXCEPT ![c] = [qty |-> qty[r.from], delta |-> r.n, cost |-> r.n * r.price, other |-> 0]]
      /\ pc' = [pc EXCEPT ![c] = "commit"]
      /\ UNCHANGED <<today, qty, moves, account, sale, doc, req, disordered>>

\* Goods out: the stock row and the movements are read, the cost is computed.
ReadIssue(c) ==
  LET r == req[c]
  IN  /\ pc[c] = "stock" /\ r.op \in {"SALE", "OUT", "MOVE", "RELEASE"}
      /\ Suffices(r.op, qty[r.from], r.n)
      /\ \E x \in IssueCosts(r.from, r.n) :
           work' = [work EXCEPT ![c] = [qty |-> qty[r.from], delta |-> -r.n, cost |-> x, other |-> 0]]
      /\ pc' = [pc EXCEPT ![c] = IF r.op \in {"MOVE", "RELEASE"} THEN "target" ELSE "commit"]
      /\ UNCHANGED <<today, qty, moves, account, sale, doc, req, disordered>>

\* A transfer or a release of another client has written its source row and not committed.
Locked(c, w) == \E d \in Clients \ {c} : pc[d] = "target2" /\ req[d].from = w

\* transferStock and releaseProduction write the source row, then read the target row.
ReadTarget(c) ==
  /\ pc[c] = "target" /\ ~Locked(c, req[c].from)
  /\ work' = [work EXCEPT ![c].other = qty[req[c].to]]
  /\ pc' = [pc EXCEPT ![c] = "target2"]
  /\ UNCHANGED <<today, qty, moves, account, sale, doc, req, disordered>>

\* postAdjustment compares the count with the stock, refuses a difference the kind of
\* the document does not permit, and reads the stock row again to write it.
ReadCount(c) ==
  LET d == doc[req[c].id]
      delta == Difference(d, qty[d.wh])
  IN  /\ pc[c] = "stock" /\ req[c].op = "POST"
      /\ Permitted(d.kind, delta)
      /\ work' = [work EXCEPT ![c].delta = delta]
      /\ pc' = [pc EXCEPT ![c] = "again"]
      /\ UNCHANGED <<today, qty, moves, account, sale, doc, req, disordered>>

ReadAgain(c) ==
  LET w == req[c].from
      delta == work[c].delta
  IN  /\ pc[c] = "again"
      /\ delta < 0 => Suffices("POST", qty[w], -delta)
      /\ \E x \in IF delta < 0 THEN IssueCosts(w, -delta) ELSE {delta * p : p \in Prices} :
           work' = [work EXCEPT ![c] = [@ EXCEPT !.qty = qty[w], !.cost = x]]
      /\ pc' = [pc EXCEPT ![c] = "commit"]
      /\ UNCHANGED <<today, qty, moves, account, sale, doc, req, disordered>>

\* approveDraft applies the difference stored in the draft to the stock read now, at
\* the price of the line, whether or not the stock suffices.
ReadDifference(c) ==
  LET r == req[c]
  IN  /\ pc[c] = "stock" /\ r.op = "APPROVE"
      /\ work' = [work EXCEPT ![c] = [qty |-> qty[r.from], delta |-> r.n, cost |-> Abs(r.n) * r.price, other |-> 0]]
      /\ pc' = [pc EXCEPT ![c] = "commit"]
      /\ UNCHANGED <<today, qty, moves, account, sale, doc, req, disordered>>

-----------------------------------------------------------------------------
Finish(c) ==
  /\ pc' = [pc EXCEPT ![c] = "idle"]
  /\ req' = [req EXCEPT ![c] = NoRequest]
  /\ work' = [work EXCEPT ![c] = NoWork]

\* The documentDate of the movement: that of the document, the creation of the invoice
\* (recognizedAt is only set after its stock is posted), or the start of the request.
DateOf(r) ==
  IF r.op \in {"POST", "APPROVE"} THEN doc[r.id].date
  ELSE IF r.op = "SALE" THEN sale[r.id].made
  ELSE r.date

\* The writes of a request on one row: stock, movement, journal, document, commit.
Commit(c) ==
  LET r == req[c]
      w == r.from
      m == MoveOf(work[c].delta, work[c].cost, DateOf(r))
  IN  /\ pc[c] = "commit" /\ ~Locked(c, w) /\ Room(Moves(r))
      /\ IF m.n = 0 THEN UNCHANGED <<qty, moves, account, disordered>>
         ELSE /\ qty' = [qty EXCEPT ![w] = NewQuantity(r.op, work[c].qty, work[c].delta)]
              /\ moves' = [moves EXCEPT ![w] = Inserted(@, m)]
              /\ account' = Booked(account, r.op, m, r.price)
              /\ disordered' = (disordered \/ NotAfter(moves[w], m.date) < Len(moves[w]))
      /\ sale' = IF r.op = "SALE"
                 THEN [sale EXCEPT ![r.id].settled = TRUE]
                 ELSE sale
      /\ doc' = IF r.op \in {"POST", "APPROVE"} THEN [doc EXCEPT ![r.id].st = "POSTED"] ELSE doc
      /\ Finish(c)
      /\ UNCHANGED today

\* transferStock: both rows and both movements, no journal.
CommitTransfer(c) ==
  LET r == req[c]
      out == MoveOf(-r.n, work[c].cost, r.date)
      in == MoveOf(r.n, work[c].cost, r.date)
  IN  /\ pc[c] = "target2" /\ r.op = "MOVE" /\ ~Locked(c, r.to)
      /\ Room(Moves(r))
      /\ qty' = [qty EXCEPT ![r.from] = work[c].qty - r.n, ![r.to] = work[c].other + r.n]
      /\ moves' = [moves EXCEPT ![r.from] = Inserted(@, out), ![r.to] = Inserted(@, in)]
      /\ disordered' = (disordered \/ \E w \in {r.from, r.to} : NotAfter(moves[w], r.date) < Len(moves[w]))
      /\ Finish(c)
      /\ UNCHANGED <<today, account, sale, doc>>

\* releaseProduction: the material goes out, the product comes in at its cost, the scrap
\* comes back at none, and the cost changes its inventory account.
CommitRelease(c) ==
  LET r == req[c]
      out == MoveOf(-r.n, work[c].cost, r.date)
      in == MoveOf(1, work[c].cost, r.date)
      scrap == MoveOf(r.id.returns, 0, r.date)
  IN  /\ pc[c] = "target2" /\ r.op = "RELEASE" /\ ~Locked(c, r.to)
      /\ Room(Moves(r))
      /\ qty' = [qty EXCEPT ![r.from] = work[c].qty - r.n + scrap.n, ![r.to] = work[c].other + 1]
      /\ moves' = [moves EXCEPT ![r.from] = IF scrap.n = 0 THEN Inserted(@, out) ELSE Inserted(Inserted(@, out), scrap),
                                ![r.to] = Inserted(@, in)]
      /\ account' = Booked(Booked(account, r.op, out, 0), r.op, in, 0)
      /\ disordered' = (disordered \/ \E w \in {r.from, r.to} : NotAfter(moves[w], r.date) < Len(moves[w]))
      /\ Finish(c)
      /\ UNCHANGED <<today, sale, doc>>

\* A refused, failed or cut-off request, or the victim of a deadlock: its transaction
\* is rolled back.
Abort(c) ==
  /\ pc[c] # "idle"
  /\ Finish(c)
  /\ UNCHANGED <<today, qty, moves, account, sale, doc, disordered>>

NextDay ==
  /\ today < MaxDate
  /\ today' = today + 1
  /\ UNCHANGED <<qty, moves, account, sale, doc, pc, req, work, disordered>>

-----------------------------------------------------------------------------
Document ==
  \/ \E i \in Invoices : CreateInvoice(i)
  \/ \E d \in Docs, kind \in Kinds, w \in Warehouses, fact \in {0} \cup Quantities,
        p \in Prices, date \in 0..MaxDate : CreateDoc(d, kind, w, fact, p, date)
  \/ \E d \in Docs, fact \in {0} \cup Quantities : PatchLine(d, fact)
  \/ \E d \in Docs : SyncSystem(d)

Request(c) ==
  \/ \E op \in {"BUY", "IN"}, w \in Receiving, n \in Quantities, p \in Prices :
       Accept(c, Ask(op, w, None, n, p, None))
  \/ \E w \in Warehouses, n \in Quantities : Accept(c, Ask("OUT", w, None, n, 0, None))
  \/ \E r \in Recipes : Accept(c, Ask("RELEASE", r.of, r.makes, r.takes, 0, r))
  \/ \E w, v \in Warehouses \ {r.makes : r \in Recipes} : w # v /\ Accept(c, Ask("MOVE", w, v, 1, 0, None))
  \/ \E i \in Invoices : sale[i].made # None /\ Accept(c, Ask("SALE", From[i], None, Need[i], 0, i))
  \/ \E d \in Docs :
       /\ doc[d].st = "DRAFT"
       /\ Accept(c, IF doc[d].kind = "AUDIT"
                    THEN Ask("APPROVE", doc[d].wh, None, doc[d].fact - doc[d].system, doc[d].price, d)
                    ELSE Ask("POST", doc[d].wh, None, 0, 0, d))

Transaction(c) ==
  \/ ReadReceipt(c)
  \/ ReadIssue(c)
  \/ ReadTarget(c)
  \/ ReadCount(c)
  \/ ReadAgain(c)
  \/ ReadDifference(c)
  \/ Commit(c)
  \/ CommitTransfer(c)
  \/ CommitRelease(c)

Next ==
  \/ Document
  \/ \E c \in Clients : Request(c) \/ Transaction(c) \/ Abort(c)
  \/ NextDay

Spec == Init /\ [][Next]_vars

-----------------------------------------------------------------------------
(* Properties *)

Signed(m, x) == IF m.in THEN x ELSE -x
Balance(s) == SumOver([k \in DOMAIN s |-> Signed(s[k], s[k].n)], DOMAIN s)
Worth(s) == SumOver([k \in DOMAIN s |-> Signed(s[k], s[k].cost)], DOMAIN s)

\* Types of the variables.
TypeOK ==
  /\ today \in 0..MaxDate
  /\ qty \in [Warehouses -> Int]
  /\ moves \in [Warehouses -> Seq(Movement)]
  /\ account \in Int
  /\ sale \in [Invoices -> [made : Nat \cup {None}, settled : BOOLEAN]]
  /\ doc \in [Docs -> Doc]
  /\ pc \in [Clients -> {"idle", "stock", "target", "target2", "again", "commit"}]
  /\ work \in [Clients -> Work]
  /\ disordered \in BOOLEAN

\* Whatever requests overlap or are cut off, the inventory accounts hold what all
\* movements brought in less what they took out; transfers cancel out.
LedgerFollowsMovements ==
  account = SumOver([w \in Warehouses |-> Worth(moves[w])], Warehouses)

\* The quantity of a stock row is the balance of its movements, and not negative.
\* One request at a time, negative stock forbidden, no audit approved.
QtyIsMovements ==
  \A w \in Warehouses : qty[w] = Balance(moves[w]) /\ qty[w] >= 0

\* While movements are entered by date, the cost layers that the next FIFO replay will
\* find are as many units as there are in stock, and the inventory accounts carry their
\* cost.  One request at a time, negative stock forbidden, no audit approved.
LayersAreStock ==
  ~disordered => \A w \in Warehouses : Len(Layers(moves[w])) = qty[w]

LedgerIsLayers ==
  ~disordered => account = SumOver([w \in Warehouses |-> Total(Layers(moves[w]))], Warehouses)

\* A posted counting document leaves the quantity that was counted, whatever happened
\* between its draft and its posting.  One request at a time.
CountIsApplied ==
  [][\A d \in Docs :
       doc[d].kind # "AUDIT" /\ doc[d].st = "DRAFT" /\ doc'[d].st = "POSTED"
         => qty'[doc[d].wh] = doc[d].fact]_vars

\* FIFO: the layers left are the units in stock, whatever the dates of the movements.
LayersAlwaysStock ==
  \A w \in Warehouses : Len(Layers(moves[w])) = qty[w]
=============================================================================
