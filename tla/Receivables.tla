---------------------------- MODULE Receivables ----------------------------
(***************************************************************************)
(* The settlement of sales invoices of one counterparty                    *)
(* (invoices.service.ts, bank-match.service.ts, netting.service.ts,        *)
(* signature.service.ts).                                                  *)
(*                                                                         *)
(* Every client is one HTTP request at a time.  A request runs one         *)
(* database transaction at READ COMMITTED: what it read before it takes    *)
(* the row lock may be stale when it writes, an UPDATE waits for the row   *)
(* lock and is applied to the newest committed row, and nothing it wrote   *)
(* is visible before it commits.  The statements from the last row lock a  *)
(* transaction waits for to its commit are one action; the reads before it *)
(* are actions of their own.  Transactions over several invoices lock them *)
(* one by one and keep their new versions in "mine" until they commit.     *)
(***************************************************************************)
EXTENDS Sums

CONSTANTS
  Clients,       \* concurrent requests
  Invoices,      \* invoices of the counterparty
  Total,         \* invoice.totalAmount, in the smallest unit of money
  Rank,          \* the FIFO order of the invoices (dueDate, then id)
  Foreign,       \* the invoices whose currency is not AZN
  DebitAccount,  \* invoice.debitAccountCode
  Lines,         \* unmatched INFLOW bank statement lines
  LineAmount,    \* their amounts
  Amounts,       \* the amounts a request may name
  Accounts,      \* the debit accounts a request may name: "101" and "221"
  Roles,         \* the roles of the requesters
  Requests,      \* the endpoints in use
  Tolerance,     \* MULTI_CURRENCY_ROUNDING_TOLERANCE
  Payable,       \* what we owe the counterparty on account 531 at first
  MaxRows,       \* bound of the model: the payment rows of one invoice sum to at most this
  MaxPending,    \* bound of the model: pending signature sessions of an invoice
  None

AllRequests == {"SENT", "PAID", "PAY", "ALLOC", "BANK", "NET", "SIGN"}

ASSUME ReceivablesAssumption ==
  /\ IsFiniteSet(Clients) /\ IsFiniteSet(Invoices) /\ IsFiniteSet(Lines)
  /\ Total \in [Invoices -> Nat]
  /\ Rank \in [Invoices -> Nat]
  /\ \A i, j \in Invoices : Rank[i] = Rank[j] => i = j
  /\ Foreign \subseteq Invoices
  /\ Accounts \subseteq {"101", "221"}
  /\ DebitAccount \in [Invoices -> {"101", "221"}]
  /\ LineAmount \in [Lines -> Nat \ {0}]
  /\ Amounts \subseteq Nat \ {0}
  /\ Roles \subseteq {"OWNER", "ACCOUNTANT", "USER"}
  /\ Requests \subseteq AllRequests
  /\ Tolerance \in Nat /\ Payable \in Nat /\ MaxRows \in Nat /\ MaxPending \in Nat
  /\ None \notin Invoices \cup Lines \cup Accounts \cup AllRequests

VARIABLES
  row,    \* committed invoices: status, paid (paidAmount), rows (the sum of its
          \* InvoicePayment rows), recognized, received
  books,  \* committed journal and registry totals
  line,   \* bank lines: matched, and how often the line was booked as a payment
  sig,    \* signature logs of each invoice: pending and completed ones
  pc,     \* where each client is
  req,    \* its request
  seen,   \* the invoice row it read last
  plan,   \* the open amounts a payment of several invoices read
  unspent, \* what is left of its amount
  mine    \* the invoice rows it has written (and locked) and not committed

vars == <<row, books, line, sig, pc, req, seen, plan, unspent, mine>>

Statuses == {"DRAFT", "SENT", "PARTIALLY_PAID", "PAID", "CANCELLED", "LOCKED_BY_SIGNATURE"}

Row == [status : Statuses, paid : Int, rows : Int, recognized : BOOLEAN, received : BOOLEAN]

\* The mark of an invoice that a session has not written is no row.
ASSUME NoneIsNoRow == None \notin Row

Books == [dr211 : Int, cr211 : Int, cash : Int, bank : Int, gain : Int, ap531 : Int, orders : Int, registry : Int]

Request == [op : AllRequests \cup {None}, role : Roles \cup {None}, inv : Invoices \cup {None},
            amt : Nat, acct : Accounts \cup {None}, line : Lines \cup {None}]

Steps == {"idle", "begin", "ready", "match", "again", "multi", "fresh", "drop", "create"}

NewRow == [status |-> "DRAFT", paid |-> 0, rows |-> 0, recognized |-> FALSE, received |-> FALSE]
Ask(op, role, i, x, acct, l) ==
  [op |-> op, role |-> role, inv |-> i, amt |-> x, acct |-> acct, line |-> l]
NoRequest == Ask(None, None, None, 0, None, None)
NoPlan == [i \in Invoices |-> 0]
NoWrites == [i \in Invoices |-> None]

Init ==
  /\ row = [i \in Invoices |-> NewRow]
  /\ books = [dr211 |-> 0, cr211 |-> 0, cash |-> 0, bank |-> 0, gain |-> 0,
              ap531 |-> Payable, orders |-> 0, registry |-> 0]
  /\ line = [l \in Lines |-> [matched |-> FALSE, booked |-> 0]]
  /\ sig = [i \in Invoices |-> [pending |-> 0, completed |-> 0]]
  /\ pc = [c \in Clients |-> "idle"]
  /\ req = [c \in Clients |-> NoRequest]
  /\ seen = [c \in Clients |-> NewRow]
  /\ plan = [c \in Clients |-> NoPlan]
  /\ unspent = [c \in Clients |-> 0]
  /\ mine = [c \in Clients |-> NoWrites]

-----------------------------------------------------------------------------
(* Pure parts.  A definition named X_Y is a faulty variant of X: no action uses *)
(* it, it stands for a plausible bug that a property has to detect.             *)

Lesser(a, b) == IF a < b THEN a ELSE b
Positive(a) == IF a > 0 THEN a ELSE 0

NextStatus_Strict(total, sum, status) ==
  IF status = "LOCKED_BY_SIGNATURE" THEN status
  ELSE IF sum > total THEN "PAID"
  ELSE IF sum > 0 THEN "PARTIALLY_PAID"
  ELSE IF status = "DRAFT" THEN "DRAFT" ELSE "SENT"

\* derivePaymentState: a locked invoice stays locked, otherwise the status
\* follows the sum paid.
NextStatus(total, sum, status) ==
  IF status = "LOCKED_BY_SIGNATURE" THEN status
  ELSE IF sum >= total THEN "PAID"
  ELSE IF sum > 0 THEN "PARTIALLY_PAID"
  ELSE IF status = "DRAFT" THEN "DRAFT" ELSE "SENT"

\* The invoice.update that follows derivePaymentState.
WithState(i, r, sum, status) ==
  [r EXCEPT !.status = NextStatus(Total[i], sum, status), !.received = sum >= Total[i]]

Paid_NoIncrement(i, r, x) ==
  LET after == [r EXCEPT !.rows = @ + x]
  IN  WithState(i, after, after.rows, after.status)

Paid_Overwrites(i, r, x) ==
  LET after == [r EXCEPT !.paid = x, !.rows = @ + x]
  IN  WithState(i, after, after.paid, after.status)

\* The InvoicePayment row and the increment of paidAmount of a single payment,
\* then the re-read of the row (locked by now) and its new state.
Paid(i, r, x) ==
  LET after == [r EXCEPT !.paid = @ + x, !.rows = @ + x]
  IN  WithState(i, after, after.paid, after.status)

\* How much of amount x may be booked against what is left: an excess is refused
\* unless it is a rounding difference of a foreign-currency invoice.
MayRound(i, x, left) == i \in Foreign /\ x - left <= Tolerance

PayablePart(x, left) == Lesser(x, left)

Payment_AlsoNothing(i, x, left) == x > left => MayRound(i, x, left)
Payment(i, x, left) ==
  /\ x > left => MayRound(i, x, left)
  /\ PayablePart(x, left) > 0

\* The bucket of an invoice when the open amounts are paid in FIFO order.
Bucket_Open(open, rest) == open
Bucket(open, rest) == Lesser(open, rest)

\* The part of x that goes to account a.
On(acct, a, x) == IF acct = a THEN x ELSE 0

BookPayment_CreditsAll(b, acct, x, over, mirror) ==
  [b EXCEPT !.cr211 = @ + x + over,
            !.cash = @ + On(acct, "101", x + over),
            !.bank = @ + On(acct, "221", x + over),
            !.registry = @ + IF mirror THEN x ELSE 0,
            !.orders = @ + On(acct, "101", x)]

BookPayment_OrderForMirror(b, acct, x, over, mirror) ==
  [b EXCEPT !.cr211 = @ + x,
            !.cash = @ + On(acct, "101", x + over),
            !.bank = @ + On(acct, "221", x + over),
            !.gain = @ + over,
            !.registry = @ + IF mirror THEN x ELSE 0,
            !.orders = @ + IF acct = "101" /\ mirror THEN x ELSE 0]

BookPayment_MirrorForBank(b, acct, x, over, mirror) ==
  [b EXCEPT !.cr211 = @ + x,
            !.cash = @ + On(acct, "101", x + over),
            !.bank = @ + On(acct, "221", x + over),
            !.gain = @ + over,
            !.registry = @ + IF mirror /\ acct = "221" THEN x ELSE 0,
            !.orders = @ + On(acct, "101", x)]

\* applyPaymentInTransaction: Dt account / Kt 211 for x, a registry mirror line
\* unless the money comes from a bank line, an automatic cash order when the
\* account is the cash account, and the rounding difference as exchange gain.
BookPayment(b, acct, x, over, mirror) ==
  [b EXCEPT !.cr211 = @ + x,
            !.cash = @ + On(acct, "101", x + over),
            !.bank = @ + On(acct, "221", x + over),
            !.gain = @ + over,
            !.registry = @ + IF mirror THEN x ELSE 0,
            !.orders = @ + On(acct, "101", x)]

\* postRevenueRecognition: Dt 211 / Kt 601 for the whole invoice.
BookRevenue(b, i) == [b EXCEPT !.dr211 = @ + Total[i]]

\* Whether a transaction that read row s has to recognize the revenue.
MustRecognize_Always(s) == TRUE
MustRecognize_Never(s) == FALSE
MustRecognize(s) == ~s.recognized

\* The statuses in which updateStatus, recordPayment and confirmMatch go on.
Editable_IfLocked(s) == s.status # "CANCELLED"
Editable(s) == s.status \notin {"CANCELLED", "LOCKED_BY_SIGNATURE"}

-----------------------------------------------------------------------------
(* Requests *)

\* Another client has an uncommitted version of the invoice.
Locked(c, i) == \E d \in Clients \ {c} : mine[d][i] # None

\* assertUserMayMutateInvoiceInPaidStatus, on a read before the transaction.
MayMutate(role, i) == role = "USER" => row[i].status # "PAID"

Open(c, r, step) ==
  /\ pc[c] = "idle" /\ r.op \in Requests
  /\ pc' = [pc EXCEPT ![c] = step]
  /\ req' = [req EXCEPT ![c] = r]

\* updateStatus, up to its transaction
AcceptStatus(c, op, role, i) ==
  /\ MayMutate(role, i)
  /\ Open(c, Ask(op, role, i, 0, None, None), "begin")
  /\ UNCHANGED <<row, books, line, sig, seen, plan, unspent, mine>>

\* recordPayment, up to its transaction
AcceptPay(c, role, i, x, acct) ==
  /\ MayMutate(role, i)
  /\ Open(c, Ask("PAY", role, i, x, acct, None), "begin")
  /\ UNCHANGED <<row, books, line, sig, seen, plan, unspent, mine>>

AcceptAlloc(c, role, x, acct) ==
  /\ Open(c, Ask("ALLOC", role, None, x, acct, None), "begin")
  /\ UNCHANGED <<row, books, line, sig, seen, plan, unspent, mine>>

Unmatched_Any(l) == TRUE
Unmatched(l) == ~line[l].matched

\* confirmMatch: the bank line is read first, the invoice after it
AcceptMatch(c, role, l, i) ==
  /\ Unmatched(l)
  /\ Open(c, Ask("BANK", role, i, 0, None, l), "begin")
  /\ UNCHANGED <<row, books, line, sig, seen, plan, unspent, mine>>

\* createNetting reads the receivable (by payment rows) and the payable before
\* its transaction.
Receivable ==
  SumOver([i \in Invoices |-> IF row[i].recognized /\ row[i].status # "CANCELLED"
                              THEN Positive(Total[i] - row[i].rows) ELSE 0], Invoices)

NettingLimit == Lesser(Receivable, Positive(books.ap531))

AcceptNetting(c, role, x) ==
  /\ role # "USER"
  /\ x <= NettingLimit
  /\ Open(c, Ask("NET", role, None, x, None, None), "begin")
  /\ UNCHANGED <<row, books, line, sig, seen, plan, unspent, mine>>

MaySign_Again(i) == row[i].status # "CANCELLED"
MaySign(i) ==
  /\ row[i].status \notin {"CANCELLED", "LOCKED_BY_SIGNATURE"}
  /\ sig[i].completed = 0

\* initiateInvoiceSignature, its checks
AcceptSignature(c, role, i) ==
  /\ MaySign(i)
  /\ Open(c, Ask("SIGN", role, i, 0, None, None), "drop")
  /\ UNCHANGED <<row, books, line, sig, seen, plan, unspent, mine>>

\* A refused, failed or cut-off request leaves nothing behind: its transaction is
\* rolled back.  This is every early return and every exception of the handlers.
Abort(c) ==
  /\ pc[c] # "idle"
  /\ pc' = [pc EXCEPT ![c] = "idle"]
  /\ req' = [req EXCEPT ![c] = NoRequest]
  /\ seen' = [seen EXCEPT ![c] = NewRow]
  /\ plan' = [plan EXCEPT ![c] = NoPlan]
  /\ unspent' = [unspent EXCEPT ![c] = 0]
  /\ mine' = [mine EXCEPT ![c] = NoWrites]
  /\ UNCHANGED <<row, books, line, sig>>

\* The end of a request that succeeded.
Finish(c) ==
  /\ pc' = [pc EXCEPT ![c] = "idle"]
  /\ req' = [req EXCEPT ![c] = NoRequest]
  /\ seen' = [seen EXCEPT ![c] = NewRow]
  /\ plan' = [plan EXCEPT ![c] = NoPlan]
  /\ unspent' = [unspent EXCEPT ![c] = 0]
  /\ mine' = [mine EXCEPT ![c] = NoWrites]

-----------------------------------------------------------------------------
(* One invoice: updateStatus, recordPayment, confirmMatch *)

\* What the transaction demands of the row it reads.
Admissible(r, s) ==
  /\ Editable(s)
  /\ r.op = "SENT" => s.paid <= 0
  /\ r.op = "PAY" => s.recognized /\ Payment(r.inv, r.amt, Total[r.inv] - s.paid)

ReadInvoice(c) ==
  /\ pc[c] = "begin" /\ req[c].op \in {"SENT", "PAID", "PAY"}
  /\ Admissible(req[c], row[req[c].inv])
  /\ seen' = [seen EXCEPT ![c] = row[req[c].inv]]
  /\ pc' = [pc EXCEPT ![c] = "ready"]
  /\ UNCHANGED <<row, books, line, sig, req, plan, unspent, mine>>

Ready(c, op) == pc[c] = "ready" /\ req[c].op = op /\ ~Locked(c, req[c].inv)

\* updateStatus(SENT)
CommitSent(c) ==
  LET i == req[c].inv
  IN  /\ Ready(c, "SENT")
      /\ row' = [row EXCEPT ![i] = [@ EXCEPT !.status = "SENT", !.recognized = TRUE]]
      /\ books' = IF MustRecognize(seen[c]) THEN BookRevenue(books, i) ELSE books
      /\ Finish(c)
      /\ UNCHANGED <<line, sig>>

\* updateStatus(PAID) when something is left to pay: the increment of paidAmount
\* locks the row, the state is derived from the locked row.
CommitPaid(c) ==
  LET i == req[c].inv
      left == Total[i] - seen[c].paid
      b == IF MustRecognize(seen[c]) THEN BookRevenue(books, i) ELSE books
  IN  /\ Ready(c, "PAID") /\ left > 0
      /\ row[i].rows + left <= MaxRows
      /\ row' = [row EXCEPT ![i] = [Paid(i, row[i], left) EXCEPT !.recognized = TRUE]]
      /\ books' = BookPayment(b, DebitAccount[i], left, 0, TRUE)
      /\ Finish(c)
      /\ UNCHANGED <<line, sig>>

\* updateStatus(PAID) when nothing is left: the sum and the status are read
\* again, without a lock, and written back.
RefreshPaid(c) ==
  LET i == req[c].inv
  IN  /\ pc[c] = "ready" /\ req[c].op = "PAID" /\ Total[i] - seen[c].paid <= 0
      /\ seen' = [seen EXCEPT ![c].paid = row[i].paid, ![c].status = row[i].status]
      /\ pc' = [pc EXCEPT ![c] = "fresh"]
      /\ UNCHANGED <<row, books, line, sig, req, plan, unspent, mine>>

CommitNothingLeft(c) ==
  LET i == req[c].inv
  IN  /\ pc[c] = "fresh" /\ req[c].op = "PAID" /\ ~Locked(c, i)
      /\ row' = [row EXCEPT ![i] = [WithState(i, row[i], seen[c].paid, seen[c].status)
                                      EXCEPT !.recognized = TRUE]]
      /\ books' = IF MustRecognize(seen[c]) THEN BookRevenue(books, i) ELSE books
      /\ Finish(c)
      /\ UNCHANGED <<line, sig>>

\* recordPayment
CommitPay(c) ==
  LET i == req[c].inv
      left == Total[i] - seen[c].paid
      x == PayablePart(req[c].amt, left)
  IN  /\ Ready(c, "PAY")
      /\ row[i].rows + x <= MaxRows
      /\ row' = [row EXCEPT ![i] = Paid(i, row[i], x)]
      /\ books' = BookPayment(books, req[c].acct, x, req[c].amt - x, TRUE)
      /\ Finish(c)
      /\ UNCHANGED <<line, sig>>

\* confirmMatch reads the invoice, without a lock as all reads of this path are.
FindInvoice(c) ==
  LET i == req[c].inv
  IN  /\ pc[c] = "begin" /\ req[c].op = "BANK" /\ Editable(row[i])
      /\ seen' = [seen EXCEPT ![c] = row[i]]
      /\ pc' = [pc EXCEPT ![c] = "match"]
      /\ UNCHANGED <<row, books, line, sig, req, plan, unspent, mine>>

\* An invoice that was PAID by then: the line is only tied to it.
MatchPaid(c) ==
  /\ pc[c] = "match" /\ req[c].op = "BANK" /\ seen[c].status = "PAID"
  /\ line' = [line EXCEPT ![req[c].line].matched = TRUE]
  /\ Finish(c)
  /\ UNCHANGED <<row, books, sig>>

\* Any other: applyBankPaymentInTransaction reads it once more and tests only the
\* signature.
FindPayable(c) ==
  LET i == req[c].inv
  IN  /\ pc[c] = "match" /\ req[c].op = "BANK" /\ seen[c].status # "PAID"
      /\ row[i].status # "LOCKED_BY_SIGNATURE"
      /\ seen' = [seen EXCEPT ![c] = row[i]]
      /\ pc' = [pc EXCEPT ![c] = IF MustRecognize(row[i]) THEN "ready" ELSE "again"]
      /\ UNCHANGED <<row, books, line, sig, req, plan, unspent, mine>>

\* A recognized invoice is read a third time, for what is left of it.
FindLeft(c) ==
  /\ pc[c] = "again" /\ req[c].op = "BANK"
  /\ seen' = [seen EXCEPT ![c] = row[req[c].inv]]
  /\ pc' = [pc EXCEPT ![c] = "ready"]
  /\ UNCHANGED <<row, books, line, sig, req, plan, unspent, mine>>

\* The rest of applyBankPaymentInTransaction: an invoice that is not recognized yet
\* is recognized, set to SENT and locked by that; what is left is then read from
\* the locked row.
CommitMatch(c) ==
  LET i == req[c].inv
      l == req[c].line
      s == seen[c]
      base == IF s.recognized THEN row[i]
              ELSE [row[i] EXCEPT !.recognized = TRUE, !.status = "SENT"]
      left == Total[i] - (IF s.recognized THEN s.paid ELSE row[i].paid)
      x == PayablePart(LineAmount[l], left)
      b == IF MustRecognize(s) THEN BookRevenue(books, i) ELSE books
  IN  /\ Ready(c, "BANK")
      /\ Payment(i, LineAmount[l], left)
      /\ row[i].rows + x <= MaxRows
      /\ row' = [row EXCEPT ![i] = Paid(i, base, x)]
      /\ books' = BookPayment(b, DebitAccount[i], x, LineAmount[l] - x, FALSE)
      /\ line' = [line EXCEPT ![l] = [matched |-> TRUE, booked |-> @.booked + 1]]
      /\ Finish(c)
      /\ UNCHANGED sig

-----------------------------------------------------------------------------
(* Several invoices: allocatePaymentAcrossInvoices, createNetting *)

\* What ALLOC distributes over: recognized invoices that are open by paidAmount.
AllocOpen ==
  [i \in Invoices |-> IF row[i].recognized /\ row[i].status \in {"SENT", "PARTIALLY_PAID", "PAID"}
                      THEN Total[i] - row[i].paid ELSE 0]

NetOpen_Unsent == [i \in Invoices |-> Total[i] - row[i].rows]

\* What NET distributes over: recognized invoices that are open by payment rows.
NetOpen ==
  [i \in Invoices |-> IF row[i].recognized /\ row[i].status # "CANCELLED"
                      THEN Total[i] - row[i].rows ELSE 0]

\* The first findMany of the transaction: the open amounts the buckets are cut
\* from.  An allocation with nothing open is refused.
ReadOpen(c) ==
  LET open == IF req[c].op = "ALLOC" THEN AllocOpen ELSE NetOpen
  IN  /\ pc[c] = "begin" /\ req[c].op \in {"ALLOC", "NET"}
      /\ \E i \in Invoices : open[i] > 0
      /\ plan' = [plan EXCEPT ![c] = [i \in Invoices |-> Positive(open[i])]]
      /\ unspent' = [unspent EXCEPT ![c] = req[c].amt]
      /\ pc' = [pc EXCEPT ![c] = "multi"]
      /\ UNCHANGED <<row, books, line, sig, req, seen, mine>>

Todo(c) == {i \in Invoices : unspent[c] > 0 /\ plan[c][i] > 0 /\ mine[c][i] = None}
Turn(c, i) == i \in Todo(c) /\ \A j \in Todo(c) : Rank[i] <= Rank[j]

\* The read of one invoice before it is written, without a lock.
ReadBucket(c, i) ==
  /\ pc[c] = "multi" /\ Turn(c, i)
  /\ seen' = [seen EXCEPT ![c] = row[i]]
  /\ pc' = [pc EXCEPT ![c] = "fresh"]
  /\ UNCHANGED <<row, books, line, sig, req, plan, unspent, mine>>

\* ALLOC writes paidAmount as the value read plus the bucket; NET leaves paidAmount
\* alone and derives the status from the payment rows.
WriteBucket(c, i) ==
  LET x == Bucket(plan[c][i], unspent[c])
      s == seen[c]
      r == [row[i] EXCEPT !.rows = @ + x]
  IN  /\ pc[c] = "fresh" /\ Turn(c, i) /\ ~Locked(c, i)
      /\ row[i].rows + x <= MaxRows
      /\ mine' = [mine EXCEPT ![c][i] =
                    IF req[c].op = "ALLOC"
                    THEN WithState(i, [r EXCEPT !.paid = s.paid + x], s.paid + x, s.status)
                    ELSE WithState(i, r, s.rows + x, s.status)]
      /\ unspent' = [unspent EXCEPT ![c] = @ - x]
      /\ pc' = [pc EXCEPT ![c] = "multi"]
      /\ UNCHANGED <<row, books, line, sig, req, seen, plan>>

\* A netting that leaves a remainder fails; an allocation may leave one.
Distributed_Partly(op, rest) == TRUE
Distributed(op, rest) == op = "NET" => rest = 0

CommitMulti(c) ==
  LET applied == req[c].amt - unspent[c]
  IN  /\ pc[c] = "multi" /\ Todo(c) = {}
      /\ Distributed(req[c].op, unspent[c])
      /\ row' = [i \in Invoices |-> IF mine[c][i] = None THEN row[i] ELSE mine[c][i]]
      /\ books' = IF req[c].op = "ALLOC"
                  THEN [books EXCEPT !.cr211 = @ + applied,
                                     !.cash = @ + On(req[c].acct, "101", applied),
                                     !.bank = @ + On(req[c].acct, "221", applied)]
                  ELSE [books EXCEPT !.cr211 = @ + req[c].amt, !.ap531 = @ - req[c].amt]
      /\ Finish(c)
      /\ UNCHANGED <<line, sig>>

-----------------------------------------------------------------------------
(* Signature *)

\* initiateInvoiceSignature: pending sessions are dropped, then one is created;
\* the two statements are not one transaction.
DropPending(c) ==
  /\ pc[c] = "drop"
  /\ sig' = [sig EXCEPT ![req[c].inv] = [@ EXCEPT !.pending = 0]]
  /\ pc' = [pc EXCEPT ![c] = "create"]
  /\ UNCHANGED <<row, books, line, req, seen, plan, unspent, mine>>

CreatePending(c) ==
  /\ pc[c] = "create" /\ sig[req[c].inv].pending < MaxPending
  /\ sig' = [sig EXCEPT ![req[c].inv] = [pending |-> @.pending + 1, completed |-> @.completed]]
  /\ Finish(c)
  /\ UNCHANGED <<row, books, line>>

\* getInvoiceSignatureStatus and tryFinalizeMockSignature: a status poll after the
\* delay completes a session that is still pending and locks the invoice,
\* whatever the invoice's status is by then.
PollSignature(c, i) ==
  /\ pc[c] = "idle" /\ "SIGN" \in Requests
  /\ sig[i].pending > 0 /\ ~Locked(c, i)
  /\ sig' = [sig EXCEPT ![i] = [pending |-> @.pending - 1, completed |-> @.completed + 1]]
  /\ row' = [row EXCEPT ![i] = [@ EXCEPT !.status = "LOCKED_BY_SIGNATURE"]]
  /\ UNCHANGED <<books, line, pc, req, seen, plan, unspent, mine>>

-----------------------------------------------------------------------------
Accept(c) ==
  \E role \in Roles :
    \/ \E i \in Invoices, op \in {"SENT", "PAID"} : AcceptStatus(c, op, role, i)
    \/ \E i \in Invoices, x \in Amounts, a \in Accounts : AcceptPay(c, role, i, x, a)
    \/ \E x \in Amounts, a \in Accounts : AcceptAlloc(c, role, x, a)
    \/ \E l \in Lines, i \in Invoices : AcceptMatch(c, role, l, i)
    \/ \E x \in Amounts : AcceptNetting(c, role, x)
    \/ \E i \in Invoices : AcceptSignature(c, role, i)

Single(c) ==
  \/ ReadInvoice(c)
  \/ CommitSent(c)
  \/ CommitPaid(c)
  \/ RefreshPaid(c)
  \/ CommitNothingLeft(c)
  \/ CommitPay(c)
  \/ FindInvoice(c)
  \/ MatchPaid(c)
  \/ FindPayable(c)
  \/ FindLeft(c)
  \/ CommitMatch(c)

Multi(c) ==
  \/ ReadOpen(c)
  \/ \E i \in Invoices : ReadBucket(c, i) \/ WriteBucket(c, i)
  \/ CommitMulti(c)

Sign(c) ==
  \/ DropPending(c)
  \/ CreatePending(c)
  \/ \E i \in Invoices : PollSignature(c, i)

Next == \E c \in Clients : Accept(c) \/ Single(c) \/ Multi(c) \/ Sign(c) \/ Abort(c)

Spec == Init /\ [][Next]_vars

-----------------------------------------------------------------------------
(* Properties.  Which of them hold depends on the endpoints in use and on     *)
(* whether requests overlap; the runs and the theorems say which.             *)

\* Types of the variables.
TypeOK ==
  /\ row \in [Invoices -> Row]
  /\ books \in Books
  /\ line \in [Lines -> [matched : BOOLEAN, booked : Nat]]
  /\ sig \in [Invoices -> [pending : Nat, completed : Nat]]
  /\ pc \in [Clients -> Steps]
  /\ req \in [Clients -> Request]
  /\ seen \in [Clients -> Row]
  /\ plan \in [Clients -> [Invoices -> Nat]]
  /\ unspent \in [Clients -> Nat]
  /\ mine \in [Clients -> [Invoices -> Row \cup {None}]]

\* The credit turnover of account 211 is the sum of all InvoicePayment rows: every
\* path that books a payment, a bank match, an allocation over several invoices or
\* a netting writes both in one transaction, however requests interleave.
Subledger211 == SumOver([i \in Invoices |-> row[i].rows], Invoices) = books.cr211

\* Nothing is booked as paid on an invoice whose revenue (Dt 211 / Kt 601) has not
\* been posted, by whichever of the concurrent requests.
RevenueBeforeMoney == \A i \in Invoices : row[i].rows > 0 => row[i].recognized

\* Every recognized invoice has its debit on 211.
RecognizedIsPosted == books.dr211 >= SumOver(Total, {i \in Invoices : row[i].recognized})

\* Revenue of an invoice is posted once.
RevenueOnce == books.dr211 = SumOver(Total, {i \in Invoices : row[i].recognized})

\* paidAmount is the sum of the payments of the invoice.
PaidIsSumOfPayments == \A i \in Invoices : row[i].paid = row[i].rows

\* Payments of an invoice never exceed its total.
NeverOverpaid == \A i \in Invoices : row[i].rows <= Total[i]

\* The status of an invoice says how far it is paid.
StatusFollowsMoney ==
  \A i \in Invoices : LET r == row[i] IN
    /\ r.status = "DRAFT" => r.rows = 0 /\ ~r.recognized
    /\ r.status = "SENT" => r.rows = 0 /\ r.recognized
    /\ r.status = "PARTIALLY_PAID" => r.rows > 0 /\ r.rows < Total[i]
    /\ r.status = "PAID" => r.rows = Total[i] /\ r.received
    /\ r.received => r.rows = Total[i]

\* However often foreign-currency invoices are paid a little too much, each of them
\* yields at most one rounding difference.
RoundingBounded == books.gain <= Tolerance * Cardinality(Foreign)

\* A bank statement line is booked as a payment at most once, and then it is matched.
LineBookedOnce ==
  \A l \in Lines : line[l].booked <= 1 /\ (line[l].booked = 1 => line[l].matched)

\* Money received on the cash account is covered by automatic cash orders.
CashHasOrders == books.orders + books.gain >= books.cash

\* Money received is in the bank and cash registry: a mirror line of a payment or a
\* matched line of a statement.
MoneyIsRegistered ==
  books.registry + books.gain
    + SumOver([l \in Lines |-> line[l].booked * LineAmount[l]], Lines)
  >= books.cash + books.bank

\* An invoice has at most one completed signature.
SignedOnce == \A i \in Invoices : sig[i].completed <= 1

\* No payment recorded on an invoice is ever forgotten by paidAmount.
PaidNeverShrinks == [][\A i \in Invoices : row'[i].paid >= row[i].paid]_vars

-----------------------------------------------------------------------------
(* Refinement: requests that do not overlap implement OpenItems, netting      *)
(* excepted.                                                                  *)

StandingOfStatus(status) ==
  CASE status = "DRAFT" -> "draft"
    [] status = "SENT" -> "open"
    [] status = "PARTIALLY_PAID" -> "partly"
    [] status = "PAID" -> "closed"
    [] OTHER -> "signed"

Items == INSTANCE OpenItems WITH
  item <- [i \in Invoices |-> [billed |-> row[i].recognized, settled |-> row[i].rows,
                               standing |-> StandingOfStatus(row[i].status)]]

\* Every committed request bills, settles or signs open items as OpenItems allows: once,
\* never beyond the total, and nothing after the signature.  The schema: "editing and
\* payments are blocked after a successful signature".
ImplementsOpenItems == Items!Spec
=============================================================================
