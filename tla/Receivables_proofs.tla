------------------------- MODULE Receivables_proofs -------------------------
(***************************************************************************)
(* Theorems about Receivables, for every number of clients, invoices and   *)
(* bank lines and for requests that overlap in any way:                    *)
(*   TypeCorrect        the type invariant,                                *)
(*   RevenueFirst       no payment is booked on an unrecognized invoice,   *)
(*   SubledgerAgrees    account 211 is credited with the payment rows,     *)
(*   RecognizedPosted   no recognized invoice lacks its debit on 211;      *)
(* where no allocation is offered (NoAllocations):                         *)
(*   CashCovered, MoneyRegistered, PaidOnlyGrows;                          *)
(* and where neither an allocation nor a netting is offered:               *)
(*   PaidIsSum          paidAmount is the sum of the payments.             *)
(* The argument about sums: a session over several invoices holds the      *)
(* locks of the rows it has written until it commits (RowsLocked), so that *)
(* what it adds to them is still what it has spent (BucketsAddUp), and     *)
(* every other commit changes one row by what it books (OneCommit).        *)
(***************************************************************************)
EXTENDS Receivables, Sums_proofs

-----------------------------------------------------------------------------
(* Lemmas about the operators of the model *)

\* derivePaymentState changes the status and the paid flag of an invoice row and
\* nothing else.
LEMMA WithStateFields ==
  ASSUME NEW i \in Invoices, NEW r \in Row, NEW sum \in Int, NEW st \in Statuses
  PROVE  /\ WithState(i, r, sum, st) \in Row
         /\ WithState(i, r, sum, st).paid = r.paid
         /\ WithState(i, r, sum, st).rows = r.rows
         /\ WithState(i, r, sum, st).recognized = r.recognized
         /\ WithState(i, r, sum, st).status = NextStatus(Total[i], sum, st)
         /\ WithState(i, r, sum, st).received = (sum >= Total[i])
<1>1. Total[i] \in Nat
  BY ReceivablesAssumption
<1>2. NextStatus(Total[i], sum, st) \in Statuses
  BY DEF NextStatus, Statuses
<1>3. (sum >= Total[i]) \in BOOLEAN
  BY <1>1
<1>4. QED
  BY <1>2, <1>3 DEF WithState, Row

\* A single payment adds the same amount to paidAmount and to the payment rows.
LEMMA PaidFields ==
  ASSUME NEW i \in Invoices, NEW r \in Row, NEW x \in Int
  PROVE  /\ Paid(i, r, x) \in Row
         /\ Paid(i, r, x).paid = r.paid + x
         /\ Paid(i, r, x).rows = r.rows + x
         /\ Paid(i, r, x).recognized = r.recognized
         /\ Paid(i, r, x).status = NextStatus(Total[i], r.paid + x, r.status)
         /\ Paid(i, r, x).received = (r.paid + x >= Total[i])
<1> DEFINE after == [r EXCEPT !.paid = @ + x, !.rows = @ + x]
<1>1. /\ after \in Row
      /\ after.paid = r.paid + x
      /\ after.rows = r.rows + x
      /\ after.recognized = r.recognized
      /\ after.status = r.status
  <2>1. r.paid + x \in Int /\ r.rows + x \in Int
    BY DEF Row
  <2> HIDE DEF after
  <2>2. \A a, b \in Int : [r EXCEPT !.paid = a, !.rows = b] \in Row
    BY DEF Row
  <2>3. after \in Row
    BY <2>1, <2>2 DEF after
  <2>4. after.paid = r.paid + x 
    BY DEF Row, after
  <2>5. after.rows = r.rows + x 
    BY DEF Row, after
  <2>6. after.recognized = r.recognized /\ after.status = r.status
    BY DEF Row, after
  <2>7. QED BY <2>3, <2>4, <2>5, <2>6
<1>2. after.paid \in Int /\ after.status \in Statuses
  BY <1>1 DEF Row
<1> HIDE DEF after
<1>3. /\ WithState(i, after, after.paid, after.status) \in Row
      /\ WithState(i, after, after.paid, after.status).paid = after.paid
      /\ WithState(i, after, after.paid, after.status).rows = after.rows
      /\ WithState(i, after, after.paid, after.status).recognized = after.recognized
      /\ WithState(i, after, after.paid, after.status).status =
           NextStatus(Total[i], after.paid, after.status)
      /\ WithState(i, after, after.paid, after.status).received = (after.paid >= Total[i])
  BY <1>1, <1>2, WithStateFields
<1>4. Paid(i, r, x) = WithState(i, after, after.paid, after.status)
  BY DEF Paid, after
<1>5. QED
  BY <1>1, <1>3, <1>4

\* Booking revenue keeps the books well typed.
LEMMA RevenueTypes ==
  ASSUME NEW b \in Books, NEW i \in Invoices
  PROVE  BookRevenue(b, i) \in Books
<1>1. Total[i] \in Nat
  BY ReceivablesAssumption
<1>2. QED
  BY <1>1 DEF BookRevenue, Books

\* So does booking a payment.
LEMMA BookTypes ==
  ASSUME NEW b \in Books, NEW x \in Int, NEW over \in Int, NEW acct, NEW mirror \in BOOLEAN
  PROVE  BookPayment(b, acct, x, over, mirror) \in Books
<1>1. \A a, y \in {acct, "101", "221"}, z \in Int : On(a, y, z) \in Int
  BY DEF On
<1>2. \A cr, ca, ba, g, rg, o \in Int :
        [b EXCEPT !.cr211 = b.cr211 + cr, !.cash = b.cash + ca, !.bank = b.bank + ba,
                  !.gain = b.gain + g, !.registry = b.registry + rg,
                  !.orders = b.orders + o] \in Books
  <2>1. /\ b.cr211 \in Int /\ b.cash \in Int /\ b.bank \in Int
        /\ b.gain \in Int /\ b.registry \in Int /\ b.orders \in Int
    BY DEF Books
  <2>2. \A cr, ca, ba, g, rg, o \in Int :
          [b EXCEPT !.cr211 = cr, !.cash = ca, !.bank = ba, !.gain = g, !.registry = rg,
                    !.orders = o] \in Books
    BY DEF Books
  <2>3. \A y, z \in Int : y + z \in Int
    OBVIOUS
  <2>4. QED
    BY <2>1, <2>2, <2>3
<1>3. (IF mirror THEN x ELSE 0) \in Int
  OBVIOUS
<1>4. x + over \in Int
  OBVIOUS
<1>5. QED
  BY <1>1, <1>2, <1>3, <1>4 DEF BookPayment

-----------------------------------------------------------------------------
(* Type correctness *)

\* Sessions are well typed, and a request about an invoice or a line names one.
SessionOK ==
  /\ pc \in [Clients -> Steps]
  /\ req \in [Clients -> Request]
  /\ seen \in [Clients -> Row]
  /\ plan \in [Clients -> [Invoices -> Nat]]
  /\ unspent \in [Clients -> Nat]
  /\ mine \in [Clients -> [Invoices -> Row \cup {None}]]
  /\ \A c \in Clients : req[c].op \in {"SENT", "PAID", "PAY", "BANK"} => req[c].inv \in Invoices
  /\ \A c \in Clients : req[c].op = "BANK" => req[c].line \in Lines

\* The type invariant and what it rests on.
TypeInv == TypeOK /\ SessionOK

\* A request is well typed when its parts are.
LEMMA AskTypes ==
  ASSUME NEW op \in AllRequests \cup {None}, NEW role \in Roles \cup {None},
         NEW i \in Invoices \cup {None}, NEW x \in Nat, NEW acct \in Accounts \cup {None},
         NEW l \in Lines \cup {None}
  PROVE  /\ Ask(op, role, i, x, acct, l) \in Request
         /\ Ask(op, role, i, x, acct, l).op = op
         /\ Ask(op, role, i, x, acct, l).inv = i
         /\ Ask(op, role, i, x, acct, l).line = l
BY DEF Ask, Request

\* The resting values of a session are well typed.
LEMMA IdleTypes ==
  /\ NewRow \in Row
  /\ NoPlan \in [Invoices -> Nat]
  /\ NoWrites \in [Invoices -> Row \cup {None}]
  /\ NoRequest \in Request
  /\ NoRequest.op = None
<1>1. NewRow \in Row
  BY DEF NewRow, Row, Statuses
<1>2. NoPlan \in [Invoices -> Nat] /\ NoWrites \in [Invoices -> Row \cup {None}]
  BY DEF NoPlan, NoWrites
<1>3. NoRequest \in Request
  BY AskTypes DEF NoRequest
<1>4. NoRequest.op = None
  BY DEF NoRequest, Ask
<1>5. QED
  BY <1>1, <1>2, <1>3, <1>4

\* The end of a request leaves well-typed sessions.
LEMMA FinishTypes ==
  ASSUME SessionOK, NEW c \in Clients, Finish(c)
  PROVE  SessionOK'
<1>1. None \notin AllRequests
  BY ReceivablesAssumption
<1>2. QED
  BY <1>1, IdleTypes DEF SessionOK, Finish, Steps, AllRequests

\* So does the acceptance of a request that names what it is about.
LEMMA OpenTypes ==
  ASSUME SessionOK, NEW c \in Clients, NEW r \in Request, NEW step \in Steps,
         Open(c, r, step), UNCHANGED <<seen, plan, unspent, mine>>,
         r.op \in {"SENT", "PAID", "PAY", "BANK"} => r.inv \in Invoices,
         r.op = "BANK" => r.line \in Lines
  PROVE  SessionOK'
BY DEF SessionOK, Open

\* Every action keeps the types.
LEMMA TypeStep == TypeInv /\ [Next]_vars => TypeInv'
<1> SUFFICES ASSUME TypeInv, [Next]_vars PROVE TypeInv'
  OBVIOUS
<1> USE DEF TypeInv
<1>a. ASSUME UNCHANGED vars PROVE TypeInv'
  BY <1>a DEF vars, TypeOK, SessionOK
<1>b. ASSUME NEW c \in Clients, Accept(c) PROVE TypeInv'
  <2> DEFINE Kept == UNCHANGED <<row, books, line, sig, seen, plan, unspent, mine>>
  <2>1. PICK role \in Roles :
          \/ \E i \in Invoices, op \in {"SENT", "PAID"} : AcceptStatus(c, op, role, i)
          \/ \E i \in Invoices, x \in Amounts, a \in Accounts : AcceptPay(c, role, i, x, a)
          \/ \E x \in Amounts, a \in Accounts : AcceptAlloc(c, role, x, a)
          \/ \E l \in Lines, i \in Invoices : AcceptMatch(c, role, l, i)
          \/ \E x \in Amounts : AcceptNetting(c, role, x)
          \/ \E i \in Invoices : AcceptSignature(c, role, i)
    BY <1>b DEF Accept
  <2>2. \E r \in Request, step \in Steps :
          /\ Open(c, r, step) /\ Kept
          /\ r.op \in {"SENT", "PAID", "PAY", "BANK"} => r.inv \in Invoices
          /\ r.op = "BANK" => r.line \in Lines
    <3>0. Amounts \subseteq Nat /\ 0 \in Nat /\ {"begin", "drop"} \subseteq Steps
      BY ReceivablesAssumption DEF Steps
    <3> DEFINE Goal == \E r \in Request, step \in Steps :
                         /\ Open(c, r, step) /\ Kept
                         /\ r.op \in {"SENT", "PAID", "PAY", "BANK"} => r.inv \in Invoices
                         /\ r.op = "BANK" => r.line \in Lines
    <3>1. ASSUME NEW i \in Invoices, NEW op \in {"SENT", "PAID"}, AcceptStatus(c, op, role, i) PROVE Goal
      <4> DEFINE r == Ask(op, role, i, 0, None, None)
      <4>1. /\ r \in Request /\ r.op = op /\ r.inv = i /\ r.line = None
        BY <3>0, AskTypes DEF AllRequests
      <4>2. Open(c, r, "begin") /\ Kept
        BY <3>1 DEF AcceptStatus
      <4> HIDE DEF r
      <4>3. QED
        BY <3>0, <4>1, <4>2
    <3>2. ASSUME NEW i \in Invoices, NEW x \in Amounts, NEW a \in Accounts, AcceptPay(c, role, i, x, a) PROVE Goal
      <4> DEFINE r == Ask("PAY", role, i, x, a, None)
      <4>1. /\ r \in Request /\ r.op = "PAY" /\ r.inv = i /\ r.line = None
        BY <3>0, AskTypes DEF AllRequests
      <4>2. Open(c, r, "begin") /\ Kept
        BY <3>2 DEF AcceptPay
      <4> HIDE DEF r
      <4>3. QED
        BY <3>0, <4>1, <4>2
    <3>3. ASSUME NEW x \in Amounts, NEW a \in Accounts, AcceptAlloc(c, role, x, a) PROVE Goal
      <4> DEFINE r == Ask("ALLOC", role, None, x, a, None)
      <4>1. /\ r \in Request /\ r.op = "ALLOC" /\ r.inv = None /\ r.line = None
        BY <3>0, AskTypes DEF AllRequests
      <4>2. Open(c, r, "begin") /\ Kept
        BY <3>3 DEF AcceptAlloc
      <4> HIDE DEF r
      <4>3. QED
        BY <3>0, <4>1, <4>2
    <3>4. ASSUME NEW l \in Lines, NEW i \in Invoices, AcceptMatch(c, role, l, i) PROVE Goal
      <4> DEFINE r == Ask("BANK", role, i, 0, None, l)
      <4>1. /\ r \in Request /\ r.op = "BANK" /\ r.inv = i /\ r.line = l
        BY <3>0, AskTypes DEF AllRequests
      <4>2. Open(c, r, "begin") /\ Kept
        BY <3>4 DEF AcceptMatch
      <4> HIDE DEF r
      <4>3. QED
        BY <3>0, <4>1, <4>2
    <3>5. ASSUME NEW x \in Amounts, AcceptNetting(c, role, x) PROVE Goal
      <4> DEFINE r == Ask("NET", role, None, x, None, None)
      <4>1. /\ r \in Request /\ r.op = "NET" /\ r.inv = None /\ r.line = None
        BY <3>0, AskTypes DEF AllRequests
      <4>2. Open(c, r, "begin") /\ Kept
        BY <3>5 DEF AcceptNetting
      <4> HIDE DEF r
      <4>3. QED
        BY <3>0, <4>1, <4>2
    <3>6. ASSUME NEW i \in Invoices, AcceptSignature(c, role, i) PROVE Goal
      <4> DEFINE r == Ask("SIGN", role, i, 0, None, None)
      <4>1. /\ r \in Request /\ r.op = "SIGN" /\ r.inv = i /\ r.line = None
        BY <3>0, AskTypes DEF AllRequests
      <4>2. Open(c, r, "drop") /\ Kept
        BY <3>6 DEF AcceptSignature
      <4> HIDE DEF r
      <4>3. QED
        BY <3>0, <4>1, <4>2
    <3>7. QED
      BY <2>1, <3>1, <3>2, <3>3, <3>4, <3>5, <3>6
  <2>3. SessionOK'
    BY <2>2, OpenTypes
  <2>4. QED
    BY <2>2, <2>3 DEF TypeOK, SessionOK
<1>c. ASSUME NEW c \in Clients, Abort(c) PROVE TypeInv'
  <2>1. Finish(c) /\ UNCHANGED <<row, books, line, sig>>
    BY <1>c DEF Abort, Finish
  <2>2. QED
    BY <2>1, FinishTypes DEF TypeOK, SessionOK
<1>d. ASSUME NEW c \in Clients, ReadInvoice(c) \/ FindInvoice(c) \/ FindPayable(c) \/ FindLeft(c) PROVE TypeInv'
  <2>1. req[c].inv \in Invoices /\ row[req[c].inv] \in Row
    BY <1>d DEF ReadInvoice, FindInvoice, FindPayable, FindLeft, SessionOK, TypeOK
  <2>2. QED
    BY <1>d, <2>1 DEF ReadInvoice, FindInvoice, FindPayable, FindLeft, TypeOK, SessionOK, Steps
<1>e. ASSUME NEW c \in Clients, CommitSent(c) PROVE TypeInv'
  <2> DEFINE i == req[c].inv
  <2>1. i \in Invoices /\ row[i] \in Row
    BY <1>e DEF CommitSent, Ready, SessionOK, TypeOK
  <2>2. row' = [row EXCEPT ![i] = [row[i] EXCEPT !.status = "SENT", !.recognized = TRUE]]
    BY <1>e, <2>1 DEF CommitSent, TypeOK
  <2>3. row' \in [Invoices -> Row]
    <3>1. [row[i] EXCEPT !.status = "SENT", !.recognized = TRUE] \in Row
      BY <2>1 DEF Row, Statuses
    <3>2. QED
      BY <2>2, <3>1 DEF TypeOK
  <2>4. books' \in Books
    BY <1>e, <2>1, RevenueTypes DEF CommitSent, TypeOK
  <2>5. SessionOK' /\ UNCHANGED <<line, sig>>
    BY <1>e, FinishTypes DEF CommitSent
  <2>6. QED
    BY <2>3, <2>4, <2>5 DEF TypeOK, SessionOK
<1>f. ASSUME NEW c \in Clients, CommitPaid(c) PROVE TypeInv'
  <2> DEFINE i == req[c].inv
             left == Total[i] - seen[c].paid
             new == Paid(i, row[i], left)
             b == IF MustRecognize(seen[c]) THEN BookRevenue(books, i) ELSE books
  <2>1. i \in Invoices /\ row[i] \in Row /\ left \in Int
    <3>1. i \in Invoices /\ row[i] \in Row /\ seen[c] \in Row
      BY <1>f DEF CommitPaid, Ready, SessionOK, TypeOK
    <3>2. Total[i] \in Int /\ seen[c].paid \in Int
      BY <3>1, ReceivablesAssumption DEF Row
    <3>3. QED
      BY <3>1, <3>2
  <2>2. [new EXCEPT !.recognized = TRUE] \in Row
    <3>1. new \in Row
      BY <2>1, PaidFields
    <3> HIDE DEF new
    <3>2. QED
      BY <3>1 DEF Row
  <2>3. row' \in [Invoices -> Row]
    BY <1>f, <2>1, <2>2 DEF CommitPaid, TypeOK
  <2>4. b \in Books
    BY <2>1, RevenueTypes DEF TypeOK
  <2>5. books' \in Books
    <3>1. books' = BookPayment(b, DebitAccount[i], left, 0, TRUE)
      BY <1>f DEF CommitPaid
    <3> HIDE DEF b, left, new
    <3>2. 0 \in Int /\ TRUE \in BOOLEAN
      OBVIOUS
    <3> HIDE DEF i
    <3>3. QED
      BY <3>1, <3>2, <2>1, <2>4, BookTypes
  <2>6. SessionOK' /\ UNCHANGED <<line, sig>>
    BY <1>f, FinishTypes DEF CommitPaid
  <2>7. QED
    BY <2>3, <2>5, <2>6 DEF TypeOK, SessionOK
<1>g. ASSUME NEW c \in Clients, RefreshPaid(c) PROVE TypeInv'
  <2> DEFINE i == req[c].inv
             s == [seen[c] EXCEPT !.paid = row[i].paid, !.status = row[i].status]
  <2>1. i \in Invoices /\ row[i] \in Row /\ seen[c] \in Row
    BY <1>g DEF RefreshPaid, SessionOK, TypeOK
  <2>2. s \in Row
    BY <2>1 DEF Row
  <2>3. seen' = [seen EXCEPT ![c] = s]
    BY <1>g DEF RefreshPaid, TypeOK
  <2> HIDE DEF s
  <2>4. QED
    BY <1>g, <2>2, <2>3 DEF RefreshPaid, TypeOK, SessionOK, Steps
<1>h. ASSUME NEW c \in Clients, CommitNothingLeft(c) PROVE TypeInv'
  <2> DEFINE i == req[c].inv
             new == WithState(i, row[i], seen[c].paid, seen[c].status)
  <2>1. i \in Invoices /\ row[i] \in Row /\ seen[c].paid \in Int /\ seen[c].status \in Statuses
    BY <1>h DEF CommitNothingLeft, SessionOK, TypeOK, Row
  <2>2. [new EXCEPT !.recognized = TRUE] \in Row
    <3>1. new \in Row
      BY <2>1, WithStateFields
    <3> HIDE DEF new
    <3>2. QED
      BY <3>1 DEF Row
  <2>3. row' \in [Invoices -> Row]
    BY <1>h, <2>1, <2>2 DEF CommitNothingLeft, TypeOK
  <2>4. books' \in Books
    BY <1>h, <2>1, RevenueTypes DEF CommitNothingLeft, TypeOK
  <2>5. SessionOK' /\ UNCHANGED <<line, sig>>
    BY <1>h, FinishTypes DEF CommitNothingLeft
  <2>6. QED
    BY <2>3, <2>4, <2>5 DEF TypeOK, SessionOK
<1>i. ASSUME NEW c \in Clients, CommitPay(c) PROVE TypeInv'
  <2> DEFINE i == req[c].inv
             x == PayablePart(req[c].amt, Total[i] - seen[c].paid)
  <2>1. i \in Invoices /\ row[i] \in Row
    BY <1>i DEF CommitPay, Ready, SessionOK, TypeOK
  <2>2. x \in Int /\ req[c].amt - x \in Int
    <3>1. Total[i] \in Int /\ seen[c].paid \in Int /\ req[c].amt \in Int
      BY <2>1, ReceivablesAssumption DEF TypeOK, Row, Request
    <3>2. QED
      BY <3>1 DEF PayablePart, Lesser
  <2>3. row' = [row EXCEPT ![i] = Paid(i, row[i], x)]
        /\ books' = BookPayment(books, req[c].acct, x, req[c].amt - x, TRUE)
    BY <1>i DEF CommitPay
  <2> HIDE DEF x
  <2>4. row' \in [Invoices -> Row] /\ books' \in Books
    BY <2>1, <2>2, <2>3, PaidFields, BookTypes DEF TypeOK
  <2>5. SessionOK' /\ UNCHANGED <<line, sig>>
    BY <1>i, FinishTypes DEF CommitPay
  <2>6. QED
    BY <2>4, <2>5 DEF TypeOK, SessionOK
<1>j. ASSUME NEW c \in Clients, MatchPaid(c) PROVE TypeInv'
  <2>1. line' \in [Lines -> [matched : BOOLEAN, booked : Nat]]
    BY <1>j DEF MatchPaid, TypeOK
  <2>2. SessionOK' /\ UNCHANGED <<row, books, sig>>
    BY <1>j, FinishTypes DEF MatchPaid
  <2>3. QED
    BY <2>1, <2>2 DEF TypeOK, SessionOK
<1>k. ASSUME NEW c \in Clients, CommitMatch(c) PROVE TypeInv'
  <2> DEFINE i == req[c].inv
             l == req[c].line
             s == seen[c]
             base == IF s.recognized THEN row[i]
                     ELSE [row[i] EXCEPT !.recognized = TRUE, !.status = "SENT"]
             left == Total[i] - (IF s.recognized THEN s.paid ELSE row[i].paid)
             x == PayablePart(LineAmount[l], left)
             b == IF MustRecognize(s) THEN BookRevenue(books, i) ELSE books
  <2>1. i \in Invoices /\ l \in Lines /\ row[i] \in Row /\ s \in Row
    BY <1>k DEF CommitMatch, Ready, SessionOK, TypeOK
  <2>2. base \in Row
    BY <2>1 DEF Row, Statuses
  <2>3. x \in Int /\ LineAmount[l] - x \in Int
    <3>1. Total[i] \in Int /\ LineAmount[l] \in Int /\ s.paid \in Int /\ row[i].paid \in Int
      BY <2>1, ReceivablesAssumption DEF Row
    <3>2. left \in Int
      BY <3>1
    <3> HIDE DEF left
    <3>3. QED
      BY <3>1, <3>2 DEF PayablePart, Lesser
  <2>4. b \in Books
    BY <2>1, RevenueTypes DEF TypeOK
  <2>5. /\ row' = [row EXCEPT ![i] = Paid(i, base, x)]
        /\ books' = BookPayment(b, DebitAccount[i], x, LineAmount[l] - x, FALSE)
        /\ line' = [line EXCEPT ![l] = [matched |-> TRUE, booked |-> line[l].booked + 1]]
    BY <1>k, <2>1 DEF CommitMatch, TypeOK
  <2> HIDE DEF base, x, b
  <2>6. row' \in [Invoices -> Row] /\ books' \in Books
    BY <2>1, <2>2, <2>3, <2>4, <2>5, PaidFields, BookTypes DEF TypeOK
  <2>7. line' \in [Lines -> [matched : BOOLEAN, booked : Nat]]
    BY <2>1, <2>5 DEF TypeOK
  <2>8. SessionOK' /\ UNCHANGED sig
    BY <1>k, FinishTypes DEF CommitMatch
  <2>9. QED
    BY <2>6, <2>7, <2>8 DEF TypeOK, SessionOK
<1>l. ASSUME NEW c \in Clients, ReadOpen(c) PROVE TypeInv'
  <2>1. /\ AllocOpen \in [Invoices -> Int]
        /\ NetOpen \in [Invoices -> Int]
    BY ReceivablesAssumption DEF AllocOpen, NetOpen, TypeOK, Row
  <2>2. \A n \in Int : Positive(n) \in Nat
    BY DEF Positive
  <2>3. PICK open \in [Invoices -> Int] :
          plan' = [plan EXCEPT ![c] = [i \in Invoices |-> Positive(open[i])]]
    BY <1>l, <2>1 DEF ReadOpen
  <2>4. [i \in Invoices |-> Positive(open[i])] \in [Invoices -> Nat]
    BY <2>2
  <2>5. plan' \in [Clients -> [Invoices -> Nat]]
    BY <2>3, <2>4 DEF TypeOK
  <2>6. unspent' \in [Clients -> Nat]
    BY <1>l DEF ReadOpen, TypeOK, Request
  <2>7. QED
    BY <1>l, <2>5, <2>6 DEF ReadOpen, TypeOK, SessionOK, Steps
<1>m. ASSUME NEW c \in Clients, NEW i \in Invoices, ReadBucket(c, i) PROVE TypeInv'
  BY <1>m DEF ReadBucket, TypeOK, SessionOK, Steps
<1>n. ASSUME NEW c \in Clients, NEW i \in Invoices, WriteBucket(c, i) PROVE TypeInv'
  <2> DEFINE x == Bucket(plan[c][i], unspent[c])
             s == seen[c]
             r == [row[i] EXCEPT !.rows = @ + x]
             q == [r EXCEPT !.paid = s.paid + x]
  <2>1. row[i] \in Row /\ s \in Row /\ plan[c][i] \in Nat /\ unspent[c] \in Nat
    BY DEF TypeOK
  <2>2. x \in Nat /\ unspent[c] - x \in Nat
    BY <2>1 DEF Bucket, Lesser
  <2>3. r \in Row /\ q \in Row
    <3>1. row[i].rows + x \in Int /\ s.paid + x \in Int
      BY <2>1, <2>2 DEF Row
    <3>2. \A z \in Row, a \in Int : [z EXCEPT !.rows = a] \in Row /\ [z EXCEPT !.paid = a] \in Row
      BY DEF Row
    <3> HIDE DEF x
    <3>3. QED
      BY <2>1, <3>1, <3>2
  <2>4. /\ s.paid + x \in Int /\ s.rows + x \in Int /\ s.status \in Statuses
    BY <2>1, <2>2 DEF Row
  <2>5. PICK w \in Row : mine' = [mine EXCEPT ![c][i] = w]
    <3>1. mine' = [mine EXCEPT ![c][i] = IF req[c].op = "ALLOC"
                                         THEN WithState(i, q, s.paid + x, s.status)
                                         ELSE WithState(i, r, s.rows + x, s.status)]
      BY <1>n DEF WriteBucket
    <3> HIDE DEF q, r, x, s
    <3>2. WithState(i, q, s.paid + x, s.status) \in Row /\ WithState(i, r, s.rows + x, s.status) \in Row
      BY <2>3, <2>4, WithStateFields
    <3>3. QED
      BY <3>1, <3>2
  <2>6. mine' \in [Clients -> [Invoices -> Row \cup {None}]]
    BY <2>5 DEF TypeOK
  <2>7. unspent' \in [Clients -> Nat]
    <3>1. unspent' = [unspent EXCEPT ![c] = unspent[c] - x]
      BY <1>n DEF WriteBucket, TypeOK
    <3> HIDE DEF x
    <3>2. QED
      BY <3>1, <2>2 DEF TypeOK
  <2>8. QED
    BY <1>n, <2>6, <2>7 DEF WriteBucket, TypeOK, SessionOK, Steps
<1>o. ASSUME NEW c \in Clients, CommitMulti(c) PROVE TypeInv'
  <2> DEFINE applied == req[c].amt - unspent[c]
  <2>1. row' \in [Invoices -> Row]
    BY <1>o DEF CommitMulti, TypeOK
  <2>2. req[c].amt \in Int /\ applied \in Int
    BY DEF TypeOK, Request
  <2>3. On(req[c].acct, "101", applied) \in Int /\ On(req[c].acct, "221", applied) \in Int
    BY <2>2 DEF On
  <2>4. \A p, q, n \in Int :
          /\ [books EXCEPT !.cr211 = p, !.cash = q, !.bank = n] \in Books
          /\ [books EXCEPT !.cr211 = p, !.ap531 = q] \in Books
    BY DEF TypeOK, Books
  <2>5. \A p \in Int : /\ books.cr211 + p \in Int /\ books.cash + p \in Int
                       /\ books.bank + p \in Int /\ books.ap531 - p \in Int
    BY DEF TypeOK, Books
  <2>6. books' \in Books
    <3>1. \/ books' = [books EXCEPT !.cr211 = books.cr211 + applied,
                       !.cash = books.cash + On(req[c].acct, "101", applied),
                       !.bank = books.bank + On(req[c].acct, "221", applied)]
          \/ books' = [books EXCEPT !.cr211 = books.cr211 + req[c].amt,
                                     !.ap531 = books.ap531 - req[c].amt]
      BY <1>o DEF CommitMulti
    <3> DEFINE m == On(req[c].acct, "101", applied)
               n == On(req[c].acct, "221", applied)
    <3>2. m \in Int /\ n \in Int
      BY <2>3
    <3> HIDE DEF applied, m, n
    <3>3. CASE books' = [books EXCEPT !.cr211 = books.cr211 + applied,
                           !.cash = books.cash + m, !.bank = books.bank + n]
      BY <3>2, <3>3, <2>2, <2>4, <2>5
    <3>4. CASE books' = [books EXCEPT !.cr211 = books.cr211 + req[c].amt,
                           !.ap531 = books.ap531 - req[c].amt]
      BY <3>4, <2>2, <2>4, <2>5
    <3>5. QED
      BY <3>1, <3>3, <3>4 DEF m, n
  <2>7. SessionOK' /\ UNCHANGED <<line, sig>>
    BY <1>o, FinishTypes DEF CommitMulti
  <2>8. QED
    BY <2>1, <2>6, <2>7 DEF TypeOK, SessionOK
<1>p. ASSUME NEW c \in Clients, DropPending(c) PROVE TypeInv'
  <2>1. sig' \in [Invoices -> [pending : Nat, completed : Nat]]
    BY <1>p DEF DropPending, TypeOK
  <2>2. QED
    BY <1>p, <2>1 DEF DropPending, TypeOK, SessionOK, Steps
<1>r. ASSUME NEW c \in Clients, CreatePending(c) PROVE TypeInv'
  <2>1. sig' \in [Invoices -> [pending : Nat, completed : Nat]]
    <3> DEFINE g == sig[req[c].inv]
    <3>1. CASE req[c].inv \in Invoices
      <4>1. g \in [pending : Nat, completed : Nat]
        BY <3>1 DEF TypeOK
      <4>2. [g EXCEPT !.pending = g.pending + 1] \in [pending : Nat, completed : Nat]
        BY <4>1
      <4>3. sig' = [sig EXCEPT ![req[c].inv] = [g EXCEPT !.pending = g.pending + 1]]
        BY <1>r, <3>1 DEF CreatePending, TypeOK
      <4> HIDE DEF g
      <4>4. QED
        BY <4>2, <4>3 DEF TypeOK
    <3>2. CASE req[c].inv \notin Invoices
      BY <1>r, <3>2 DEF CreatePending, TypeOK
    <3>3. QED
      BY <3>1, <3>2
  <2>2. SessionOK' /\ UNCHANGED <<row, books, line>>
    BY <1>r, FinishTypes DEF CreatePending
  <2>3. QED
    BY <2>1, <2>2 DEF TypeOK, SessionOK
<1>s. ASSUME NEW c \in Clients, NEW i \in Invoices, PollSignature(c, i) PROVE TypeInv'
  <2>1. sig' \in [Invoices -> [pending : Nat, completed : Nat]]
    BY <1>s DEF PollSignature, TypeOK
  <2>2. row' \in [Invoices -> Row]
    <3>1. row[i] \in Row /\ "LOCKED_BY_SIGNATURE" \in Statuses
      BY DEF TypeOK, Statuses
    <3>2. [row[i] EXCEPT !.status = "LOCKED_BY_SIGNATURE"] \in Row
      BY <3>1 DEF Row
    <3>3. QED
      BY <1>s, <3>2 DEF PollSignature, TypeOK
  <2>3. QED
    BY <1>s, <2>1, <2>2 DEF PollSignature, TypeOK, SessionOK
<1>q. QED
  BY <1>a, <1>b, <1>c, <1>d, <1>e, <1>f, <1>g, <1>h, <1>i, <1>j, <1>k, <1>l, <1>m, <1>n,
     <1>o, <1>p, <1>r, <1>s DEF Next, Single, Multi, Sign

\* The initial state is well typed.
LEMMA TypeInit == Init => TypeInv
<1> SUFFICES ASSUME Init PROVE TypeInv
  OBVIOUS
<1>1. None \notin AllRequests /\ Payable \in Nat
  BY ReceivablesAssumption
<1>2. books \in Books
  BY <1>1 DEF Init, Books
<1>3. sig \in [Invoices -> [pending : Nat, completed : Nat]]
      /\ line \in [Lines -> [matched : BOOLEAN, booked : Nat]]
  BY DEF Init
<1>4. SessionOK
  BY <1>1, IdleTypes DEF Init, SessionOK, Steps, AllRequests
<1>5. QED
  BY <1>2, <1>3, <1>4, IdleTypes DEF Init, TypeInv, TypeOK, SessionOK

\* The variables keep their types in every run, whatever the requests do.
THEOREM TypeCorrect == Spec => []TypeOK
<1>1. TypeInv => TypeOK
  BY DEF TypeInv
<1>2. QED
  BY <1>1, TypeInit, TypeStep, PTL DEF Spec

-----------------------------------------------------------------------------
(* Revenue before money.  A payment is booked on the strength of a read that   *)
(* may be old by then; it stays right because revenue is never taken back:     *)
(* what a session has read as recognized, plans to pay or has written is        *)
(* recognized in the committed row too.                                         *)

\* The invoices a session is about to book money on are recognized.
SessionsRecognized ==
  /\ \A c \in Clients : pc[c] = "ready" /\ seen[c].recognized =>
       req[c].inv \in Invoices /\ row[req[c].inv].recognized
  /\ \A c \in Clients : pc[c] = "ready" /\ req[c].op = "PAY" => seen[c].recognized
  /\ \A c \in Clients, i \in Invoices : plan[c][i] > 0 => row[i].recognized
  /\ \A c \in Clients, i \in Invoices : mine[c][i] # None => mine[c][i].recognized

\* The invariant of the revenue.
RevenueInv == TypeInv /\ RevenueBeforeMoney /\ SessionsRecognized

\* A step leaves an invoice with the revenue posted, or leaves its payments and its
\* recognition alone.
LEMMA RecognizedStep ==
  ASSUME RevenueInv, Next, NEW j \in Invoices
  PROVE  \/ row'[j].recognized
         \/ row'[j].rows = row[j].rows /\ row'[j].recognized = row[j].recognized
<1> DEFINE Goal == \/ row'[j].recognized
                   \/ row'[j].rows = row[j].rows /\ row'[j].recognized = row[j].recognized
<1> USE DEF RevenueInv, TypeInv
<1>1. row[j] \in Row
  BY DEF TypeOK
<1>2. ASSUME UNCHANGED row PROVE Goal
  BY <1>2
<1>3. ASSUME NEW c \in Clients, CommitSent(c) PROVE Goal
  BY <1>1, <1>3 DEF CommitSent, TypeOK, Row
<1>4. ASSUME NEW c \in Clients, CommitPaid(c) PROVE Goal
  <2> DEFINE new == Paid(req[c].inv, row[req[c].inv], Total[req[c].inv] - seen[c].paid)
  <2>1. req[c].inv \in Invoices /\ row[req[c].inv] \in Row /\ seen[c] \in Row
    BY <1>4 DEF CommitPaid, Ready, SessionOK, TypeOK
  <2>2. Total[req[c].inv] - seen[c].paid \in Int
    <3>1. Total[req[c].inv] \in Int /\ seen[c].paid \in Int
      BY <2>1, ReceivablesAssumption DEF Row
    <3>2. QED
      BY <3>1
  <2>3. new \in Row
    BY <2>1, <2>2, PaidFields
  <2>4. row' = [row EXCEPT ![req[c].inv] = [new EXCEPT !.recognized = TRUE]]
    BY <1>4 DEF CommitPaid
  <2> HIDE DEF new
  <2>5. [new EXCEPT !.recognized = TRUE].recognized
    BY <2>3 DEF Row
  <2>6. QED
    BY <2>4, <2>5 DEF TypeOK
<1>5. ASSUME NEW c \in Clients, CommitNothingLeft(c) PROVE Goal
  <2> DEFINE new == WithState(req[c].inv, row[req[c].inv], seen[c].paid, seen[c].status)
  <2>1. req[c].inv \in Invoices /\ row[req[c].inv] \in Row /\ seen[c] \in Row
    BY <1>5 DEF CommitNothingLeft, SessionOK, TypeOK
  <2>2. seen[c].paid \in Int /\ seen[c].status \in Statuses
    BY <2>1 DEF Row
  <2>3. new \in Row
    BY <2>1, <2>2, WithStateFields
  <2>4. row' = [row EXCEPT ![req[c].inv] = [new EXCEPT !.recognized = TRUE]]
    BY <1>5 DEF CommitNothingLeft
  <2> HIDE DEF new
  <2>5. [new EXCEPT !.recognized = TRUE].recognized
    BY <2>3 DEF Row
  <2>6. QED
    BY <2>4, <2>5 DEF TypeOK
<1>6. ASSUME NEW c \in Clients, CommitPay(c) PROVE Goal
  <2> DEFINE i == req[c].inv
             x == PayablePart(req[c].amt, Total[i] - seen[c].paid)
  <2>1. i \in Invoices /\ row[i] \in Row /\ row[i].recognized
    BY <1>6 DEF CommitPay, Ready, SessionOK, TypeOK, SessionsRecognized
  <2>2. x \in Int
    <3>1. Total[i] \in Int /\ seen[c].paid \in Int /\ req[c].amt \in Int
      BY <2>1, ReceivablesAssumption DEF TypeOK, Row, Request
    <3>2. QED
      BY <3>1 DEF PayablePart, Lesser
  <2>3. row' = [row EXCEPT ![i] = Paid(i, row[i], x)]
    BY <1>6 DEF CommitPay
  <2> HIDE DEF x
  <2>4. Paid(i, row[i], x).recognized
    BY <2>1, <2>2, PaidFields
  <2>5. QED
    BY <2>3, <2>4 DEF TypeOK
<1>7. ASSUME NEW c \in Clients, CommitMatch(c) PROVE Goal
  <2> DEFINE i == req[c].inv
             s == seen[c]
             base == IF s.recognized THEN row[i]
                     ELSE [row[i] EXCEPT !.recognized = TRUE, !.status = "SENT"]
             left == Total[i] - (IF s.recognized THEN s.paid ELSE row[i].paid)
             x == PayablePart(LineAmount[req[c].line], left)
  <2>1. i \in Invoices /\ req[c].line \in Lines /\ row[i] \in Row /\ s \in Row
    BY <1>7 DEF CommitMatch, Ready, SessionOK, TypeOK
  <2>2. base \in Row
    BY <2>1 DEF Row, Statuses
  <2>3. base.recognized
    <3>1. CASE s.recognized
      BY <1>7, <2>1, <3>1 DEF CommitMatch, Ready, SessionsRecognized
    <3>2. CASE ~s.recognized
      BY <2>1, <3>2 DEF Row
    <3>3. QED
      BY <3>1, <3>2
  <2>4. x \in Int
    <3>1. Total[i] \in Int /\ LineAmount[req[c].line] \in Int /\ s.paid \in Int /\ row[i].paid \in Int
      BY <2>1, ReceivablesAssumption DEF Row
    <3>2. left \in Int
      BY <3>1
    <3> HIDE DEF left
    <3>3. QED
      BY <3>1, <3>2 DEF PayablePart, Lesser
  <2>5. row' = [row EXCEPT ![i] = Paid(i, base, x)]
    BY <1>7 DEF CommitMatch
  <2> HIDE DEF base, x
  <2>6. Paid(i, base, x).recognized
    BY <2>1, <2>2, <2>3, <2>4, PaidFields
  <2>7. QED
    BY <2>5, <2>6 DEF TypeOK
<1>8. ASSUME NEW c \in Clients, CommitMulti(c) PROVE Goal
  BY <1>8 DEF CommitMulti, SessionsRecognized
<1>9. ASSUME NEW c \in Clients, NEW i \in Invoices, PollSignature(c, i) PROVE Goal
  <2>1. row' = [row EXCEPT ![i] = [row[i] EXCEPT !.status = "LOCKED_BY_SIGNATURE"]]
    BY <1>9 DEF PollSignature
  <2>2. /\ [row[i] EXCEPT !.status = "LOCKED_BY_SIGNATURE"].rows = row[i].rows
        /\ [row[i] EXCEPT !.status = "LOCKED_BY_SIGNATURE"].recognized = row[i].recognized
    BY DEF TypeOK, Row
  <2>3. QED
    BY <2>1, <2>2 DEF TypeOK
<1>10. PICK c \in Clients : Accept(c) \/ Single(c) \/ Multi(c) \/ Sign(c) \/ Abort(c)
  BY DEF Next
<1>11. CASE Accept(c)
  BY <1>2, <1>11 DEF Accept, AcceptStatus, AcceptPay, AcceptAlloc, AcceptMatch, AcceptNetting,
     AcceptSignature
<1>12. CASE Single(c)
  BY <1>2, <1>3, <1>4, <1>5, <1>6, <1>7, <1>12 DEF Single, ReadInvoice, FindInvoice, FindPayable, FindLeft,
      RefreshPaid, MatchPaid
<1>13. CASE Multi(c)
  BY <1>2, <1>8, <1>13 DEF Multi, ReadOpen, ReadBucket, WriteBucket
<1>14. CASE Sign(c)
  BY <1>2, <1>9, <1>14 DEF Sign, DropPending, CreatePending
<1>15. CASE Abort(c)
  BY <1>2, <1>15 DEF Abort
<1>16. QED
  BY <1>10, <1>11, <1>12, <1>13, <1>14, <1>15

\* Revenue is never taken back, so what the sessions rely on stays true.
LEMMA SessionsStep ==
  ASSUME RevenueInv, Next, TypeInv',
         \A j \in Invoices : row[j].recognized => row'[j].recognized
  PROVE  SessionsRecognized'
<1> USE DEF RevenueInv, TypeInv
<1>1. ASSUME NEW c \in Clients, Finish(c) PROVE SessionsRecognized'
  <2>1. /\ pc' = [pc EXCEPT ![c] = "idle"]
        /\ req' = [req EXCEPT ![c] = NoRequest]
        /\ seen' = [seen EXCEPT ![c] = NewRow]
        /\ plan' = [plan EXCEPT ![c] = NoPlan]
        /\ mine' = [mine EXCEPT ![c] = NoWrites]
    BY <1>1 DEF Finish
  <2>2. \A i \in Invoices : NoPlan[i] = 0 /\ NoWrites[i] = None
    BY DEF NoPlan, NoWrites
  <2>3. \A d \in Clients : pc'[d] = "ready" =>
          d # c /\ pc[d] = "ready" /\ req'[d] = req[d] /\ seen'[d] = seen[d]
    BY <2>1 DEF SessionOK
  <2>4. \A d \in Clients, i \in Invoices : plan'[d][i] > 0 => row'[i].recognized
    BY <2>1, <2>2 DEF SessionsRecognized, SessionOK
  <2>5. \A d \in Clients, i \in Invoices : mine'[d][i] # None => mine'[d][i].recognized
    BY <2>1, <2>2 DEF SessionsRecognized, SessionOK
  <2>6. QED
    BY <2>3, <2>4, <2>5 DEF SessionsRecognized
<1>2. ASSUME NEW c \in Clients, NEW r, NEW step \in {"begin", "drop"}, Open(c, r, step),
             UNCHANGED <<seen, plan, unspent, mine>>
      PROVE  SessionsRecognized'
  <2>1. /\ pc' = [pc EXCEPT ![c] = step]
        /\ req' = [req EXCEPT ![c] = r]
        /\ UNCHANGED <<seen, plan, unspent, mine>>
    BY <1>2 DEF Open
  <2>2. QED
    BY <2>1 DEF SessionsRecognized, SessionOK
<1>3. ASSUME NEW c \in Clients, Accept(c) PROVE SessionsRecognized'
  BY <1>2, <1>3 DEF Accept, AcceptStatus, AcceptPay, AcceptAlloc, AcceptMatch, AcceptNetting,
     AcceptSignature
<1>4. ASSUME NEW c \in Clients, ReadInvoice(c) \/ FindInvoice(c) \/ FindPayable(c) \/ FindLeft(c)
      PROVE  SessionsRecognized'
  <2>1. /\ req[c].inv \in Invoices /\ req[c].op \in {"SENT", "PAID", "PAY", "BANK"}
        /\ seen' = [seen EXCEPT ![c] = row[req[c].inv]] /\ UNCHANGED <<row, req, plan, mine>>
        /\ \A d \in Clients \ {c} : pc'[d] = pc[d]
    BY <1>4 DEF ReadInvoice, FindInvoice, FindPayable, FindLeft, SessionOK
  <2>2. req[c].op = "PAY" => row[req[c].inv].recognized
    BY <1>4 DEF ReadInvoice, FindInvoice, FindPayable, FindLeft, Admissible
  <2>. QED
    BY <2>1, <2>2 DEF SessionsRecognized, SessionOK
<1>5. ASSUME NEW c \in Clients, ReadOpen(c) PROVE SessionsRecognized'
  <2>1. PICK open : /\ \A i \in Invoices : open[i] > 0 => row[i].recognized
                    /\ open \in [Invoices -> Int]
                    /\ plan' = [plan EXCEPT ![c] = [i \in Invoices |-> Positive(open[i])]]
    <3>1. /\ AllocOpen \in [Invoices -> Int]
          /\ NetOpen \in [Invoices -> Int]
      BY ReceivablesAssumption DEF AllocOpen, NetOpen, TypeOK, Row
    <3>2. \A i \in Invoices : (AllocOpen[i] > 0 \/ NetOpen[i] > 0) => row[i].recognized
      BY DEF AllocOpen, NetOpen
    <3>3. QED
      BY <1>5, <3>1, <3>2 DEF ReadOpen
  <2>2. \A i \in Invoices : plan'[c][i] > 0 => row[i].recognized
    BY <2>1 DEF Positive, SessionOK
  <2>3. QED
    BY <1>5, <2>1, <2>2 DEF ReadOpen, SessionsRecognized, SessionOK
<1>6. ASSUME NEW c \in Clients, NEW i \in Invoices, WriteBucket(c, i) PROVE SessionsRecognized'
  <2>1. plan[c][i] > 0
    BY <1>6 DEF WriteBucket, Turn, Todo
  <2>2. PICK w : w.recognized = row[i].recognized /\ mine' = [mine EXCEPT ![c][i] = w]
    <3> DEFINE x == Bucket(plan[c][i], unspent[c])
               s == seen[c]
               r == [row[i] EXCEPT !.rows = @ + x]
               q == [r EXCEPT !.paid = s.paid + x]
    <3>1. row[i] \in Row /\ s \in Row /\ plan[c][i] \in Nat /\ unspent[c] \in Nat
      BY DEF TypeOK
    <3>2. x \in Nat
      BY <3>1 DEF Bucket, Lesser
    <3>3. row[i].rows + x \in Int /\ s.paid + x \in Int /\ s.rows + x \in Int /\ s.status \in Statuses
      BY <3>1, <3>2 DEF Row
    <3>4. \A z \in Row, a \in Int :
            /\ [z EXCEPT !.rows = a] \in Row /\ [z EXCEPT !.paid = a] \in Row
            /\ [z EXCEPT !.rows = a].recognized = z.recognized
            /\ [z EXCEPT !.paid = a].recognized = z.recognized
      BY DEF Row
    <3>5. mine' = [mine EXCEPT ![c][i] = IF req[c].op = "ALLOC"
                                         THEN WithState(i, q, s.paid + x, s.status)
                                         ELSE WithState(i, r, s.rows + x, s.status)]
      BY <1>6 DEF WriteBucket
    <3> HIDE DEF x
    <3>6. /\ r \in Row /\ r.recognized = row[i].recognized
          /\ q \in Row /\ q.recognized = row[i].recognized
      BY <3>1, <3>3, <3>4
    <3> HIDE DEF q, r, s
    <3>7. /\ WithState(i, q, s.paid + x, s.status).recognized = row[i].recognized
          /\ WithState(i, r, s.rows + x, s.status).recognized = row[i].recognized
      BY <3>3, <3>6, WithStateFields
    <3>8. QED
      BY <3>5, <3>7
  <2>3. row[i].recognized
    BY <2>1 DEF SessionsRecognized
  <2>4. \A d \in Clients, k \in Invoices : mine'[d][k] # None => mine'[d][k].recognized
    BY <2>2, <2>3 DEF SessionsRecognized, SessionOK
  <2>5. QED
    BY <1>6, <2>4 DEF WriteBucket, SessionsRecognized, SessionOK
<1>7. ASSUME NEW c \in Clients, NEW i \in Invoices, ReadBucket(c, i) PROVE SessionsRecognized'
  BY <1>7 DEF ReadBucket, SessionsRecognized, SessionOK
<1>8. ASSUME NEW c \in Clients, RefreshPaid(c) PROVE SessionsRecognized'
  BY <1>8 DEF RefreshPaid, SessionsRecognized, SessionOK
<1>9. ASSUME NEW c \in Clients, DropPending(c) PROVE SessionsRecognized'
  BY <1>9 DEF DropPending, SessionsRecognized, SessionOK
<1>10. ASSUME NEW c \in Clients, NEW i \in Invoices, PollSignature(c, i) PROVE SessionsRecognized'
  BY <1>10 DEF PollSignature, SessionsRecognized
<1>11. ASSUME NEW c \in Clients, Abort(c) PROVE SessionsRecognized'
  BY <1>1, <1>11 DEF Abort, Finish
<1>12. QED
  BY <1>1, <1>3, <1>4, <1>5, <1>6, <1>7, <1>8, <1>9, <1>10, <1>11
  DEF Next, Single, Multi, Sign, CommitSent, CommitPaid, CommitNothingLeft, CommitPay, MatchPaid,
      CommitMatch, CommitMulti, CreatePending

\* The invariant of the revenue holds at first.
LEMMA RevenueInit == Init => RevenueInv
<1> SUFFICES ASSUME Init PROVE RevenueInv
  OBVIOUS
<1>1. TypeInv
  BY TypeInit
<1>2. RevenueBeforeMoney /\ SessionsRecognized
  BY DEF Init, NewRow, NoRequest, NoPlan, NoWrites, RevenueBeforeMoney, SessionsRecognized
<1>3. QED
  BY <1>1, <1>2 DEF RevenueInv

\* Every step keeps it.
LEMMA RevenueStep == RevenueInv /\ [Next]_vars => RevenueInv'
<1> SUFFICES ASSUME RevenueInv, [Next]_vars PROVE RevenueInv'
  OBVIOUS
<1>1. TypeInv'
  BY TypeStep DEF RevenueInv
<1>2. CASE UNCHANGED vars
  BY <1>1, <1>2 DEF vars, RevenueInv, RevenueBeforeMoney, SessionsRecognized
<1>3. CASE Next
  <2>1. \A j \in Invoices : \/ row'[j].recognized
                            \/ /\ row'[j].rows = row[j].rows
                               /\ row'[j].recognized = row[j].recognized
    BY <1>3, RecognizedStep
  <2>2. RevenueBeforeMoney'
    BY <2>1 DEF RevenueInv, RevenueBeforeMoney
  <2>3. SessionsRecognized'
    BY <1>1, <1>3, <2>1, SessionsStep
  <2>4. QED
    BY <1>1, <2>2, <2>3 DEF RevenueInv
<1>4. QED
  BY <1>2, <1>3

\* However requests overlap, no payment, allocation, bank match or netting ever lands
\* on an invoice whose revenue has not been posted.
THEOREM RevenueFirst == Spec => []RevenueBeforeMoney
<1>1. RevenueInv => RevenueBeforeMoney
  BY DEF RevenueInv
<1>2. QED
  BY <1>1, RevenueInit, RevenueStep, PTL DEF Spec

-----------------------------------------------------------------------------
(* paidAmount and the payment rows.  Where only single payments are offered,   *)
(* both are incremented by the same amount on the row the transaction has       *)
(* locked, and no session ever holds a row version of its own.                  *)

\* Neither allocations nor nettings are offered.
SinglePaymentsOnly == Requests \cap {"ALLOC", "NET"} = {}

\* The invariant of paidAmount where every payment is a single one.
PaidInv ==
  /\ TypeInv
  /\ PaidIsSumOfPayments
  /\ \A c \in Clients : req[c].op \in Requests \cup {None} /\ pc[c] # "multi"
                         /\ plan[c] = NoPlan /\ mine[c] = NoWrites

\* A step raises paidAmount and the payment rows by the same amount.
LEMMA PaidStep ==
  ASSUME SinglePaymentsOnly, PaidInv, Next, NEW j \in Invoices
  PROVE  row'[j].paid = row'[j].rows
<1> DEFINE Goal == row'[j].paid = row'[j].rows
<1> USE DEF PaidInv, TypeInv
<1>1. row[j] \in Row /\ row[j].paid = row[j].rows
  BY DEF TypeOK, PaidIsSumOfPayments
<1>2. ASSUME UNCHANGED row PROVE Goal
  BY <1>1, <1>2
<1>3. ASSUME NEW c \in Clients, CommitSent(c) PROVE Goal
  <2>1. row' = [row EXCEPT ![req[c].inv] = [row[req[c].inv] EXCEPT !.status = "SENT", !.recognized = TRUE]]
    BY <1>3 DEF CommitSent
  <2>2. \A r \in Row : /\ [r EXCEPT !.status = "SENT", !.recognized = TRUE].paid = r.paid
                       /\ [r EXCEPT !.status = "SENT", !.recognized = TRUE].rows = r.rows
    BY DEF Row
  <2>3. QED
    BY <1>1, <2>1, <2>2 DEF TypeOK
<1>4. ASSUME NEW i \in Invoices, NEW base \in Row, base.paid = row[i].paid, base.rows = row[i].rows,
             NEW x \in Int, NEW new \in Row, new.paid = Paid(i, base, x).paid,
             new.rows = Paid(i, base, x).rows, row' = [row EXCEPT ![i] = new]
      PROVE  Goal
  <2>1. row[i].paid = row[i].rows
    BY DEF PaidIsSumOfPayments
  <2>2. new.paid = row[i].paid + x /\ new.rows = row[i].rows + x
    BY <1>4, PaidFields
  <2>3. QED
    BY <1>1, <1>4, <2>1, <2>2 DEF TypeOK
<1>5. ASSUME NEW c \in Clients, CommitPaid(c) PROVE Goal
  <2> DEFINE i == req[c].inv
             x == Total[i] - seen[c].paid
             new == Paid(i, row[i], x)
  <2>1. i \in Invoices /\ row[i] \in Row /\ seen[c] \in Row
    BY <1>5 DEF CommitPaid, Ready, SessionOK, TypeOK
  <2>2. Total[i] \in Int /\ seen[c].paid \in Int
    BY <2>1, ReceivablesAssumption DEF Row
  <2>3. x \in Int
    BY <2>2
  <2>4. new \in Row
    BY <2>1, <2>3, PaidFields
  <2>5. \A r \in Row : /\ [r EXCEPT !.recognized = TRUE] \in Row
                       /\ [r EXCEPT !.recognized = TRUE].paid = r.paid
                       /\ [r EXCEPT !.recognized = TRUE].rows = r.rows
    BY DEF Row
  <2>6. row' = [row EXCEPT ![i] = [new EXCEPT !.recognized = TRUE]]
    BY <1>5 DEF CommitPaid
  <2> HIDE DEF x
  <2>7. QED
    BY <1>4, <2>1, <2>3, <2>4, <2>5, <2>6
<1>6. ASSUME NEW c \in Clients, CommitNothingLeft(c) PROVE Goal
  <2> DEFINE i == req[c].inv
             new == WithState(i, row[i], seen[c].paid, seen[c].status)
  <2>1. i \in Invoices /\ row[i] \in Row /\ seen[c] \in Row
    BY <1>6 DEF CommitNothingLeft, SessionOK, TypeOK
  <2>2. seen[c].paid \in Int /\ seen[c].status \in Statuses
    BY <2>1 DEF Row
  <2>3. new \in Row /\ new.paid = row[i].paid /\ new.rows = row[i].rows
    BY <2>1, <2>2, WithStateFields
  <2>4. row' = [row EXCEPT ![i] = [new EXCEPT !.recognized = TRUE]]
    BY <1>6 DEF CommitNothingLeft
  <2> HIDE DEF new
  <2>5. /\ [new EXCEPT !.recognized = TRUE].paid = new.paid
        /\ [new EXCEPT !.recognized = TRUE].rows = new.rows
    BY <2>3 DEF Row
  <2>6. row[i].paid = row[i].rows
    BY <2>1 DEF PaidIsSumOfPayments
  <2>7. QED
    BY <1>1, <2>1, <2>3, <2>4, <2>5, <2>6 DEF TypeOK
<1>7. ASSUME NEW c \in Clients, CommitPay(c) PROVE Goal
  <2> DEFINE i == req[c].inv
             x == PayablePart(req[c].amt, Total[i] - seen[c].paid)
  <2>1. i \in Invoices /\ row[i] \in Row
    BY <1>7 DEF CommitPay, Ready, SessionOK, TypeOK
  <2>2. x \in Int
    <3>1. Total[i] \in Int /\ seen[c].paid \in Int /\ req[c].amt \in Int
      BY <2>1, ReceivablesAssumption DEF TypeOK, Row, Request
    <3>2. QED
      BY <3>1 DEF PayablePart, Lesser
  <2>3. row' = [row EXCEPT ![i] = Paid(i, row[i], x)]
    BY <1>7 DEF CommitPay
  <2> HIDE DEF x
  <2>4. Paid(i, row[i], x) \in Row
    BY <2>1, <2>2, PaidFields
  <2>5. QED
    BY <1>4, <2>1, <2>2, <2>3, <2>4
<1>8. ASSUME NEW c \in Clients, CommitMatch(c) PROVE Goal
  <2> DEFINE i == req[c].inv
             s == seen[c]
             base == IF s.recognized THEN row[i]
                     ELSE [row[i] EXCEPT !.recognized = TRUE, !.status = "SENT"]
             left == Total[i] - (IF s.recognized THEN s.paid ELSE row[i].paid)
             x == PayablePart(LineAmount[req[c].line], left)
  <2>1. i \in Invoices /\ req[c].line \in Lines /\ row[i] \in Row /\ s \in Row
    BY <1>8 DEF CommitMatch, Ready, SessionOK, TypeOK
  <2>2. base \in Row /\ base.paid = row[i].paid /\ base.rows = row[i].rows
    BY <2>1 DEF Row, Statuses
  <2>3. x \in Int
    <3>1. Total[i] \in Int /\ LineAmount[req[c].line] \in Int /\ s.paid \in Int /\ row[i].paid \in Int
      BY <2>1, ReceivablesAssumption DEF Row
    <3>2. left \in Int
      BY <3>1
    <3> HIDE DEF left
    <3>3. QED
      BY <3>1, <3>2 DEF PayablePart, Lesser
  <2>4. row' = [row EXCEPT ![i] = Paid(i, base, x)]
    BY <1>8 DEF CommitMatch
  <2> HIDE DEF base, x
  <2>5. Paid(i, base, x) \in Row
    BY <2>1, <2>2, <2>3, PaidFields
  <2>6. QED
    BY <1>4, <2>1, <2>2, <2>3, <2>4, <2>5
<1>9. ASSUME NEW c \in Clients, NEW i \in Invoices, PollSignature(c, i) PROVE Goal
  <2>1. row' = [row EXCEPT ![i] = [row[i] EXCEPT !.status = "LOCKED_BY_SIGNATURE"]]
    BY <1>9 DEF PollSignature
  <2>2. \A r \in Row : /\ [r EXCEPT !.status = "LOCKED_BY_SIGNATURE"].paid = r.paid
                       /\ [r EXCEPT !.status = "LOCKED_BY_SIGNATURE"].rows = r.rows
    BY DEF Row
  <2>3. QED
    BY <1>1, <2>1, <2>2 DEF TypeOK
<1>10. PICK c \in Clients : Accept(c) \/ Single(c) \/ Multi(c) \/ Sign(c) \/ Abort(c)
  BY DEF Next
<1>11. CASE Accept(c)
  BY <1>2, <1>11 DEF Accept, AcceptStatus, AcceptPay, AcceptAlloc, AcceptMatch, AcceptNetting,
     AcceptSignature
<1>12. CASE Single(c)
  BY <1>2, <1>3, <1>5, <1>6, <1>7, <1>8, <1>12 DEF Single, ReadInvoice, FindInvoice, FindPayable, FindLeft,
      RefreshPaid, MatchPaid
<1>13. CASE Multi(c)
  BY <1>2, <1>10, <1>13 DEF Multi, ReadOpen, ReadBucket, WriteBucket, CommitMulti
<1>14. CASE Sign(c)
  BY <1>2, <1>9, <1>14 DEF Sign, DropPending, CreatePending
<1>15. CASE Abort(c)
  BY <1>2, <1>15 DEF Abort
<1>16. QED
  BY <1>11, <1>12, <1>13, <1>14, <1>15, <1>10

\* No session comes to hold a row version of its own.
LEMMA SingleSessions ==
  ASSUME SinglePaymentsOnly, PaidInv, Next, NEW d \in Clients
  PROVE  /\ req'[d].op \in Requests \cup {None} /\ pc'[d] # "multi"
         /\ plan'[d] = NoPlan /\ mine'[d] = NoWrites
<1> DEFINE Goal == /\ req'[d].op \in Requests \cup {None} /\ pc'[d] # "multi"
                   /\ plan'[d] = NoPlan /\ mine'[d] = NoWrites
<1> USE DEF PaidInv, TypeInv
<1>1. ASSUME NEW c \in Clients, Finish(c) PROVE Goal
  BY <1>1, IdleTypes DEF Finish, SessionOK
<1>2. ASSUME NEW c \in Clients, Accept(c) PROVE Goal
  <2>1. PICK r, step : Open(c, r, step) /\ UNCHANGED <<plan, mine>> /\ step # "multi"
    BY <1>2 DEF Accept, AcceptStatus, AcceptPay, AcceptAlloc, AcceptMatch, AcceptNetting,
       AcceptSignature
  <2>2. QED
    BY <2>1 DEF Open, SessionOK
<1>3. ASSUME NEW c \in Clients, ReadOpen(c) PROVE Goal
  <2>1. req[c].op \in {"ALLOC", "NET"} /\ req[c].op \in Requests \cup {None}
    BY <1>3 DEF ReadOpen
  <2>2. None \notin AllRequests
    BY ReceivablesAssumption
  <2>3. QED
    BY <2>1, <2>2 DEF AllRequests, SinglePaymentsOnly
<1>4. ASSUME NEW c \in Clients, NEW i \in Invoices, WriteBucket(c, i) PROVE Goal
  <2>1. pc[c] = "fresh" /\ plan[c][i] > 0
    BY <1>4 DEF WriteBucket, Turn, Todo
  <2>2. NoPlan[i] = 0
    BY DEF NoPlan
  <2>3. QED
    BY <2>1, <2>2
<1>5. ASSUME NEW c \in Clients,
             ReadInvoice(c) \/ FindInvoice(c) \/ FindPayable(c) \/ FindLeft(c) \/ RefreshPaid(c)
             \/ DropPending(c)
             \/ \E i \in Invoices : ReadBucket(c, i) \/ PollSignature(c, i)
      PROVE  Goal
  BY <1>5 DEF ReadInvoice, FindInvoice, FindPayable, FindLeft, RefreshPaid, DropPending, ReadBucket,
      PollSignature, SessionOK
<1>6. PICK c \in Clients : Accept(c) \/ Single(c) \/ Multi(c) \/ Sign(c) \/ Abort(c)
  BY DEF Next
<1>7. QED
  BY <1>1, <1>2, <1>3, <1>4, <1>5, <1>6
  DEF Single, Multi, Sign, CommitSent, CommitPaid, CommitNothingLeft, CommitPay, MatchPaid,
      CommitMatch, CommitMulti, CreatePending, Abort, Finish

\* Where neither an allocation over several invoices nor a netting is offered, paidAmount
\* stays the sum of the payments, however the single payments overlap.
THEOREM PaidIsSum == ASSUME SinglePaymentsOnly PROVE Spec => []PaidIsSumOfPayments
<1>1. Init => PaidInv
  <2> SUFFICES ASSUME Init PROVE PaidInv
    OBVIOUS
  <2>1. /\ \A i \in Invoices : row[i].paid = row[i].rows
        /\ \A c \in Clients : req[c] = NoRequest /\ pc[c] = "idle"
                             /\ plan[c] = NoPlan /\ mine[c] = NoWrites
    BY DEF Init, NewRow
  <2>2. QED
    BY <2>1, TypeInit, IdleTypes DEF PaidInv, PaidIsSumOfPayments
<1>2. PaidInv /\ [Next]_vars => PaidInv'
  <2> SUFFICES ASSUME PaidInv, [Next]_vars PROVE PaidInv'
    OBVIOUS
  <2>1. TypeInv'
    BY TypeStep DEF PaidInv
  <2>2. CASE UNCHANGED vars
    BY <2>1, <2>2 DEF vars, PaidInv, PaidIsSumOfPayments
  <2>3. CASE Next
    BY <2>1, <2>3, PaidStep, SingleSessions DEF PaidInv, PaidIsSumOfPayments
  <2>4. QED
    BY <2>2, <2>3
<1>3. PaidInv => PaidIsSumOfPayments
  BY DEF PaidInv
<1>4. QED
  BY <1>1, <1>2, <1>3, PTL DEF Spec

-----------------------------------------------------------------------------
(* What the commits do *)

\* Exactly these entries are added to the books.
Entries(i, x, over, acct, mirror, posted) ==
  /\ books'.dr211 = books.dr211 + (IF posted THEN Total[i] ELSE 0)
  /\ books'.cr211 = books.cr211 + x
  /\ books'.cash = books.cash + On(acct, "101", x + over)
  /\ books'.bank = books.bank + On(acct, "221", x + over)
  /\ books'.gain = books.gain + over
  /\ books'.registry = books.registry + (IF mirror THEN x ELSE 0)
  /\ books'.orders = books.orders + On(acct, "101", x)

\* Client c commits a payment of x (or none) on invoice i.
Commits(c, i, x, over, acct, mirror, posted) ==
  /\ Finish(c) /\ ~Locked(c, i) /\ UNCHANGED sig
  /\ \E new \in Row :
       /\ row' = [row EXCEPT ![i] = new]
       /\ new.paid = row[i].paid + x
       /\ new.rows = row[i].rows + x
       /\ new.recognized
  /\ Entries(i, x, over, acct, mirror, posted)

\* The entries of a payment after those of the revenue.
LEMMA PaymentEntries ==
  ASSUME TypeInv, NEW i \in Invoices, NEW x \in Int, NEW over \in Int, NEW acct,
         NEW mirror \in BOOLEAN, NEW posted \in BOOLEAN,
         books' = BookPayment(IF posted THEN BookRevenue(books, i) ELSE books, acct, x, over, mirror)
  PROVE  Entries(i, x, over, acct, mirror, posted)
<1> DEFINE b == IF posted THEN BookRevenue(books, i) ELSE books
<1>1. books \in Books /\ Total[i] \in Nat
  BY ReceivablesAssumption DEF TypeInv, TypeOK
<1>2. b \in Books
  BY <1>1, RevenueTypes
<1>3. /\ b.dr211 = books.dr211 + (IF posted THEN Total[i] ELSE 0)
      /\ b.cr211 = books.cr211 /\ b.cash = books.cash /\ b.bank = books.bank
      /\ b.gain = books.gain /\ b.registry = books.registry /\ b.orders = books.orders
  BY <1>1 DEF BookRevenue, Books
<1> HIDE DEF b
<1>4. books' = BookPayment(b, acct, x, over, mirror)
  BY DEF b
<1> DEFINE m == On(acct, "101", x + over)
           n == On(acct, "221", x + over)
           r == IF mirror THEN x ELSE 0
           o == On(acct, "101", x)
<1>5. books' = [b EXCEPT !.cr211 = b.cr211 + x, !.cash = b.cash + m, !.bank = b.bank + n,
                         !.gain = b.gain + over, !.registry = b.registry + r,
                         !.orders = b.orders + o]
  BY <1>2, <1>4 DEF BookPayment, Books
<1> HIDE DEF m, n, r, o
<1>6. /\ books'.dr211 = b.dr211 /\ books'.cr211 = b.cr211 + x
      /\ books'.cash = b.cash + m /\ books'.bank = b.bank + n
      /\ books'.gain = b.gain + over /\ books'.registry = b.registry + r
      /\ books'.orders = b.orders + o
  BY <1>2, <1>5 DEF Books
<1>7. QED
  BY <1>3, <1>6 DEF Entries, m, n, r, o

\* A commit that books no payment.
LEMMA RevenueEntries ==
  ASSUME TypeInv, NEW i \in Invoices, NEW posted \in BOOLEAN,
         books' = IF posted THEN BookRevenue(books, i) ELSE books
  PROVE  Entries(i, 0, 0, "221", FALSE, posted)
<1>1. books \in Books /\ Total[i] \in Nat
  BY ReceivablesAssumption DEF TypeInv, TypeOK
<1>2. /\ books'.dr211 = books.dr211 + (IF posted THEN Total[i] ELSE 0)
      /\ books'.cr211 = books.cr211 /\ books'.cash = books.cash /\ books'.bank = books.bank
      /\ books'.gain = books.gain /\ books'.registry = books.registry /\ books'.orders = books.orders
  BY <1>1 DEF BookRevenue, Books
<1>3. books.cr211 \in Int /\ books.cash \in Int /\ books.bank \in Int /\ books.gain \in Int
      /\ books.registry \in Int /\ books.orders \in Int
  BY <1>1 DEF Books
<1>4. QED
  BY <1>2, <1>3 DEF Entries, On

\* An invoice row marked as recognized.
LEMMA MarkedRow ==
  ASSUME NEW r \in Row
  PROVE  LET w == [r EXCEPT !.recognized = TRUE]
         IN  /\ w \in Row /\ w.paid = r.paid /\ w.rows = r.rows /\ w.recognized
             /\ w.status = r.status /\ w.received = r.received
BY DEF Row

\* updateStatus(SENT) books the revenue unless the session saw it recognized, and no payment.
LEMMA SentCommits ==
  ASSUME TypeInv, NEW c \in Clients, CommitSent(c)
  PROVE  /\ req[c].inv \in Invoices
         /\ Commits(c, req[c].inv, 0, 0, "221", FALSE, ~seen[c].recognized)
<1> DEFINE i == req[c].inv
           new == [row[i] EXCEPT !.status = "SENT", !.recognized = TRUE]
<1>1. i \in Invoices /\ row[i] \in Row /\ seen[c].recognized \in BOOLEAN
  BY DEF CommitSent, Ready, SessionOK, TypeInv, TypeOK, Row
<1>2. row' = [row EXCEPT ![i] = new]
  BY <1>1 DEF CommitSent, TypeInv, TypeOK
<1>3. new \in Row /\ new.paid = row[i].paid + 0 /\ new.rows = row[i].rows + 0 /\ new.recognized
  <2>1. new \in Row /\ new.paid = row[i].paid /\ new.rows = row[i].rows /\ new.recognized
    BY <1>1 DEF Row, Statuses
  <2>2. row[i].paid \in Int /\ row[i].rows \in Int
    BY <1>1 DEF Row
  <2>3. QED
    BY <2>1, <2>2
<1>4. Entries(i, 0, 0, "221", FALSE, ~seen[c].recognized)
  BY <1>1, RevenueEntries DEF CommitSent, MustRecognize
<1> HIDE DEF new
<1>5. QED
  BY <1>1, <1>2, <1>3, <1>4 DEF CommitSent, Commits, Ready

\* updateStatus(PAID) books what the session saw as left.
LEMMA PaidCommits ==
  ASSUME TypeInv, NEW c \in Clients, CommitPaid(c)
  PROVE  LET i == req[c].inv
             left == Total[i] - seen[c].paid
         IN  /\ i \in Invoices /\ left \in Int /\ left > 0
             /\ Commits(c, i, left, 0, DebitAccount[i], TRUE, ~seen[c].recognized)
<1> DEFINE i == req[c].inv
           left == Total[i] - seen[c].paid
           new == Paid(i, row[i], left)
<1>1. i \in Invoices /\ row[i] \in Row /\ seen[c] \in Row /\ seen[c].recognized \in BOOLEAN
  BY DEF CommitPaid, Ready, SessionOK, TypeInv, TypeOK, Row
<1>2. left \in Int /\ left > 0
  <2>1. Total[i] \in Int /\ seen[c].paid \in Int
    BY <1>1, ReceivablesAssumption DEF Row
  <2>2. QED
    BY <2>1 DEF CommitPaid
<1>3. row' = [row EXCEPT ![i] = [new EXCEPT !.recognized = TRUE]]
      /\ books' = BookPayment(IF ~seen[c].recognized THEN BookRevenue(books, i) ELSE books,
                              DebitAccount[i], left, 0, TRUE)
  BY DEF CommitPaid, MustRecognize
<1> HIDE DEF left
<1>4. new \in Row /\ new.paid = row[i].paid + left /\ new.rows = row[i].rows + left
  BY <1>1, <1>2, PaidFields
<1>5. Entries(i, left, 0, DebitAccount[i], TRUE, ~seen[c].recognized)
  <2>1. 0 \in Int /\ TRUE \in BOOLEAN /\ (~seen[c].recognized) \in BOOLEAN
    BY <1>1
  <2> HIDE DEF i
  <2>2. QED
    BY <2>1, <1>1, <1>2, <1>3, PaymentEntries
<1> HIDE DEF new
<1>6. Commits(c, i, left, 0, DebitAccount[i], TRUE, ~seen[c].recognized)
  BY <1>3, <1>4, <1>5, MarkedRow DEF CommitPaid, Commits, Ready
<1>7. QED
  BY <1>1, <1>2, <1>6 DEF left

\* updateStatus(PAID) of an invoice with nothing left books no payment.
LEMMA NothingLeftCommits ==
  ASSUME TypeInv, NEW c \in Clients, CommitNothingLeft(c)
  PROVE  /\ req[c].inv \in Invoices
         /\ Commits(c, req[c].inv, 0, 0, "221", FALSE, ~seen[c].recognized)
<1> DEFINE i == req[c].inv
           new == WithState(i, row[i], seen[c].paid, seen[c].status)
<1>1. /\ i \in Invoices /\ row[i] \in Row /\ seen[c].paid \in Int /\ seen[c].status \in Statuses
      /\ seen[c].recognized \in BOOLEAN
  BY DEF CommitNothingLeft, SessionOK, TypeInv, TypeOK, Row
<1>2. row' = [row EXCEPT ![i] = [new EXCEPT !.recognized = TRUE]]
  BY DEF CommitNothingLeft
<1>3. new \in Row /\ new.paid = row[i].paid /\ new.rows = row[i].rows
  BY <1>1, WithStateFields
<1>4. Entries(i, 0, 0, "221", FALSE, ~seen[c].recognized)
  BY <1>1, RevenueEntries DEF CommitNothingLeft, MustRecognize
<1>5. row[i].paid = row[i].paid + 0 /\ row[i].rows = row[i].rows + 0
  BY <1>1 DEF Row
<1> HIDE DEF new
<1>6. QED
  BY <1>1, <1>2, <1>3, <1>4, <1>5, MarkedRow DEF CommitNothingLeft, Commits

\* recordPayment books the payable part and the rest as a rounding difference.
LEMMA PayCommits ==
  ASSUME TypeInv, NEW c \in Clients, CommitPay(c), row[req[c].inv].recognized
  PROVE  LET i == req[c].inv
             x == PayablePart(req[c].amt, Total[i] - seen[c].paid)
         IN  /\ i \in Invoices /\ x \in Int /\ req[c].amt - x \in Nat
             /\ Commits(c, i, x, req[c].amt - x, req[c].acct, TRUE, FALSE)
<1> DEFINE i == req[c].inv
           x == PayablePart(req[c].amt, Total[i] - seen[c].paid)
           new == Paid(i, row[i], x)
<1>1. i \in Invoices /\ row[i] \in Row
  BY DEF CommitPay, Ready, SessionOK, TypeInv, TypeOK
<1>2. x \in Int /\ req[c].amt - x \in Nat
  <2>1. Total[i] \in Int /\ seen[c].paid \in Int /\ req[c].amt \in Int
    BY <1>1, ReceivablesAssumption DEF TypeInv, TypeOK, Row, Request
  <2>2. QED
    BY <2>1 DEF PayablePart, Lesser
<1>3. row' = [row EXCEPT ![i] = new]
      /\ books' = BookPayment(IF FALSE THEN BookRevenue(books, i) ELSE books,
                              req[c].acct, x, req[c].amt - x, TRUE)
  BY DEF CommitPay
<1> HIDE DEF x
<1>4. new \in Row /\ new.paid = row[i].paid + x /\ new.rows = row[i].rows + x
      /\ new.recognized = row[i].recognized
  BY <1>1, <1>2, PaidFields
<1>5. Entries(i, x, req[c].amt - x, req[c].acct, TRUE, FALSE)
  <2> DEFINE over == req[c].amt - x
  <2>1. over \in Int /\ TRUE \in BOOLEAN /\ FALSE \in BOOLEAN
    BY <1>2
  <2> HIDE DEF i, over
  <2>2. books' = BookPayment(IF FALSE THEN BookRevenue(books, i) ELSE books,
                              req[c].acct, x, over, TRUE)
    BY <1>3 DEF over
  <2>3. Entries(i, x, over, req[c].acct, TRUE, FALSE)
    BY <2>1, <2>2, <1>1, <1>2, PaymentEntries
  <2>4. QED
    BY <2>3 DEF over
<1> HIDE DEF new
<1>6. Commits(c, i, x, req[c].amt - x, req[c].acct, TRUE, FALSE)
  BY <1>3, <1>4, <1>5 DEF CommitPay, Commits, Ready
<1>7. QED
  BY <1>1, <1>2, <1>6 DEF x

\* confirmMatch books the whole line and ties it to the invoice.
LEMMA MatchCommits ==
  ASSUME TypeInv, NEW c \in Clients, CommitMatch(c),
         seen[c].recognized => row[req[c].inv].recognized
  PROVE  LET i == req[c].inv
             l == req[c].line
             left == Total[i] - (IF seen[c].recognized THEN seen[c].paid ELSE row[i].paid)
             x == PayablePart(LineAmount[l], left)
         IN  /\ i \in Invoices /\ l \in Lines /\ left \in Int
             /\ x \in Nat /\ x > 0 /\ LineAmount[l] \in Nat /\ LineAmount[l] - x \in Nat
             /\ line' = [line EXCEPT ![l] = [matched |-> TRUE, booked |-> line[l].booked + 1]]
             /\ Commits(c, i, x, LineAmount[l] - x, DebitAccount[i], FALSE, ~seen[c].recognized)
<1> DEFINE i == req[c].inv
           l == req[c].line
           s == seen[c]
           base == IF s.recognized THEN row[i]
                   ELSE [row[i] EXCEPT !.recognized = TRUE, !.status = "SENT"]
           left == Total[i] - (IF s.recognized THEN s.paid ELSE row[i].paid)
           x == PayablePart(LineAmount[l], left)
           new == Paid(i, base, x)
<1>1. i \in Invoices /\ l \in Lines /\ row[i] \in Row /\ s \in Row /\ s.recognized \in BOOLEAN
  BY DEF CommitMatch, Ready, SessionOK, TypeInv, TypeOK, Row
<1>2. base \in Row /\ base.recognized /\ base.paid = row[i].paid /\ base.rows = row[i].rows
  BY <1>1 DEF Row, Statuses
<1>3. left \in Int /\ LineAmount[l] \in Nat
  <2>1. Total[i] \in Int /\ LineAmount[l] \in Nat /\ s.paid \in Int /\ row[i].paid \in Int
    BY <1>1, ReceivablesAssumption DEF Row
  <2>2. QED
    BY <2>1
<1>4. /\ row' = [row EXCEPT ![i] = new]
      /\ books' = BookPayment(IF ~s.recognized THEN BookRevenue(books, i) ELSE books,
                              DebitAccount[i], x, LineAmount[l] - x, FALSE)
      /\ line' = [line EXCEPT ![l] = [matched |-> TRUE, booked |-> line[l].booked + 1]]
  BY <1>1 DEF CommitMatch, MustRecognize, TypeInv, TypeOK
<1>5. Payment(i, LineAmount[l], left)
  BY DEF CommitMatch
<1> HIDE DEF left
<1>6. x \in Nat /\ x > 0 /\ LineAmount[l] - x \in Nat
  BY <1>3, <1>5 DEF Payment, PayablePart, Lesser
<1> HIDE DEF base, x
<1>7. new \in Row /\ new.paid = row[i].paid + x /\ new.rows = row[i].rows + x /\ new.recognized
  <2>1. x \in Int
    BY <1>6
  <2> HIDE DEF i
  <2>2. QED
    BY <1>1, <1>2, <2>1, PaidFields
<1>8. Entries(i, x, LineAmount[l] - x, DebitAccount[i], FALSE, ~s.recognized)
  <2> DEFINE over == LineAmount[l] - x
  <2>1. x \in Int /\ over \in Int /\ FALSE \in BOOLEAN /\ (~s.recognized) \in BOOLEAN
    BY <1>1, <1>6
  <2>2. books' = BookPayment(IF ~s.recognized THEN BookRevenue(books, i) ELSE books,
                              DebitAccount[i], x, over, FALSE)
    BY <1>4
  <2> HIDE DEF i, over, s
  <2>3. Entries(i, x, over, DebitAccount[i], FALSE, ~s.recognized)
    BY <2>1, <2>2, <1>1, PaymentEntries
  <2>4. QED
    BY <2>3 DEF over
<1> HIDE DEF new
<1>9. Commits(c, i, x, LineAmount[l] - x, DebitAccount[i], FALSE, ~s.recognized)
  BY <1>4, <1>7, <1>8 DEF CommitMatch, Commits, Ready
<1>10. QED
  BY <1>1, <1>3, <1>4, <1>6, <1>9 DEF x, left

-----------------------------------------------------------------------------
(* Requests over several invoices: their row versions and their locks *)

\* A step of client c.
Step(c) == Accept(c) \/ Single(c) \/ Multi(c) \/ Sign(c) \/ Abort(c)

\* A step of one client leaves the sessions of the others alone.
LEMMA OthersKept ==
  ASSUME TypeInv, NEW c \in Clients, Step(c), NEW d \in Clients, d # c
  PROVE  /\ pc'[d] = pc[d] /\ req'[d] = req[d] /\ seen'[d] = seen[d]
         /\ plan'[d] = plan[d] /\ unspent'[d] = unspent[d] /\ mine'[d] = mine[d]
<1> DEFINE Goal == /\ pc'[d] = pc[d] /\ req'[d] = req[d] /\ seen'[d] = seen[d]
                   /\ plan'[d] = plan[d] /\ unspent'[d] = unspent[d] /\ mine'[d] = mine[d]
<1> USE DEF TypeInv, SessionOK
<1>1. ASSUME Finish(c) PROVE Goal
  BY <1>1 DEF Finish
<1>2. ASSUME Accept(c) PROVE Goal
  BY <1>2 DEF Accept, AcceptStatus, AcceptPay, AcceptAlloc, AcceptMatch, AcceptNetting,
     AcceptSignature, Open
<1>3. ASSUME ReadInvoice(c) \/ FindInvoice(c) \/ FindPayable(c) \/ FindLeft(c) \/ RefreshPaid(c)
             \/ ReadOpen(c) \/ DropPending(c) PROVE Goal
  BY <1>3 DEF ReadInvoice, FindInvoice, FindPayable, FindLeft, RefreshPaid, ReadOpen, DropPending
<1>4. ASSUME NEW i \in Invoices, ReadBucket(c, i) \/ WriteBucket(c, i) \/ PollSignature(c, i) PROVE Goal
  BY <1>4 DEF ReadBucket, WriteBucket, PollSignature
<1>5. QED
  BY <1>1, <1>2, <1>3, <1>4
  DEF Step, Single, Multi, Sign, CommitSent, CommitPaid, CommitNothingLeft, CommitPay, MatchPaid,
      CommitMatch, CommitMulti, CreatePending, Abort, Finish

\* Requests that write several invoices, and requests that write one.
SeveralRequests == {"ALLOC", "NET"}
SingleRequests == {"SENT", "PAID", "PAY", "BANK"}

\* The client distributes an amount over several invoices.
Several(c) == pc[c] \in {"multi", "fresh"} /\ req[c].op \in SeveralRequests

\* Which requests wait where; only a distribution has a plan and row versions.
SessionShape ==
  \A c \in Clients :
    /\ pc[c] = "multi" => req[c].op \in SeveralRequests
    /\ pc[c] = "ready" => req[c].op \in SingleRequests
    /\ ~Several(c) => plan[c] = NoPlan /\ mine[c] = NoWrites

\* No two clients have written the same invoice.
RowsLocked ==
  \A c, d \in Clients, i \in Invoices : mine[c][i] # None /\ mine[d][i] # None => c = d

\* Only a client that distributes an amount has a plan and row versions of its own.
LEMMA ShapeStep ==
  ASSUME TypeInv, SessionShape, NEW c \in Clients, Step(c)
  PROVE  SessionShape'
<1> DEFINE Shape(d) == /\ pc[d] = "multi" => req[d].op \in SeveralRequests
                       /\ pc[d] = "ready" => req[d].op \in SingleRequests
                       /\ ~Several(d) => plan[d] = NoPlan /\ mine[d] = NoWrites
<1>1. \A d \in Clients : d # c => Shape(d)'
  BY OthersKept DEF SessionShape, Several
<1>2. Shape(c)
  BY DEF SessionShape
<1>3. Shape(c)'
  <2> USE DEF TypeInv, SessionOK, Several
  <2>1. ASSUME Finish(c) PROVE Shape(c)'
    BY <2>1 DEF Finish
  <2>2. ASSUME Accept(c) PROVE Shape(c)'
    <3>1. PICK r \in Request, step \in {"begin", "drop"} :
            pc[c] = "idle" /\ pc' = [pc EXCEPT ![c] = step] /\ UNCHANGED <<plan, mine>>
      <4>1. \E role, i, x, a, l : 
               /\ pc[c] = "idle"
               /\ pc' = [pc EXCEPT ![c] = "begin"] \/ pc' = [pc EXCEPT ![c] = "drop"]
               /\ UNCHANGED <<plan, mine>>
        BY <2>2 DEF Accept, AcceptStatus, AcceptPay, AcceptAlloc, AcceptMatch, AcceptNetting,
          AcceptSignature, Open
      <4>2. QED
        BY <4>1, IdleTypes
    <3>2. QED
      BY <1>2, <3>1
  <2>3. ASSUME ReadInvoice(c) \/ FindInvoice(c) \/ FindPayable(c) \/ FindLeft(c) \/ RefreshPaid(c)
               \/ ReadOpen(c) \/ DropPending(c) PROVE Shape(c)'
    BY <1>2, <2>3 DEF ReadInvoice, FindInvoice, FindPayable, FindLeft, RefreshPaid, ReadOpen, DropPending,
        SeveralRequests, SingleRequests
  <2>4. ASSUME NEW i \in Invoices, ReadBucket(c, i) PROVE Shape(c)'
    BY <1>2, <2>4 DEF ReadBucket
  <2>5. ASSUME NEW i \in Invoices, WriteBucket(c, i) PROVE Shape(c)'
    <3>1. plan[c][i] > 0 /\ NoPlan[i] = 0
      BY <2>5 DEF WriteBucket, Turn, Todo, NoPlan
    <3>2. Several(c)
      BY <1>2, <3>1
    <3>3. QED
      BY <2>5, <3>2 DEF WriteBucket
  <2>6. ASSUME NEW i \in Invoices, PollSignature(c, i) PROVE Shape(c)'
    BY <1>2, <2>6 DEF PollSignature
  <2>7. QED
    BY <2>1, <2>2, <2>3, <2>4, <2>5, <2>6
    DEF Step, Single, Multi, Sign, CommitSent, CommitPaid, CommitNothingLeft, CommitPay, MatchPaid,
        CommitMatch, CommitMulti, CreatePending, Abort, Finish
<1>4. QED
  BY <1>1, <1>3 DEF SessionShape

\* What WriteBucket writes.
LEMMA BucketWrites ==
  ASSUME TypeInv, NEW c \in Clients, NEW i \in Invoices, WriteBucket(c, i)
  PROVE  LET x == Bucket(plan[c][i], unspent[c])
         IN  /\ x \in Nat /\ x > 0 /\ x <= plan[c][i] /\ unspent[c] - x \in Nat
             /\ unspent' = [unspent EXCEPT ![c] = unspent[c] - x]
             /\ mine[c][i] = None /\ ~Locked(c, i)
             /\ \E new \in Row :
                  /\ mine' = [mine EXCEPT ![c][i] = new]
                  /\ new.rows = row[i].rows + x
                  /\ new.recognized = row[i].recognized
                  /\ req[c].op = "ALLOC" =>
                       /\ new.paid = seen[c].paid + x
                       /\ new.status = NextStatus(Total[i], seen[c].paid + x, seen[c].status)
                       /\ new.received = (seen[c].paid + x >= Total[i])
                  /\ req[c].op # "ALLOC" => new.paid = row[i].paid
<1> DEFINE x == Bucket(plan[c][i], unspent[c])
           s == seen[c]
           r == [row[i] EXCEPT !.rows = @ + x]
           q == [r EXCEPT !.paid = s.paid + x]
<1> USE DEF TypeInv
<1>1. row[i] \in Row /\ s \in Row /\ plan[c][i] \in Nat /\ unspent[c] \in Nat
  BY DEF TypeOK
<1>2. x \in Nat /\ x > 0 /\ x <= plan[c][i] /\ unspent[c] - x \in Nat
  BY <1>1 DEF WriteBucket, Turn, Todo, Bucket, Lesser
<1>3. row[i].rows + x \in Int /\ s.paid + x \in Int /\ s.rows + x \in Int /\ s.status \in Statuses
  BY <1>1, <1>2 DEF Row
<1>4. \A z \in Row, a \in Int :
        /\ [z EXCEPT !.rows = a] \in Row /\ [z EXCEPT !.paid = a] \in Row
        /\ [z EXCEPT !.rows = a].recognized = z.recognized
        /\ [z EXCEPT !.paid = a].recognized = z.recognized
        /\ [z EXCEPT !.paid = a].rows = z.rows /\ [z EXCEPT !.rows = a].paid = z.paid
        /\ [z EXCEPT !.paid = a].paid = a /\ [z EXCEPT !.rows = a].rows = a
  BY DEF Row
<1>5. /\ mine' = [mine EXCEPT ![c][i] = IF req[c].op = "ALLOC"
                                        THEN WithState(i, q, s.paid + x, s.status)
                                        ELSE WithState(i, r, s.rows + x, s.status)]
      /\ unspent' = [unspent EXCEPT ![c] = unspent[c] - x]
      /\ mine[c][i] = None /\ ~Locked(c, i)
  BY DEF WriteBucket, Turn, Todo, TypeOK
<1> HIDE DEF x
<1>6. /\ r \in Row /\ r.recognized = row[i].recognized /\ r.rows = row[i].rows + x
      /\ r.paid = row[i].paid
      /\ q \in Row /\ q.recognized = row[i].recognized /\ q.rows = row[i].rows + x
      /\ q.paid = s.paid + x
  <2>1. r = [row[i] EXCEPT !.rows = row[i].rows + x]
    OBVIOUS
  <2>2. /\ r \in Row /\ r.recognized = row[i].recognized /\ r.rows = row[i].rows + x
        /\ r.paid = row[i].paid
    <3> HIDE DEF r
    <3>1. QED
      BY <2>1, <1>1, <1>3, <1>4
  <2> HIDE DEF r
  <2>3. /\ q \in Row /\ q.recognized = r.recognized /\ q.rows = r.rows
        /\ q.paid = s.paid + x
    BY <2>2, <1>3, <1>4
  <2>4. QED
    BY <2>2, <2>3
<1> HIDE DEF q, r, s
<1> DEFINE u == WithState(i, q, s.paid + x, s.status)
           v == WithState(i, r, s.rows + x, s.status)
<1>7. /\ u \in Row /\ u.recognized = row[i].recognized /\ u.rows = row[i].rows + x
      /\ u.paid = s.paid + x
      /\ u.status = NextStatus(Total[i], s.paid + x, s.status) /\ u.received = (s.paid + x >= Total[i])
      /\ v \in Row /\ v.recognized = row[i].recognized /\ v.rows = row[i].rows + x
      /\ v.paid = row[i].paid
  BY <1>3, <1>6, WithStateFields
<1> HIDE DEF u, v
<1>8. mine' = [mine EXCEPT ![c][i] = IF req[c].op = "ALLOC" THEN u ELSE v]
  BY <1>5 DEF u, v
<1>9. \E new \in Row :
        /\ mine' = [mine EXCEPT ![c][i] = new]
        /\ new.rows = row[i].rows + x
        /\ new.recognized = row[i].recognized
        /\ req[c].op = "ALLOC" =>
             /\ new.paid = s.paid + x
             /\ new.status = NextStatus(Total[i], s.paid + x, s.status)
             /\ new.received = (s.paid + x >= Total[i])
        /\ req[c].op # "ALLOC" => new.paid = row[i].paid
  <2>1. CASE req[c].op = "ALLOC"
    BY <2>1, <1>7, <1>8
  <2>2. CASE req[c].op # "ALLOC"
    BY <2>2, <1>7, <1>8
  <2>3. QED
    BY <2>1, <2>2
<1>10. QED
  BY <1>2, <1>5, <1>9 DEF x, s

\* A row version is written only where no other client has one.
LEMMA LockStep ==
  ASSUME TypeInv, RowsLocked, NEW c \in Clients, Step(c)
  PROVE  RowsLocked'
<1>1. ASSUME NEW i \in Invoices, WriteBucket(c, i) PROVE RowsLocked'
  <2>1. PICK new : mine' = [mine EXCEPT ![c][i] = new]
    BY <1>1, BucketWrites
  <2>2. \A d \in Clients : d # c => mine[d][i] = None
    BY <1>1 DEF WriteBucket, Locked
  <2>3. QED
    BY <2>1, <2>2 DEF RowsLocked, TypeInv, SessionOK
<1>2. ASSUME mine' = [mine EXCEPT ![c] = NoWrites] PROVE RowsLocked'
  BY <1>2 DEF RowsLocked, TypeInv, SessionOK, NoWrites
<1>3. ASSUME UNCHANGED mine PROVE RowsLocked'
  BY <1>3 DEF RowsLocked
<1>4. QED
  BY <1>1, <1>2, <1>3
  DEF Step, Accept, Single, Multi, Sign, CommitSent, CommitPaid, CommitNothingLeft, CommitPay, MatchPaid,
      CommitMatch, CommitMulti, CreatePending, Abort, Finish, AcceptStatus, AcceptPay, AcceptAlloc,
      AcceptMatch, AcceptNetting, AcceptSignature, ReadInvoice, FindInvoice, FindPayable, FindLeft,
      RefreshPaid, ReadOpen, DropPending, ReadBucket, PollSignature

\* The payment rows of each invoice, summed.
RowsPaid == [i \in Invoices |-> row[i].rows]

\* What the row versions of client c add to the payment rows.
Gap(c) == [i \in Invoices |-> IF mine[c][i] = None THEN 0 ELSE mine[c][i].rows - row[i].rows]

\* What a session has read, checked or written still holds.
ReadsHold ==
  \A c \in Clients :
    /\ req[c].op = "PAY" => req[c].acct \in Accounts
    /\ pc[c] = "ready" /\ req[c].op = "PAY" =>
         Payment(req[c].inv, req[c].amt, Total[req[c].inv] - seen[c].paid)
    /\ pc[c] = "fresh" /\ req[c].op = "PAID" /\ seen[c].recognized => row[req[c].inv].recognized

\* Row versions are of recognized invoices, and a netting leaves paidAmount alone.
WrittenRows ==
  \A c \in Clients, i \in Invoices : mine[c][i] # None =>
    row[i].recognized /\ (req[c].op # "ALLOC" => mine[c][i].paid = row[i].paid)

\* What client c has written is what it has spent.
BucketsAddUp ==
  \A c \in Clients : Several(c) => SumOver(Gap(c), Invoices) = req[c].amt - unspent[c]

\* The invariant of the sessions.
SettlementInv ==
  /\ RevenueInv /\ SessionShape /\ RowsLocked /\ ReadsHold /\ WrittenRows /\ BucketsAddUp

\* Client c commits a payment or a status of the invoice it asked for.
OneCommit(c, i, x, over, acct, mirror, posted) ==
  /\ i = req[c].inv
  /\ pc[c] = "ready" \/ (pc[c] = "fresh" /\ req[c].op = "PAID")
  /\ Commits(c, i, x, over, acct, mirror, posted)
  /\ posted => ~seen[c].recognized
  /\ ~posted => row[i].recognized
  /\ \/ mirror /\ UNCHANGED line
     \/ x = 0 /\ over = 0 /\ UNCHANGED line
     \/ /\ ~mirror /\ req[c].line \in Lines /\ x + over = LineAmount[req[c].line]
        /\ line' = [line EXCEPT ![req[c].line] =
                      [matched |-> TRUE, booked |-> line[req[c].line].booked + 1]]

\* What a step can do to the committed state.
StepKind(c) ==
  \/ UNCHANGED <<row, books, line>>
  \/ MatchPaid(c)
  \/ \E i \in Invoices, x, over \in Nat, acct \in {"101", "221"}, mirror, posted \in BOOLEAN :
       OneCommit(c, i, x, over, acct, mirror, posted)
  \/ CommitMulti(c)
  \/ \E i \in Invoices : PollSignature(c, i)

\* Every step is one of these.
LEMMA StepKinds ==
  ASSUME RevenueInv, ReadsHold, NEW c \in Clients, Step(c)
  PROVE  StepKind(c)
<1> DEFINE Goal == \E i \in Invoices, x, over \in Nat, acct \in {"101", "221"}, mirror, posted \in BOOLEAN :
                     OneCommit(c, i, x, over, acct, mirror, posted)
<1>0. TypeInv /\ SessionsRecognized
  BY DEF RevenueInv
<1>1. ASSUME CommitSent(c) PROVE Goal
  <2> DEFINE i == req[c].inv
             posted == ~seen[c].recognized
  <2>1. i \in Invoices /\ Commits(c, i, 0, 0, "221", FALSE, posted) /\ UNCHANGED line
        /\ pc[c] = "ready"
    BY <1>0, <1>1, SentCommits DEF CommitSent, Ready
  <2>2. ~posted => row[i].recognized
    BY <1>0, <1>1 DEF CommitSent, Ready, SessionsRecognized
  <2>3. posted \in BOOLEAN /\ (posted => ~seen[c].recognized)
    OBVIOUS
  <2> HIDE DEF posted
  <2>4. OneCommit(c, i, 0, 0, "221", FALSE, posted)
    BY <2>1, <2>2, <2>3 DEF OneCommit
  <2>5. QED
    BY <2>1, <2>3, <2>4
<1>2. ASSUME CommitNothingLeft(c) PROVE Goal
  <2> DEFINE i == req[c].inv
             posted == ~seen[c].recognized
  <2>1. i \in Invoices /\ Commits(c, i, 0, 0, "221", FALSE, posted) /\ UNCHANGED line
        /\ pc[c] = "fresh" /\ req[c].op = "PAID"
    BY <1>0, <1>2, NothingLeftCommits DEF CommitNothingLeft
  <2>2. ~posted => row[i].recognized
    BY <1>0, <1>2 DEF CommitNothingLeft, ReadsHold
  <2>3. posted \in BOOLEAN /\ (posted => ~seen[c].recognized)
    OBVIOUS
  <2> HIDE DEF posted
  <2>4. OneCommit(c, i, 0, 0, "221", FALSE, posted)
    BY <2>1, <2>2, <2>3 DEF OneCommit
  <2>5. QED
    BY <2>1, <2>3, <2>4
<1>3. ASSUME CommitPaid(c) PROVE Goal
  <2> DEFINE i == req[c].inv
             left == Total[i] - seen[c].paid
             posted == ~seen[c].recognized
  <2>1. i \in Invoices /\ left \in Int /\ left > 0
        /\ Commits(c, i, left, 0, DebitAccount[i], TRUE, posted) /\ UNCHANGED line
        /\ pc[c] = "ready"
    BY <1>0, <1>3, PaidCommits DEF CommitPaid, Ready
  <2>2. ~posted => row[i].recognized
    BY <1>0, <1>3 DEF CommitPaid, Ready, SessionsRecognized
  <2>3. posted \in BOOLEAN /\ (posted => ~seen[c].recognized) /\ DebitAccount[i] \in {"101", "221"}
    BY <2>1, ReceivablesAssumption
  <2> HIDE DEF posted, left
  <2>4. OneCommit(c, i, left, 0, DebitAccount[i], TRUE, posted)
    BY <2>1, <2>2, <2>3 DEF OneCommit
  <2>5. left \in Nat /\ 0 \in Nat
    BY <2>1
  <2>6. QED
    BY <2>1, <2>3, <2>4, <2>5
<1>4. ASSUME CommitPay(c) PROVE Goal
  <2> DEFINE i == req[c].inv
             x == PayablePart(req[c].amt, Total[i] - seen[c].paid)
             over == req[c].amt - x
  <2>1. row[i].recognized
    BY <1>0, <1>4 DEF CommitPay, Ready, SessionsRecognized
  <2>2. i \in Invoices /\ x \in Int /\ over \in Nat
        /\ Commits(c, i, x, over, req[c].acct, TRUE, FALSE) /\ UNCHANGED line
        /\ pc[c] = "ready"
    BY <1>0, <1>4, <2>1, PayCommits DEF CommitPay, Ready
  <2>3. x > 0 /\ req[c].acct \in {"101", "221"}
    BY <1>0, <1>4, ReceivablesAssumption DEF CommitPay, Ready, ReadsHold, Payment
  <2> HIDE DEF x, over
  <2>4. OneCommit(c, i, x, over, req[c].acct, TRUE, FALSE)
    BY <2>1, <2>2, <2>3 DEF OneCommit
  <2>5. x \in Nat
    BY <2>2, <2>3
  <2>6. QED
    BY <2>2, <2>3, <2>4, <2>5
<1>5. ASSUME CommitMatch(c) PROVE Goal
  <2> DEFINE i == req[c].inv
             l == req[c].line
             left == Total[i] - (IF seen[c].recognized THEN seen[c].paid ELSE row[i].paid)
             x == PayablePart(LineAmount[l], left)
             over == LineAmount[l] - x
             posted == ~seen[c].recognized
  <2>1. ~posted => row[i].recognized
    BY <1>0, <1>5 DEF CommitMatch, Ready, SessionsRecognized
  <2>2. /\ i \in Invoices /\ l \in Lines /\ x \in Nat /\ over \in Nat /\ LineAmount[l] \in Nat
        /\ Commits(c, i, x, over, DebitAccount[i], FALSE, posted)
        /\ line' = [line EXCEPT ![l] = [matched |-> TRUE, booked |-> line[l].booked + 1]]
        /\ pc[c] = "ready"
    BY <1>0, <1>5, <2>1, MatchCommits DEF CommitMatch, Ready
  <2>3. posted \in BOOLEAN /\ (posted => ~seen[c].recognized) /\ DebitAccount[i] \in {"101", "221"}
    BY <2>2, ReceivablesAssumption
  <2>4. x + over = LineAmount[l]
    <3> HIDE DEF x
    <3>1. QED BY <2>2
  <2> HIDE DEF x, over, posted, left
  <2>5. OneCommit(c, i, x, over, DebitAccount[i], FALSE, posted)
    BY <2>1, <2>2, <2>3, <2>4 DEF OneCommit
  <2>6. QED
    BY <2>2, <2>3, <2>5
<1>6. QED
  BY <1>1, <1>2, <1>3, <1>4, <1>5
  DEF StepKind, Step, Accept, Single, Multi, Sign, Abort, AcceptStatus, AcceptPay, AcceptAlloc,
      AcceptMatch, AcceptNetting, AcceptSignature, ReadInvoice, FindInvoice, FindPayable, FindLeft,
      RefreshPaid, ReadOpen, DropPending, ReadBucket, WriteBucket, CreatePending

\* An invoice that another client has written is left alone.
LEMMA LockedRowKept ==
  ASSUME SettlementInv, NEW c \in Clients, Step(c), NEW d \in Clients, d # c,
         NEW i \in Invoices, mine[d][i] # None
  PROVE  row'[i] = row[i]
<1>0. TypeInv /\ StepKind(c) /\ row \in [Invoices -> Row]
  BY StepKinds DEF SettlementInv, RevenueInv, TypeInv, TypeOK
<1>1. ASSUME NEW k \in Invoices, NEW new, ~Locked(c, k), row' = [row EXCEPT ![k] = new]
      PROVE  row'[i] = row[i]
  <2>1. k # i
    BY <1>1 DEF Locked
  <2>2. QED
    BY <1>0, <1>1, <2>1
<1>2. CASE CommitMulti(c)
  <2>1. mine[c][i] = None
    BY DEF SettlementInv, RowsLocked
  <2>2. QED
    BY <1>2, <2>1 DEF CommitMulti
<1>3. CASE \E k \in Invoices, x, over \in Nat, acct \in {"101", "221"}, mirror, posted \in BOOLEAN :
             OneCommit(c, k, x, over, acct, mirror, posted)
  <2>1. PICK k \in Invoices, x \in Nat, over \in Nat, acct \in {"101", "221"}, mirror \in BOOLEAN,
             posted \in BOOLEAN : OneCommit(c, k, x, over, acct, mirror, posted)
    BY <1>3
  <2>2. ~Locked(c, k) /\ \E new : row' = [row EXCEPT ![k] = new]
    BY <2>1 DEF OneCommit, Commits
  <2>3. QED
    BY <1>1, <2>2
<1>4. CASE \E k \in Invoices : PollSignature(c, k)
  BY <1>1, <1>4 DEF PollSignature
<1>5. QED
  BY <1>0, <1>2, <1>3, <1>4 DEF StepKind, MatchPaid

\* The sums over the invoices are sums of integers.
LEMMA GapTypes ==
  ASSUME TypeInv, NEW c \in Clients
  PROVE  /\ IsFiniteSet(Invoices)
         /\ \A i \in Invoices : Gap(c)[i] \in Int /\ RowsPaid[i] \in Int
         /\ SumOver(Gap(c), Invoices) \in Int /\ SumOver(RowsPaid, Invoices) \in Int
<1>1. \A i \in Invoices : /\ row[i] \in Row
                          /\ mine[c][i] # None => mine[c][i] \in Row
  BY DEF TypeInv, TypeOK, SessionOK
<1>2. \A r \in Row : r.rows \in Int
  BY DEF Row
<1>3. \A i \in Invoices : Gap(c)[i] \in Int /\ RowsPaid[i] \in Int
  BY <1>1, <1>2 DEF Gap, RowsPaid
<1>4. IsFiniteSet(Invoices)
  BY ReceivablesAssumption
<1>5. QED
  BY <1>3, <1>4, SumType

\* A client that has written nothing adds nothing.
LEMMA NoGap ==
  ASSUME NEW c \in Clients, mine[c] = NoWrites
  PROVE  SumOver(Gap(c), Invoices) = 0
<1>1. \A i \in Invoices : Gap(c)[i] = 0
  BY DEF Gap, NoWrites
<1>2. QED
  BY <1>1, SumZero, ReceivablesAssumption

\* What the sessions have read keeps holding.
LEMMA ReadsStep ==
  ASSUME SettlementInv, NEW c \in Clients, Step(c), Next
  PROVE  ReadsHold'
<1> DEFINE Holds(d) ==
      /\ req[d].op = "PAY" => req[d].acct \in Accounts
      /\ pc[d] = "ready" /\ req[d].op = "PAY" =>
           Payment(req[d].inv, req[d].amt, Total[req[d].inv] - seen[d].paid)
      /\ pc[d] = "fresh" /\ req[d].op = "PAID" /\ seen[d].recognized => row[req[d].inv].recognized
<1>0. RevenueInv /\ TypeInv /\ SessionsRecognized /\ Holds(c) /\ None \notin AllRequests
  BY ReceivablesAssumption DEF SettlementInv, RevenueInv, ReadsHold
<1>1. \A j \in Invoices : row[j].recognized => row'[j].recognized
  BY <1>0, RecognizedStep
<1>2. ASSUME NEW d \in Clients, d # c PROVE Holds(d)'
  <2>1. /\ pc'[d] = pc[d] /\ req'[d] = req[d] /\ seen'[d] = seen[d]
    BY <1>0, <1>2, OthersKept
  <2>2. Holds(d)
    BY DEF SettlementInv, ReadsHold
  <2>3. req[d].op = "PAID" => req[d].inv \in Invoices
    BY <1>0 DEF TypeInv, SessionOK
  <2>4. QED
    BY <1>1, <2>1, <2>2, <2>3
<1>3. Holds(c)'
  <2> USE DEF TypeInv, SessionOK
  <2>1. ASSUME Finish(c) PROVE Holds(c)'
    BY <1>0, <2>1, IdleTypes DEF Finish, AllRequests
  <2>2. ASSUME Accept(c) PROVE Holds(c)'
    <3>1. PICK op, role, i, x, a, l, step :
             /\ op = "PAY" => a \in Accounts
             /\ step \in {"begin", "drop"}
             /\ pc' = [pc EXCEPT ![c] = step]
             /\ req' = [req EXCEPT ![c] = Ask(op, role, i, x, a, l)]
      BY <1>0, <2>2 DEF Accept, AcceptStatus, AcceptPay, AcceptAlloc, AcceptMatch, AcceptNetting,
         AcceptSignature, Open
    <3>2. QED
      BY <1>0, <3>1 DEF Ask
  <2>3. ASSUME ReadInvoice(c) \/ FindInvoice(c) \/ FindPayable(c) \/ FindLeft(c) PROVE Holds(c)'
    BY <1>0, <2>3 DEF ReadInvoice, FindInvoice, FindPayable, FindLeft, Admissible
  <2>4. ASSUME RefreshPaid(c) PROVE Holds(c)'
    <3>1. /\ pc' = [pc EXCEPT ![c] = "fresh"] /\ UNCHANGED <<row, req>>
          /\ pc[c] = "ready" /\ seen'[c].recognized = seen[c].recognized
      BY <1>0, <2>4 DEF RefreshPaid, Row
    <3>2. QED
      BY <1>0, <3>1 DEF SessionsRecognized
  <2>5. ASSUME NEW i \in Invoices, ReadBucket(c, i) PROVE Holds(c)'
    <3>1. req[c].op \in SeveralRequests
      BY <2>5 DEF ReadBucket, SettlementInv, SessionShape
    <3>2. QED
      BY <1>0, <3>1, <2>5 DEF ReadBucket, SeveralRequests
  <2>6. ASSUME ReadOpen(c) \/ DropPending(c) \/ \E i \in Invoices : WriteBucket(c, i) PROVE Holds(c)'
    BY <1>0, <2>6 DEF ReadOpen, DropPending, WriteBucket
  <2>7. ASSUME NEW i \in Invoices, PollSignature(c, i) PROVE Holds(c)'
    BY <1>0, <2>7 DEF PollSignature
  <2>8. QED
    BY <2>1, <2>2, <2>3, <2>4, <2>5, <2>6, <2>7
    DEF Step, Single, Multi, Sign, CommitSent, CommitPaid, CommitNothingLeft, CommitPay, MatchPaid,
        CommitMatch, CommitMulti, CreatePending, Abort, Finish
<1>4. QED
  BY <1>2, <1>3 DEF ReadsHold

\* The row versions of a session stay versions of the committed rows, which are locked.
LEMMA WrittenStep ==
  ASSUME SettlementInv, NEW c \in Clients, Step(c)
  PROVE  WrittenRows'
<1> DEFINE Kept(d, i) == mine[d][i] # None =>
             row[i].recognized /\ (req[d].op # "ALLOC" => mine[d][i].paid = row[i].paid)
<1>0. TypeInv /\ SessionsRecognized /\ \A d \in Clients, i \in Invoices : Kept(d, i)
  BY DEF SettlementInv, RevenueInv, WrittenRows
<1>a. ASSUME NEW k \in Invoices, WriteBucket(c, k)
      PROVE  \E new \in Row : /\ mine' = [mine EXCEPT ![c][k] = new]
                              /\ req[c].op # "ALLOC" => new.paid = row[k].paid
  <2>1. TypeInv
    BY <1>0
  <2>2. QED
    BY <2>1, <1>a, BucketWrites
<1>1. ASSUME NEW d \in Clients, d # c, NEW i \in Invoices PROVE Kept(d, i)'
  <2>1. mine'[d] = mine[d] /\ req'[d] = req[d]
    BY <1>0, <1>1, OthersKept
  <2>2. mine[d][i] # None => row'[i] = row[i]
    BY <1>1, LockedRowKept
  <2>3. QED
    BY <1>0, <2>1, <2>2
<1>2. ASSUME NEW i \in Invoices PROVE Kept(c, i)'
  <2> USE DEF TypeInv, SessionOK
  <2>1. ASSUME mine'[c] = NoWrites PROVE Kept(c, i)'
    BY <2>1 DEF NoWrites
  <2>2. ASSUME UNCHANGED <<row, req, mine>> PROVE Kept(c, i)'
    BY <1>0, <2>2
  <2>3. ASSUME NEW k \in Invoices, WriteBucket(c, k) PROVE Kept(c, i)'
    <3>1. PICK new \in Row :
             /\ mine' = [mine EXCEPT ![c][k] = new]
             /\ req[c].op # "ALLOC" => new.paid = row[k].paid
      BY <1>a, <2>3
    <3>2. row[k].recognized
      BY <1>0, <2>3 DEF WriteBucket, Turn, Todo, SessionsRecognized
    <3>3. UNCHANGED <<row, req>>
      BY <2>3 DEF WriteBucket
    <3>4. QED
      BY <1>0, <3>1, <3>2, <3>3
  <2>4. ASSUME pc[c] \in {"idle", "begin", "ready", "match", "again", "drop", "create"}, UNCHANGED mine PROVE Kept(c, i)'
    <3>1. mine[c] = NoWrites
      BY <2>4 DEF SettlementInv, SessionShape, Several
    <3>2. QED
      BY <2>1, <2>4, <3>1
  <2>5. ASSUME Finish(c) PROVE Kept(c, i)'
    BY <1>0, <2>1, <2>5 DEF Finish
  <2>6. QED
    BY <2>2, <2>3, <2>4, <2>5
    DEF Step, Accept, Single, Multi, Sign, CommitSent, CommitPaid, CommitNothingLeft, CommitPay,
        MatchPaid, CommitMatch, CommitMulti, CreatePending, Abort, Finish, AcceptStatus, AcceptPay,
        AcceptAlloc, AcceptMatch, AcceptNetting, AcceptSignature, Open, ReadInvoice, FindInvoice,
        FindPayable, FindLeft, RefreshPaid, ReadOpen, DropPending, ReadBucket, PollSignature
<1>3. QED
  BY <1>1, <1>2 DEF WrittenRows

\* What a session has written stays what it has spent of its amount.
LEMMA AddUpStep ==
  ASSUME SettlementInv, NEW c \in Clients, Step(c), TypeInv', SessionShape'
  PROVE  BucketsAddUp'
<1> DEFINE Adds(d) == Several(d) => SumOver(Gap(d), Invoices) = req[d].amt - unspent[d]
<1>0. TypeInv /\ IsFiniteSet(Invoices) /\ \A d \in Clients : Adds(d)
  BY ReceivablesAssumption DEF SettlementInv, RevenueInv, BucketsAddUp
<1>1. ASSUME NEW d \in Clients,
             mine'[d] = mine[d], \A i \in Invoices : mine[d][i] # None => row'[i] = row[i]
      PROVE  SumOver(Gap(d)', Invoices) = SumOver(Gap(d), Invoices)
  <2>1. \A i \in Invoices : Gap(d)'[i] = Gap(d)[i]
    BY <1>1 DEF Gap
  <2>2. QED
    BY <1>0, <2>1, SumSame
<1>2. ASSUME NEW d \in Clients, d # c PROVE Adds(d)'
  <2>1. /\ mine'[d] = mine[d] /\ req'[d] = req[d] /\ pc'[d] = pc[d] /\ unspent'[d] = unspent[d]
    BY <1>0, <1>2, OthersKept
  <2>2. SumOver(Gap(d)', Invoices) = SumOver(Gap(d), Invoices)
    BY <1>1, <1>2, <2>1, LockedRowKept
  <2>3. QED
    BY <1>0, <2>1, <2>2 DEF Several
<1>3. Adds(c)'
  <2> USE DEF TypeInv, SessionOK
  <2>1. ASSUME Several(c)', pc'[c] \notin {"multi", "fresh"} PROVE FALSE
    BY <2>1 DEF Several
  <2>2. ASSUME ReadOpen(c) PROVE Adds(c)'
    <3>1. mine'[c] = NoWrites /\ unspent'[c] = req'[c].amt /\ req'[c].amt \in Nat
      BY <1>0, <2>2 DEF ReadOpen, SettlementInv, SessionShape, Several, Request
    <3>2. SumOver(Gap(c)', Invoices) = 0
      <4>1. \A i \in Invoices : Gap(c)'[i] = 0
        BY <3>1 DEF Gap, NoWrites
      <4>2. QED
        BY <1>0, <4>1, SumZero
    <3>3. QED
      BY <3>1, <3>2
  <2>3. ASSUME NEW i \in Invoices, ReadBucket(c, i) PROVE Adds(c)'
    <3>1. UNCHANGED <<row, req, unspent, mine>> /\ pc[c] = "multi"
      BY <2>3 DEF ReadBucket
    <3>2. SumOver(Gap(c)', Invoices) = SumOver(Gap(c), Invoices)
      BY <1>1, <3>1
    <3>3. Several(c)
      BY <3>1 DEF SettlementInv, SessionShape, Several
    <3>4. QED
      BY <1>0, <3>1, <3>2, <3>3
  <2>4. ASSUME NEW i \in Invoices, WriteBucket(c, i) PROVE Adds(c)'
    <3> DEFINE x == Bucket(plan[c][i], unspent[c])
    <3>1. PICK new \in Row :
             /\ mine' = [mine EXCEPT ![c][i] = new]
             /\ new.rows = row[i].rows + x
      BY <1>0, <2>4, BucketWrites
    <3>2. /\ x \in Nat /\ unspent' = [unspent EXCEPT ![c] = unspent[c] - x] /\ mine[c][i] = None
          /\ UNCHANGED <<row, req>> /\ unspent[c] \in Nat /\ req[c].amt \in Nat
          /\ None \notin Row /\ plan[c][i] > 0
      BY <1>0, <2>4, NoneIsNoRow, BucketWrites DEF WriteBucket, Turn, Todo, Request
    <3> HIDE DEF x
    <3>3. Several(c)
      BY <3>2 DEF SettlementInv, SessionShape, NoPlan
    <3>4. Gap(c)'[i] = x /\ Gap(c)[i] = 0
      <4>1. mine'[c][i] = new /\ row[i].rows \in Int
        BY <1>0, <3>1 DEF TypeOK, Row
      <4>2. QED
        BY <3>1, <3>2, <4>1 DEF Gap
    <3>5. \A k \in Invoices \ {i} : Gap(c)'[k] = Gap(c)[k]
      BY <1>0, <3>1, <3>2 DEF Gap
    <3>6. /\ \A k \in Invoices : Gap(c)[k] \in Int
          /\ SumOver(Gap(c), Invoices) \in Int
      BY <1>0, GapTypes
    <3>7. ASSUME NEW k \in Invoices PROVE Gap(c)'[k] \in Int
      <4>1. CASE k = i
        <5>1. x \in Int
          BY <3>2
        <5>2. QED
          BY <3>4, <4>1, <5>1
      <4>2. CASE k # i
        <5> HIDE DEF Gap
        <5>1. Gap(c)'[k] = Gap(c)[k] /\ Gap(c)[k] \in Int
          BY <3>5, <3>6, <4>2
        <5>2. QED
          BY <5>1, Zenon
      <4>3. QED
        BY <4>1, <4>2
    <3>8. SumOver(Gap(c)', Invoices) = SumOver(Gap(c), Invoices) + Gap(c)'[i] - Gap(c)[i]
      <4> DEFINE f == Gap(c)
                 g == Gap(c)'
      <4>1. /\ IsFiniteSet(Invoices)
            /\ \A y \in Invoices : f[y] \in Int /\ g[y] \in Int
            /\ \A y \in Invoices \ {i} : g[y] = f[y]
        BY <1>0, <3>5, <3>6, <3>7
      <4> HIDE DEF f, g
      <4>2. SumOver(g, Invoices) = SumOver(f, Invoices) + g[i] - f[i]
        BY <4>1, SumChange
      <4>3. QED
        BY <4>2 DEF f, g
    <3>9. unspent'[c] = unspent[c] - x /\ req'[c] = req[c]
      BY <1>0, <3>2
    <3>10. QED
      BY <1>0, <3>2, <3>3, <3>4, <3>6, <3>8, <3>9
  <2>5. ASSUME Accept(c) PROVE pc'[c] \notin {"multi", "fresh"}
    BY <1>0, <2>5 DEF Accept, AcceptStatus, AcceptPay, AcceptAlloc, AcceptMatch, AcceptNetting,
         AcceptSignature, Open
  <2>6. ASSUME Finish(c) \/ ReadInvoice(c) \/ FindInvoice(c) \/ FindPayable(c) \/ FindLeft(c)
               \/ DropPending(c) \/ \E i \in Invoices : PollSignature(c, i)
        PROVE  pc'[c] \notin {"multi", "fresh"}
    BY <1>0, <2>6 DEF Finish, ReadInvoice, FindInvoice, FindPayable, FindLeft, DropPending, PollSignature
  <2>7. ASSUME RefreshPaid(c) PROVE ~Several(c)'
    BY <1>0, <2>7 DEF RefreshPaid, Several, SeveralRequests
  <2>8. QED
    BY <2>1, <2>2, <2>3, <2>4, <2>5, <2>6, <2>7
    DEF Step, Single, Multi, Sign, CommitSent, CommitPaid, CommitNothingLeft, CommitPay,
        MatchPaid, CommitMatch, CommitMulti, CreatePending, Abort, Finish
<1>4. QED
  BY <1>2, <1>3 DEF BucketsAddUp

\* The invariant of the sessions holds at first and is kept.
LEMMA SettlementInit == Init => SettlementInv
<1> SUFFICES ASSUME Init PROVE SettlementInv
  OBVIOUS
<1>1. TypeInv
  BY TypeInit
<1>2. /\ \A i \in Invoices : row[i].rows = 0
      /\ \A c \in Clients : /\ pc[c] = "idle" /\ req[c] = NoRequest /\ req[c].op = None
                            /\ plan[c] = NoPlan /\ mine[c] = NoWrites
                            /\ \A i \in Invoices : plan[c][i] = 0 /\ mine[c][i] = None
  BY IdleTypes DEF Init, NewRow, NoPlan, NoWrites
<1>3. None \notin AllRequests
  BY ReceivablesAssumption
<1>4. RevenueBeforeMoney /\ SessionsRecognized
  BY <1>2 DEF RevenueBeforeMoney, SessionsRecognized
<1>5. SessionShape /\ RowsLocked /\ ReadsHold /\ WrittenRows /\ BucketsAddUp
  BY <1>2, <1>3 DEF SessionShape, RowsLocked, ReadsHold, WrittenRows, BucketsAddUp, Several, AllRequests
<1>6. QED
  BY <1>1, <1>4, <1>5 DEF SettlementInv, RevenueInv

\* Every step keeps it.
LEMMA SettlementStep == SettlementInv /\ [Next]_vars => SettlementInv'
<1> SUFFICES ASSUME SettlementInv, [Next]_vars PROVE SettlementInv'
  OBVIOUS
<1>1. RevenueInv'
  BY RevenueStep DEF SettlementInv
<1>2. CASE UNCHANGED vars
  <2>1. SessionShape' /\ RowsLocked' /\ ReadsHold' /\ WrittenRows'
    BY <1>2 DEF vars, SettlementInv, SessionShape, RowsLocked, ReadsHold, WrittenRows, Several
  <2>2. \A c \in Clients : Gap(c)' = Gap(c)
    BY <1>2 DEF vars, Gap
  <2>3. BucketsAddUp'
    BY <1>2, <2>2 DEF vars, SettlementInv, BucketsAddUp, Several
  <2>4. QED
    BY <1>1, <2>1, <2>3 DEF SettlementInv
<1>3. CASE Next
  <2>1. PICK c \in Clients : Step(c)
    BY <1>3 DEF Next, Step
  <2>2. TypeInv /\ TypeInv'
    BY <1>1 DEF SettlementInv, RevenueInv
  <2>3. SessionShape' /\ RowsLocked'
    BY <2>1, <2>2, ShapeStep, LockStep DEF SettlementInv
  <2>4. ReadsHold' /\ WrittenRows' /\ BucketsAddUp'
    BY <1>3, <2>1, <2>2, <2>3, ReadsStep, WrittenStep, AddUpStep
  <2>5. QED
    BY <1>1, <2>3, <2>4 DEF SettlementInv
<1>4. QED
  BY <1>2, <1>3

\* What the commit of an allocation or a netting does.
LEMMA MultiCommits ==
  ASSUME SettlementInv, NEW c \in Clients, CommitMulti(c)
  PROVE  /\ \A i \in Invoices : /\ mine[c][i] = None => row'[i] = row[i]
                                /\ mine[c][i] # None => row'[i] = mine[c][i]
                                /\ row'[i].rows = row[i].rows + Gap(c)[i]
                                /\ row'[i].recognized <=> row[i].recognized
         /\ books'.cr211 = books.cr211 + SumOver(Gap(c), Invoices)
         /\ books'.dr211 = books.dr211
         /\ req[c].op # "ALLOC" =>
              /\ books'.cash = books.cash /\ books'.bank = books.bank /\ books'.gain = books.gain
              /\ books'.registry = books.registry /\ books'.orders = books.orders
<1>0. TypeInv /\ SessionsRecognized /\ books \in Books /\ req[c].amt \in Int /\ unspent[c] \in Int
  BY DEF SettlementInv, RevenueInv, TypeInv, TypeOK, Request
<1>1. ASSUME NEW i \in Invoices
      PROVE  /\ mine[c][i] = None => row'[i] = row[i]
             /\ mine[c][i] # None => row'[i] = mine[c][i]
             /\ row'[i].rows = row[i].rows + Gap(c)[i]
             /\ row'[i].recognized <=> row[i].recognized
  <2>1. row'[i] = IF mine[c][i] = None THEN row[i] ELSE mine[c][i]
    BY DEF CommitMulti
  <2>2. row[i].rows \in Int /\ (mine[c][i] # None => mine[c][i].rows \in Int)
    BY <1>0 DEF TypeInv, TypeOK, Row
  <2>3. row'[i].rows = row[i].rows + Gap(c)[i]
    BY <2>1, <2>2 DEF Gap
  <2>4. row'[i].recognized <=> row[i].recognized
    BY <1>0, <2>1 DEF SessionsRecognized, SettlementInv, WrittenRows
  <2>5. QED
    BY <2>1, <2>3, <2>4
<1>2. Several(c) /\ SumOver(Gap(c), Invoices) = req[c].amt - unspent[c]
  BY DEF CommitMulti, SettlementInv, SessionShape, Several, BucketsAddUp
<1>3. CASE req[c].op = "ALLOC"
  <2> DEFINE applied == req[c].amt - unspent[c]
             m == On(req[c].acct, "101", applied)
             n == On(req[c].acct, "221", applied)
  <2>1. books' = [books EXCEPT !.cr211 = books.cr211 + applied, !.cash = books.cash + m,
                               !.bank = books.bank + n]
    BY <1>0, <1>3 DEF CommitMulti, Books
  <2> HIDE DEF applied, m, n
  <2>2. books'.cr211 = books.cr211 + applied /\ books'.dr211 = books.dr211
    BY <1>0, <2>1 DEF Books
  <2>3. QED
    BY <1>1, <1>2, <1>3, <2>2 DEF applied
<1>4. CASE req[c].op # "ALLOC"
  <2>1. books' = [books EXCEPT !.cr211 = books.cr211 + req[c].amt, !.ap531 = books.ap531 - req[c].amt]
    BY <1>0, <1>4 DEF CommitMulti, Books
  <2>2. unspent[c] = 0
    BY <1>2, <1>4 DEF CommitMulti, Distributed, Several, SeveralRequests
  <2>3. /\ books'.cr211 = books.cr211 + req[c].amt /\ books'.dr211 = books.dr211
        /\ books'.cash = books.cash /\ books'.bank = books.bank /\ books'.gain = books.gain
        /\ books'.registry = books.registry /\ books'.orders = books.orders
    BY <1>0, <2>1 DEF Books
  <2>4. SumOver(Gap(c), Invoices) = req[c].amt
    BY <1>0, <1>2, <2>2
  <2>5. QED
    BY <1>1, <2>3, <2>4
<1>5. QED
  BY <1>3, <1>4

\* Every step changes the payment rows and the credit of 211 by the same amount.
LEMMA SubledgerStep ==
  ASSUME SettlementInv, Subledger211, NEW c \in Clients, Step(c), TypeInv'
  PROVE  Subledger211'
<1> DEFINE old == RowsPaid
           new == RowsPaid'
<1>0. /\ StepKind(c) /\ TypeInv /\ row \in [Invoices -> Row]
      /\ SumOver(old, Invoices) = books.cr211
  BY StepKinds DEF SettlementInv, RevenueInv, TypeInv, TypeOK, Subledger211, RowsPaid
<1>1. /\ IsFiniteSet(Invoices)
      /\ \A i \in Invoices : old[i] \in Int /\ new[i] \in Int
      /\ \A i \in Invoices : old[i] = row[i].rows /\ new[i] = row'[i].rows
      /\ \A i \in Invoices : Gap(c)[i] \in Int
      /\ SumOver(old, Invoices) \in Int
  <2>1. \A i \in Invoices : new[i] \in Int
    BY DEF RowsPaid, TypeInv, TypeOK, Row
  <2>2. QED
    BY <1>0, <2>1, GapTypes DEF RowsPaid
<1>2. SUFFICES SumOver(new, Invoices) = books'.cr211
  BY <1>2 DEF Subledger211, RowsPaid
<1> HIDE DEF old, new
<1>3. ASSUME \A i \in Invoices : row'[i].rows = row[i].rows, books' = books
      PROVE  SumOver(new, Invoices) = books'.cr211
  <2>1. \A i \in Invoices : new[i] = old[i]
    BY <1>1, <1>3
  <2>2. SumOver(new, Invoices) = SumOver(old, Invoices)
    BY <1>1, <2>1, SumSame
  <2>3. QED
    BY <1>0, <1>3, <2>2
<1>4. ASSUME NEW i \in Invoices, NEW x \in Nat, NEW over, NEW acct, NEW mirror, NEW posted,
             OneCommit(c, i, x, over, acct, mirror, posted)
      PROVE  SumOver(new, Invoices) = books'.cr211
  <2>1. row'[i].rows = row[i].rows + x /\ \A k \in Invoices \ {i} : row'[k] = row[k]
    BY <1>0, <1>4 DEF OneCommit, Commits
  <2>2. new[i] = old[i] + x /\ \A k \in Invoices \ {i} : new[k] = old[k]
    BY <1>1, <2>1
  <2>3. SumOver(new, Invoices) = SumOver(old, Invoices) + new[i] - old[i]
    <3>1. /\ IsFiniteSet(Invoices)
          /\ \A k \in Invoices : old[k] \in Int /\ new[k] \in Int
          /\ \A k \in Invoices \ {i} : new[k] = old[k]
      BY <1>1, <2>2
    <3>2. QED
      BY <3>1, SumChange
  <2>4. books'.cr211 = books.cr211 + x
    BY <1>4 DEF OneCommit, Commits, Entries
  <2>5. QED
    BY <1>0, <1>1, <2>2, <2>3, <2>4
<1>5. ASSUME CommitMulti(c) PROVE SumOver(new, Invoices) = books'.cr211
  <2>1. /\ \A i \in Invoices : row'[i].rows = row[i].rows + Gap(c)[i]
        /\ books'.cr211 = books.cr211 + SumOver(Gap(c), Invoices)
    BY <1>5, MultiCommits
  <2> DEFINE gap == Gap(c)
  <2>2. \A i \in Invoices : old[i] \in Int /\ gap[i] \in Int /\ new[i] = old[i] + gap[i]
    BY <1>1, <2>1
  <2> HIDE DEF gap
  <2>3. SumOver(new, Invoices) = SumOver(old, Invoices) + SumOver(gap, Invoices)
    BY <1>1, <2>2, SumPlus
  <2>4. QED
    BY <1>0, <2>1, <2>3 DEF gap
<1>6. ASSUME NEW i \in Invoices, PollSignature(c, i) PROVE SumOver(new, Invoices) = books'.cr211
  <2>1. row' = [row EXCEPT ![i] = [row[i] EXCEPT !.status = "LOCKED_BY_SIGNATURE"]]
        /\ UNCHANGED books
    BY <1>6 DEF PollSignature
  <2>2. \A r \in Row : [r EXCEPT !.status = "LOCKED_BY_SIGNATURE"].rows = r.rows
    BY DEF Row
  <2>3. \A k \in Invoices : row'[k].rows = row[k].rows
    BY <1>0, <2>1, <2>2
  <2>4. QED
    BY <1>3, <2>1, <2>3
<1>7. QED
  BY <1>0, <1>3, <1>4, <1>5, <1>6 DEF StepKind, MatchPaid

\* Account 211 and the payment rows agree in every run: whatever mix of single payments,
\* bank matches, allocations and nettings overlaps, no request books a credit without its
\* rows or leaves rows without their credit.
THEOREM SubledgerAgrees == Spec => []Subledger211
<1> DEFINE I == SettlementInv /\ Subledger211
<1>1. Init => I
  <2> SUFFICES ASSUME Init PROVE I
    OBVIOUS
  <2>1. \A i \in Invoices : RowsPaid[i] = 0
    BY DEF Init, NewRow, RowsPaid
  <2>2. SumOver(RowsPaid, Invoices) = 0
    BY <2>1, SumZero, ReceivablesAssumption
  <2>3. Subledger211
    BY <2>2 DEF Init, Subledger211, RowsPaid
  <2>4. QED
    BY <2>3, SettlementInit
<1>2. I /\ [Next]_vars => I'
  <2> SUFFICES ASSUME I, [Next]_vars PROVE I'
    OBVIOUS
  <2>1. SettlementInv'
    BY SettlementStep
  <2>2. CASE UNCHANGED vars
    BY <2>1, <2>2 DEF vars, Subledger211
  <2>3. CASE Next
    <3>1. PICK c \in Clients : Step(c)
      BY <2>3 DEF Next, Step
    <3>2. TypeInv'
      BY <2>1 DEF SettlementInv, RevenueInv
    <3>3. QED
      BY <2>1, <3>1, <3>2, SubledgerStep
  <2>4. QED
    BY <2>2, <2>3
<1>3. I => Subledger211
  OBVIOUS
<1>4. QED
  BY <1>1, <1>2, <1>3, PTL DEF Spec

-----------------------------------------------------------------------------
(* Revenue is posted for whatever is recognized *)

\* The invoices whose revenue is posted.
Recognized == {i \in Invoices : row[i].recognized}

\* A commit adds its invoice to the recognized ones, and its total to theirs.
LEMMA RecognizedSum ==
  ASSUME TypeInv, NEW i \in Invoices,
         row'[i].recognized, \A k \in Invoices \ {i} : row'[k] = row[k]
  PROVE  SumOver(Total, Recognized') =
           SumOver(Total, Recognized) + IF row[i].recognized THEN 0 ELSE Total[i]
<1>1. IsFiniteSet(Recognized) /\ Total[i] \in Int /\ \A k \in Recognized : Total[k] \in Int
  <2>1. Recognized \subseteq Invoices
    BY DEF Recognized
  <2>2. QED
    BY <2>1, ReceivablesAssumption, FS_Subset
<1>2. SumOver(Total, Recognized) \in Int
  BY <1>1, SumType
<1>3. CASE row[i].recognized
  <2>1. Recognized' = Recognized
    BY <1>3 DEF Recognized
  <2>2. SumOver(Total, Recognized') = SumOver(Total, Recognized)
    BY <2>1, Zenon
  <2>3. QED
    BY <1>2, <1>3, <2>2
<1>4. CASE ~row[i].recognized
  <2>1. Recognized' = Recognized \cup {i} /\ i \notin Recognized
    BY <1>4 DEF Recognized
  <2> DEFINE R == Recognized
             S == Recognized'
  <2>2. S = R \cup {i}
    BY <2>1
  <2>3. IsFiniteSet(R) /\ i \notin R /\ Total[i] \in Int /\ \A y \in R : Total[y] \in Int
    BY <1>1, <2>1
  <2> HIDE DEF R, S
  <2>4. SumOver(Total, R \cup {i}) = SumOver(Total, R) + Total[i]
    BY <2>3, SumAdd
  <2>5. SumOver(Total, S) = SumOver(Total, R) + Total[i]
    BY <2>2, <2>4, Zenon
  <2>6. QED
    BY <1>4, <2>5 DEF R, S
<1>5. QED
  BY <1>3, <1>4

\* A step that recognizes nothing leaves the sum alone.
LEMMA RecognizedSame ==
  ASSUME \A k \in Invoices : row'[k].recognized <=> row[k].recognized
  PROVE  SumOver(Total, Recognized') = SumOver(Total, Recognized)
<1>1. Recognized' = Recognized
  BY DEF Recognized
<1>2. QED
  BY <1>1, Zenon

\* Completing a signature moves no money.
LEMMA PollKeeps ==
  ASSUME TypeInv, NEW c \in Clients, NEW i \in Invoices, PollSignature(c, i)
  PROVE  /\ \A k \in Invoices : row'[k].recognized = row[k].recognized
                                 /\ row'[k].paid = row[k].paid /\ row'[k].rows = row[k].rows
         /\ UNCHANGED <<books, line>>
<1>1. row' = [row EXCEPT ![i] = [row[i] EXCEPT !.status = "LOCKED_BY_SIGNATURE"]]
  BY DEF PollSignature
<1>2. \A r \in Row : /\ [r EXCEPT !.status = "LOCKED_BY_SIGNATURE"].rows = r.rows
                     /\ [r EXCEPT !.status = "LOCKED_BY_SIGNATURE"].paid = r.paid
                     /\ [r EXCEPT !.status = "LOCKED_BY_SIGNATURE"].recognized = r.recognized
  BY DEF Row
<1>3. QED
  BY <1>1, <1>2 DEF PollSignature, TypeInv, TypeOK

\* No recognized invoice lacks its debit on 211: overlapping requests can post the
\* revenue twice, never forget it.
THEOREM RecognizedPosted == Spec => []RecognizedIsPosted
<1> DEFINE I == SettlementInv /\ RecognizedIsPosted
<1>1. Init => I
  <2> SUFFICES ASSUME Init PROVE I
    OBVIOUS
  <2>1. Recognized = {}
    BY DEF Init, NewRow, Recognized
  <2>2. SumOver(Total, Recognized) = 0
    BY <2>1, SumEmpty, Zenon
  <2>3. RecognizedIsPosted
    BY <2>2 DEF Init, RecognizedIsPosted, Recognized
  <2>4. QED
    BY <2>3, SettlementInit
<1>2. I /\ [Next]_vars => I'
  <2> SUFFICES ASSUME I, [Next]_vars PROVE I'
    OBVIOUS
  <2> DEFINE Posted == books.dr211 >= SumOver(Total, Recognized)
  <2>0. SettlementInv' /\ TypeInv /\ row \in [Invoices -> Row] /\ Posted
        /\ books.dr211 \in Int /\ SumOver(Total, Recognized) \in Int
    <3>1. TypeInv
      BY DEF SettlementInv, RevenueInv
    <3>2. Recognized \subseteq Invoices /\ IsFiniteSet(Invoices)
      BY ReceivablesAssumption DEF Recognized
    <3>3. IsFiniteSet(Recognized) /\ \A k \in Recognized : Total[k] \in Int
      BY <3>2, FS_Subset, ReceivablesAssumption
    <3>4. SumOver(Total, Recognized) \in Int
      BY <3>3, SumType
    <3>5. QED
      BY <3>1, <3>4, SettlementStep DEF RecognizedIsPosted, Recognized, TypeInv, TypeOK, Books
  <2>1. SUFFICES Posted'
    BY <2>0 DEF RecognizedIsPosted, Recognized
  <2>2. ASSUME \A k \in Invoices : row'[k].recognized <=> row[k].recognized,
               books'.dr211 = books.dr211
        PROVE  Posted'
    BY <2>0, <2>2, RecognizedSame
  <2>3. ASSUME NEW c \in Clients, NEW i \in Invoices, NEW x, NEW over, NEW acct, NEW mirror,
               NEW posted, OneCommit(c, i, x, over, acct, mirror, posted)
        PROVE  Posted'
    <3>1. row'[i].recognized /\ \A k \in Invoices \ {i} : row'[k] = row[k]
      BY <2>0, <2>3 DEF OneCommit, Commits
    <3>2. /\ ~posted => row[i].recognized
          /\ books'.dr211 = books.dr211 + (IF posted THEN Total[i] ELSE 0)
          /\ Total[i] \in Nat
      BY <2>3, ReceivablesAssumption DEF OneCommit, Commits, Entries
    <3>3. SumOver(Total, Recognized') =
           SumOver(Total, Recognized) + IF row[i].recognized THEN 0 ELSE Total[i]
      BY <2>0, <3>1, RecognizedSum
    <3>4. QED
      BY <2>0, <3>2, <3>3
  <2>4. CASE UNCHANGED vars
    BY <2>2, <2>4 DEF vars
  <2>5. CASE Next
    <3>1. PICK c \in Clients : Step(c)
      BY <2>5 DEF Next, Step
    <3>2. StepKind(c)
      BY <3>1, StepKinds DEF SettlementInv
    <3>3. ASSUME CommitMulti(c) PROVE Posted'
      BY <2>2, <3>3, MultiCommits
    <3>4. ASSUME NEW i \in Invoices, PollSignature(c, i) PROVE Posted'
      BY <2>0, <2>2, <3>4, PollKeeps
    <3>5. QED
      BY <2>2, <2>3, <3>2, <3>3, <3>4 DEF StepKind, MatchPaid
  <2>6. QED
    BY <2>4, <2>5
<1>3. I => RecognizedIsPosted
  OBVIOUS
<1>4. QED
  BY <1>1, <1>2, <1>3, PTL DEF Spec

-----------------------------------------------------------------------------
(* Cash, bank and registry, where no payment is allocated over several invoices *)

\* allocatePaymentAcrossInvoices is not offered: it books money without order and mirror.
NoAllocations == "ALLOC" \notin Requests

\* The requests being served are to endpoints in use.
OffersOnly == \A c \in Clients : req[c].op \in Requests \cup {None}

\* Only requests to endpoints in use are being served.
LEMMA OffersStep ==
  ASSUME TypeInv, OffersOnly, NEW c \in Clients, Step(c)
  PROVE  OffersOnly'
<1> USE DEF TypeInv, SessionOK, OffersOnly
<1>1. ASSUME Finish(c) PROVE OffersOnly'
  BY <1>1, IdleTypes DEF Finish
<1>2. ASSUME Accept(c) PROVE OffersOnly'
  <2>1. PICK r, step : Open(c, r, step)
    BY <1>2 DEF Accept, AcceptStatus, AcceptPay, AcceptAlloc, AcceptMatch, AcceptNetting,
       AcceptSignature
  <2>2. QED
    BY <2>1 DEF Open
<1>3. ASSUME UNCHANGED req PROVE OffersOnly'
  BY <1>3
<1>4. QED
  BY <1>1, <1>2, <1>3
  DEF Step, Single, Multi, Sign, CommitSent, CommitPaid, CommitNothingLeft, CommitPay,
      MatchPaid, CommitMatch, CommitMulti, CreatePending, Abort, Finish, ReadInvoice, FindInvoice,
      FindPayable, FindLeft, RefreshPaid, ReadOpen, DropPending, ReadBucket, WriteBucket, PollSignature

\* The bank lines booked as payments.
BookedLines == [l \in Lines |-> line[l].booked * LineAmount[l]]

\* The invariant of cash, bank and registry.
CashInv == SettlementInv /\ OffersOnly /\ CashHasOrders /\ MoneyIsRegistered

\* The amounts of the booked lines can be summed.
LEMMA BookedTypes ==
  ASSUME NEW ln \in [Lines -> [matched : BOOLEAN, booked : Nat]],
         NEW f, f = [l \in Lines |-> ln[l].booked * LineAmount[l]]
  PROVE  /\ IsFiniteSet(Lines)
         /\ \A l \in Lines : f[l] \in Int
         /\ SumOver(f, Lines) \in Int
<1>1. \A l \in Lines : ln[l].booked \in Nat /\ LineAmount[l] \in Nat
  BY ReceivablesAssumption
<1>2. \A a, b \in Nat : a * b \in Int
  OBVIOUS
<1>3. \A l \in Lines : f[l] \in Int
  BY <1>1, <1>2
<1>4. QED
  BY <1>3, SumType, ReceivablesAssumption

\* They can be summed before and after a step.
LEMMA BookedSums ==
  /\ TypeInv => SumOver(BookedLines, Lines) \in Int /\ \A l \in Lines : BookedLines[l] \in Int
  /\ TypeInv' => SumOver(BookedLines', Lines) \in Int /\ \A l \in Lines : BookedLines'[l] \in Int
<1>1. ASSUME TypeInv PROVE SumOver(BookedLines, Lines) \in Int /\ \A l \in Lines : BookedLines[l] \in Int
  BY <1>1, BookedTypes DEF TypeInv, TypeOK, BookedLines
<1>2. ASSUME TypeInv' PROVE SumOver(BookedLines', Lines) \in Int /\ \A l \in Lines : BookedLines'[l] \in Int
  BY <1>2, BookedTypes DEF TypeInv, TypeOK, BookedLines
<1>3. QED
  BY <1>1, <1>2

\* Matching a line to an invoice that is already paid books nothing.
LEMMA MatchedOnly ==
  ASSUME TypeInv, NEW c \in Clients, MatchPaid(c)
  PROVE  UNCHANGED <<row, books>> /\ \A l \in Lines : line'[l].booked = line[l].booked
BY DEF MatchPaid, TypeInv, TypeOK

\* A bank match books its line once more.
LEMMA LineBooked ==
  ASSUME TypeInv, TypeInv', NEW l \in Lines,
         line' = [line EXCEPT ![l] = [matched |-> TRUE, booked |-> line[l].booked + 1]]
  PROVE  SumOver(BookedLines', Lines) = SumOver(BookedLines, Lines) + LineAmount[l]
<1> DEFINE old == BookedLines
           new == BookedLines'
<1>1. line \in [Lines -> [matched : BOOLEAN, booked : Nat]] /\ LineAmount[l] \in Nat
  BY ReceivablesAssumption DEF TypeInv, TypeOK
<1>2. /\ IsFiniteSet(Lines)
      /\ \A k \in Lines : old[k] \in Int /\ new[k] \in Int
      /\ SumOver(old, Lines) \in Int
  BY BookedSums, ReceivablesAssumption
<1>3. \A k \in Lines \ {l} : new[k] = old[k]
  BY <1>1 DEF BookedLines
<1>4. new[l] = old[l] + LineAmount[l]
  <2>1. \A a, b \in Nat : (a + 1) * b = a * b + b
    OBVIOUS
  <2>2. new[l] = (line[l].booked + 1) * LineAmount[l] /\ old[l] = line[l].booked * LineAmount[l]
    BY <1>1 DEF BookedLines
  <2>3. QED
    BY <1>1, <2>1, <2>2
<1> HIDE DEF old, new
<1>5. SumOver(new, Lines) = SumOver(old, Lines) + new[l] - old[l]
  <2>1. /\ IsFiniteSet(Lines)
        /\ \A k \in Lines : old[k] \in Int /\ new[k] \in Int
        /\ \A k \in Lines \ {l} : new[k] = old[k]
    BY <1>2, <1>3
  <2>2. QED
    BY <2>1, SumChange
<1>6. QED
  BY <1>1, <1>2, <1>4, <1>5 DEF old, new

\* What is taken in is split between the cash account and the bank account.
LEMMA TakenIn ==
  ASSUME NEW acct \in {"101", "221"}, NEW x \in Int
  PROVE  /\ On(acct, "101", x) \in {0, x} /\ On(acct, "221", x) \in {0, x}
         /\ On(acct, "101", x) + On(acct, "221", x) = x
BY DEF On

\* A receipt raises cash and bank by no more than its order, its mirror line or its bank line
\* and its rounding difference.
LEMMA CashStep ==
  ASSUME NoAllocations, CashInv, SettlementInv', OffersOnly', NEW c \in Clients, Step(c)
  PROVE  CashHasOrders' /\ MoneyIsRegistered'
<1> DEFINE Covered == books.orders + books.gain >= books.cash
           Listed == books.registry + books.gain + SumOver(BookedLines, Lines) >= books.cash + books.bank
<1>0. /\ TypeInv /\ TypeInv' /\ StepKind(c) /\ Covered /\ Listed /\ books \in Books
      /\ SumOver(BookedLines, Lines) \in Int
  BY StepKinds, BookedSums DEF CashInv, SettlementInv, RevenueInv, TypeInv, TypeOK, CashHasOrders,
     MoneyIsRegistered, BookedLines
<1>1. SUFFICES Covered' /\ Listed'
  BY <1>1 DEF CashHasOrders, MoneyIsRegistered, BookedLines
<1>2. ASSUME \A l \in Lines : line'[l].booked = line[l].booked
      PROVE  SumOver(BookedLines', Lines) = SumOver(BookedLines, Lines)
  <2>1. \A l \in Lines : BookedLines'[l] = BookedLines[l]
    BY <1>2 DEF BookedLines
  <2>2. QED
    BY <2>1, SumSame, ReceivablesAssumption
<1>3. ASSUME \A l \in Lines : line'[l].booked = line[l].booked,
             books'.cash = books.cash, books'.bank = books.bank, books'.gain = books.gain,
             books'.registry = books.registry, books'.orders = books.orders
      PROVE  Covered' /\ Listed'
  BY <1>0, <1>2, <1>3
<1>4. ASSUME NEW i \in Invoices, NEW x \in Nat, NEW over \in Nat, NEW acct \in {"101", "221"},
             NEW mirror \in BOOLEAN, NEW posted \in BOOLEAN,
             OneCommit(c, i, x, over, acct, mirror, posted)
      PROVE  Covered' /\ Listed'
  <2> DEFINE m == On(acct, "101", x + over)
             n == On(acct, "221", x + over)
             o == On(acct, "101", x)
             r == IF mirror THEN x ELSE 0
             sum == SumOver(BookedLines, Lines)
             sum2 == SumOver(BookedLines', Lines)
  <2>1. /\ books'.cash = books.cash + m /\ books'.bank = books.bank + n
        /\ books'.gain = books.gain + over /\ books'.registry = books.registry + r
        /\ books'.orders = books.orders + o
    BY <1>4 DEF OneCommit, Commits, Entries
  <2>2. m \in Int /\ n \in Int /\ m + n = x + over /\ o \in Int /\ m <= o + over /\ r \in Int
    BY DEF On
  <2>3. sum2 + r >= sum + x \/ (x = 0 /\ over = 0 /\ sum2 + r = sum)
        \/ (r = 0 /\ sum2 = sum + x + over)
    <3>1. CASE mirror /\ UNCHANGED line
      BY <1>0, <1>2, <3>1
    <3>2. CASE x = 0 /\ over = 0 /\ UNCHANGED line
      BY <1>0, <1>2, <3>2
    <3>3. CASE /\ ~mirror /\ req[c].line \in Lines /\ x + over = LineAmount[req[c].line]
               /\ line' = [line EXCEPT ![req[c].line] =
                             [matched |-> TRUE, booked |-> line[req[c].line].booked + 1]]
      <4> DEFINE l == req[c].line
      <4>1. l \in Lines /\ line' = [line EXCEPT ![l] = [matched |-> TRUE, booked |-> line[l].booked + 1]]
        BY <3>3
      <4> HIDE DEF l
      <4>2. sum2 = sum + LineAmount[l]
        BY <1>0, <4>1, LineBooked
      <4>3. LineAmount[l] = x + over /\ r = 0
        BY <3>3 DEF l
      <4>4. QED
        BY <1>0, <4>2, <4>3
    <3>4. QED
      BY <1>4, <3>1, <3>2, <3>3 DEF OneCommit
  <2>4. sum \in Int /\ sum2 \in Int
    BY <1>0, BookedSums
  <2> HIDE DEF m, n, o, r, sum, sum2
  <2>5. /\ books.cash \in Int /\ books.bank \in Int /\ books.gain \in Int
        /\ books.registry \in Int /\ books.orders \in Int
    BY <1>0 DEF Books
  <2>6. Covered'
    BY <1>0, <2>1, <2>2, <2>5
  <2>7. books.registry + books.gain + sum >= books.cash + books.bank
    BY <1>0 DEF sum
  <2>8. books'.registry + books'.gain + sum2 >= books'.cash + books'.bank
    BY <2>1, <2>2, <2>3, <2>4, <2>5, <2>7
  <2>9. QED
    BY <2>6, <2>8 DEF sum2
<1>5. ASSUME CommitMulti(c) PROVE Covered' /\ Listed'
  <2>1. req[c].op # "ALLOC"
    BY ReceivablesAssumption DEF CashInv, OffersOnly, NoAllocations, AllRequests
  <2>2. UNCHANGED line
    BY <1>5 DEF CommitMulti
  <2>3. QED
    BY <1>3, <1>5, <2>1, <2>2, MultiCommits DEF CashInv
<1>6. ASSUME NEW i \in Invoices, PollSignature(c, i) PROVE Covered' /\ Listed'
  BY <1>3, <1>6 DEF PollSignature
<1>7. QED
  BY <1>0, <1>3, <1>4, <1>5, <1>6, MatchedOnly DEF StepKind

\* The receipts are covered at first, and stay so.
LEMMA CashInit == Init => CashInv
<1> SUFFICES ASSUME Init PROVE CashInv
  OBVIOUS
<1>1. \A l \in Lines : BookedLines[l] = 0
  BY ReceivablesAssumption DEF Init, BookedLines
<1>2. SumOver(BookedLines, Lines) = 0
  BY <1>1, SumZero, ReceivablesAssumption
<1>3. CashHasOrders /\ MoneyIsRegistered
  BY <1>2 DEF Init, CashHasOrders, MoneyIsRegistered, BookedLines
<1>4. OffersOnly
  BY IdleTypes DEF Init, OffersOnly
<1>5. QED
  BY <1>3, <1>4, SettlementInit DEF CashInv

\* Every step keeps the invariant of cash, bank and registry.
LEMMA CashInvStep == ASSUME NoAllocations PROVE CashInv /\ [Next]_vars => CashInv'
<1> SUFFICES ASSUME CashInv, [Next]_vars PROVE CashInv'
  OBVIOUS
<1>1. SettlementInv'
  BY SettlementStep DEF CashInv
<1>2. CASE UNCHANGED vars
  BY <1>1, <1>2 DEF vars, CashInv, OffersOnly, CashHasOrders, MoneyIsRegistered
<1>3. CASE Next
  <2>1. PICK c \in Clients : Step(c)
    BY <1>3 DEF Next, Step
  <2>2. OffersOnly'
    BY <2>1, OffersStep DEF CashInv, SettlementInv, RevenueInv
  <2>3. QED
    BY <1>1, <2>1, <2>2, CashStep DEF CashInv
<1>4. QED
  BY <1>2, <1>3

\* Where nothing is allocated over several invoices, every receipt on the cash account
\* has its cash order, less the rounding differences, however the payments overlap.
THEOREM CashCovered == ASSUME NoAllocations PROVE Spec => []CashHasOrders
<1>1. CashInv => CashHasOrders
  BY DEF CashInv
<1>2. QED
  BY <1>1, CashInit, CashInvStep, PTL DEF Spec

\* And all money received is in the registry or on a bank line booked as often as it
\* was booked: two clients that confirm one line twice book it twice on both sides.
THEOREM MoneyRegistered == ASSUME NoAllocations PROVE Spec => []MoneyIsRegistered
<1>1. CashInv => MoneyIsRegistered
  BY DEF CashInv
<1>2. QED
  BY <1>1, CashInit, CashInvStep, PTL DEF Spec

\* Without allocations no step lowers a paidAmount: the single payments increment it on
\* the locked row and a netting carries the value of the row it has locked.
THEOREM PaidOnlyGrows == ASSUME NoAllocations PROVE Spec => PaidNeverShrinks
<1> DEFINE Grows == \A i \in Invoices : row'[i].paid >= row[i].paid
<1>1. CashInv /\ [Next]_vars => [Grows]_vars
  <2> SUFFICES ASSUME CashInv, Next PROVE Grows
    OBVIOUS
  <2>1. PICK c \in Clients : Step(c)
    BY DEF Next, Step
  <2>2. TypeInv /\ StepKind(c) /\ \A i \in Invoices : row[i] \in Row /\ row[i].paid \in Int
    BY <2>1, StepKinds DEF CashInv, SettlementInv, RevenueInv, TypeInv, TypeOK, Row
  <2>3. ASSUME \A i \in Invoices : row'[i].paid = row[i].paid PROVE Grows
    BY <2>2, <2>3
  <2>4. ASSUME NEW i \in Invoices, NEW x \in Nat, NEW over, NEW acct, NEW mirror, NEW posted,
               OneCommit(c, i, x, over, acct, mirror, posted)
        PROVE  Grows
    <3>1. row'[i].paid = row[i].paid + x /\ \A k \in Invoices \ {i} : row'[k] = row[k]
      BY <2>2, <2>4 DEF OneCommit, Commits, TypeInv, TypeOK
    <3>2. QED
      BY <2>2, <3>1
  <2>5. ASSUME CommitMulti(c) PROVE Grows
    <3>1. req[c].op # "ALLOC"
      BY ReceivablesAssumption DEF CashInv, OffersOnly, NoAllocations, AllRequests
    <3>2. \A i \in Invoices : row'[i].paid = row[i].paid
      BY <2>5, <3>1, MultiCommits DEF CashInv, SettlementInv, WrittenRows
    <3>3. QED
      BY <2>3, <3>2
  <2>6. ASSUME NEW i \in Invoices, PollSignature(c, i) PROVE Grows
    BY <2>2, <2>3, <2>6, PollKeeps
  <2>7. QED
    BY <2>2, <2>3, <2>4, <2>5, <2>6 DEF StepKind, MatchPaid
<1>2. QED
  BY <1>1, CashInit, CashInvStep, PTL DEF Spec, PaidNeverShrinks
=============================================================================
