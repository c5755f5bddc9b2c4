--------------------------- MODULE Booking_proofs ---------------------------
(***************************************************************************)
(* Proofs about the bookings of BackOffice: an order and the wages of a    *)
(* month are booked once, a bank line settles one payout.                  *)
(***************************************************************************)
EXTENDS BackOffice_proofs

\* A step adds entries to the journal, of documents of some kinds only.
Grows(kinds) ==
  \E es : /\ IsFiniteSet(es) /\ journal' = journal \cup es
          /\ \A e \in es : e.doc[1] \in kinds

\* What a step of a request adds, from the entries it is known to add.
LEMMA GrowsBy ==
  ASSUME NEW es, NEW kinds, es = {} \/ \E e : es = {e} /\ e.doc[1] \in kinds, journal' = journal \cup es
  PROVE  Grows(kinds)
<1>1. IsFiniteSet(es)
  BY FS_EmptySet, FS_Singleton
<1>. QED
  BY <1>1 DEF Grows

\* A step that leaves the journal as it is.
LEMMA GrowsNot == ASSUME journal' = journal, NEW kinds PROVE Grows(kinds)
<1>1. journal' = journal \cup {}
  OBVIOUS
<1>. QED
  BY <1>1, GrowsBy

\* The postings of the documents of other kinds are as they were.
LEMMA PostingsKept ==
  ASSUME NEW kinds, Grows(kinds), IsFiniteSet(journal)
  PROVE  /\ IsFiniteSet(journal')
         /\ \A doc : doc[1] \notin kinds => Postings(doc)' = Postings(doc)
<1>1. PICK es : IsFiniteSet(es) /\ journal' = journal \cup es /\ \A e \in es : e.doc[1] \in kinds
  BY DEF Grows
<1>2. IsFiniteSet(journal')
  BY <1>1, FS_Union
<1>. QED
  BY <1>1, <1>2 DEF Postings

\* A document is booked when its postings are there.
LEMMA Booked ==
  ASSUME IsFiniteSet(journal), NEW doc
  PROVE  /\ Cardinality(Postings(doc)) > 0 <=> Postings(doc) # {}
         /\ (\A e, f \in Postings(doc) : e = f) => Cardinality(Postings(doc)) <= 1
<1>. DEFINE P == Postings(doc)
<1>1. IsFiniteSet(P) /\ P \subseteq journal
  BY FS_Subset DEF Postings
<1>2. Cardinality(P) \in Nat /\ (Cardinality(P) = 0 <=> P = {})
  <2>. HIDE DEF P
  <2>. QED
    BY <1>1, FS_CardinalityType, FS_EmptySet
<1>3. ASSUME \A e, f \in P : e = f PROVE Cardinality(P) <= 1
  <2>1. CASE P = {}
    BY <1>2, <2>1
  <2>2. CASE P # {}
    <3>1. PICK e : e \in P
      BY <2>2
    <3>2. P = {e}
      BY <1>3, <3>1
    <3>. QED
      BY <3>2, FS_Singleton
  <2>. QED
    BY <2>1, <2>2
<1>. QED
  BY <1>2, <1>3

\* An entry of a document of a kind.
LEMMA EntryKind ==
  ASSUME NEW kind, NEW x, NEW a, NEW d, NEW amount
  PROVE  \E e : e = Entry(<<kind, x>>, a, d, amount) /\ e.doc = <<kind, x>> /\ e.doc[1] = kind
<1>1. PICK e : e = Entry(<<kind, x>>, a, d, amount)
  OBVIOUS
<1>2. e.doc = <<kind, x>>
  BY <1>1 DEF Entry
<1>3. e.doc[1] = kind
  BY <1>2
<1>. QED
  BY <1>1, <1>2, <1>3

\* Depreciation is the document of a close, and of the monthly run.
LEMMA ClosingGrows == ASSUME NEW c \in Clients, Closing(c) PROVE Grows({"DEPR"})
<1>1. ASSUME NEW r, WriteRows(r) PROVE Grows({"DEPR"})
  <2>1. PICK es : es = Own(r) /\ journal' = journal \cup es
    BY <1>1 DEF WriteRows
  <2>2. es = {} \/ \E m, x : es = {Entry(<<"DEPR", m>>, Accumulated, MonthEnd(m), x)}
    BY <2>1 DEF Own
  <2>3. es = {} \/ \E e : es = {e} /\ e.doc[1] = "DEPR"
    <3>1. CASE es # {}
      <4>1. PICK m, x : es = {Entry(<<"DEPR", m>>, Accumulated, MonthEnd(m), x)}
        BY <2>2, <3>1
      <4>. QED
        BY <4>1, EntryKind
    <3>. QED
      BY <3>1
  <2>. QED
    BY <2>1, <2>3, GrowsBy
<1>2. CASE CommitClose(c) \/ CommitDepreciation(c)
  BY <1>1, <1>2 DEF CommitClose, CommitDepreciation
<1>3. CASE ~(CommitClose(c) \/ CommitDepreciation(c))
  <2>1. journal' = journal
    BY <1>3 DEF Closing, LedgerStep, StartClose, StartPatch, FindRow, PostDepreciation, Accrue, TakeSums, MergeClosed,
                CommitPatch, ledgerVars
  <2>. QED
    BY <2>1, GrowsNot
<1>. QED
  BY <1>2, <1>3

\* Wages are the document of payroll.
LEMMA PayingGrows == ASSUME NEW c \in Clients, Paying(c) PROVE Grows({"PAY"})
<1>1. CASE CommitPaid(c)
  <2>1. PICK m, es : /\ es = IF Books(req[c]) THEN {Entry(Run(m), NetPay, MonthEnd(m), - Wages[m])} ELSE {}
                     /\ journal' = journal \cup es
    BY <1>1 DEF CommitPaid
  <2>2. es = {} \/ \E e : es = {e} /\ e.doc[1] = "PAY"
    BY <2>1, EntryKind DEF Run
  <2>. QED
    BY <2>1, <2>2, GrowsBy
<1>2. CASE ~CommitPaid(c)
  <2>1. journal' = journal
    BY <1>2 DEF Paying, PayStep, CreateRegistry, SendRegistry, CreateDraft, SendDraft, StartPaid, TestPaid,
                ImportLine, ReadDrafts, ReadRegistries, Settle, ledgerVars
  <2>. QED
    BY <2>1, GrowsNot
<1>. QED
  BY <1>1, <1>2

\* Orders and expenses are the documents of the cash desk.
LEMMA CashingGrows == ASSUME NEW c \in Clients, Cashing(c) PROVE Grows({"ORDER", "EXPENSE"})
<1>1. CASE BookOrder(c)
  <2>1. PICK o : o = req[c].order /\ journal' = journal \cup Booking(o)
    BY <1>1 DEF BookOrder
  <2>2. Booking(o) = {} \/ \E a, x : Booking(o) = {Entry(<<"ORDER", o>>, a, dated[o], x)}
    BY DEF Booking, Order
  <2>3. Booking(o) = {} \/ \E e : Booking(o) = {e} /\ e.doc[1] = "ORDER"
    BY <2>2, EntryKind
  <2>. QED
    BY <2>1, <2>3, GrowsBy
<1>2. CASE Spend(c)
  <2>1. PICK e : e = Entry(<<"EXPENSE", req[c].day>>, Cash, req[c].day, -1)
    OBVIOUS
  <2>2. journal' = journal \cup {e} /\ e.doc[1] = "EXPENSE"
    BY <1>2, <2>1 DEF Spend, Entry
  <2>. QED
    BY <2>2, GrowsBy
<1>3. CASE ~BookOrder(c) /\ ~Spend(c)
  <2>1. journal' = journal
    BY <1>3 DEF Cashing, CashStep, StartPost, StartExpense, TestGap, TestOpen, ledgerVars
  <2>. QED
    BY <2>1, GrowsNot
<1>. QED
  BY <1>1, <1>2, <1>3

\* The receipt of an invoice comes with the posting of the payment.
LEMMA DraftingGrows == ASSUME Drafting PROVE Grows({"PAYMENT"})
<1>1. CASE NextDay
  BY <1>1, GrowsNot DEF NextDay
<1>2. ASSUME NEW o \in Orders, NEW d, CreateOrder(o, d) PROVE Grows({"PAYMENT"})
  <2>1. PICK e : e = [Entry(<<"PAYMENT", o>>, Cash, d, CashAmount[o]) EXCEPT !.final = FALSE]
    OBVIOUS
  <2>2. e.doc = <<"PAYMENT", o>>
    BY <2>1 DEF Entry
  <2>3. journal' = journal \/ journal' = journal \cup {e}
    BY <1>2, <2>1 DEF CreateOrder
  <2>4. e.doc[1] = "PAYMENT"
    BY <2>2
  <2>. QED
    BY <2>3, <2>4, GrowsNot, GrowsBy
<1>. QED
  BY <1>1, <1>2 DEF Drafting

-----------------------------------------------------------------------------
(* Cash orders *)

OrderSteps == {"gap", "open", "book", "mark"}

\* A client that posts an order: the order is a draft as long as the client is alone.
Posting(c) ==
  pc[c] \in OrderSteps => req[c].order \in Orders /\ (overlap \/ order[req[c].order] = "DRAFT")

OrderInv ==
  /\ RequestsOK /\ IsFiniteSet(journal)
  /\ order = [o \in Orders |-> order[o]]
  /\ \A c \in Clients : Posting(c)
  /\ \A o \in Orders : (Kind[o] # "LINKED" /\ order[o] = "POSTED") <=> Postings(Order(o)) # {}
  /\ overlap \/ \A o \in Orders : \A e, f \in Postings(Order(o)) : e = f

\* The invariant tells how often an order is booked.
LEMMA OrderInvBooks == OrderInv => CashBookedOnce
<1>. SUFFICES ASSUME OrderInv, NEW o \in Orders
              PROVE  LET n == Cardinality(Postings(Order(o)))
                     IN  /\ (Kind[o] # "LINKED" /\ order[o] = "POSTED") <=> n > 0
                         /\ overlap \/ n <= 1
  BY DEF CashBookedOnce
<1>. QED
  BY Booked DEF OrderInv

\* At first nothing is booked.
LEMMA OrderInitial == Init => OrderInv
<1>. SUFFICES ASSUME Init PROVE OrderInv
  OBVIOUS
<1>1. RequestsOK
  BY DEF Init, RequestInit, RequestsOK, Busy
<1>2. journal = {} /\ IsFiniteSet(journal)
  BY FS_EmptySet DEF Init, LedgerInit
<1>3. order = [o \in Orders |-> "NONE"] /\ \A c \in Clients : pc[c] = "idle"
  BY DEF Init, CashInit, RequestInit
<1>. QED
  BY <1>1, <1>2, <1>3 DEF OrderInv, Posting, OrderSteps, Postings

\* A step of a client after which it does not post, or posts what it did before: the
\* requests of the others are as they were.
LEMMA OrderFrame ==
  ASSUME OrderInv, NEW c \in Clients, RequestsOK', Solo(c), Posting(c)', order' = order,
         NEW kinds, Grows(kinds), "ORDER" \notin kinds
  PROVE  OrderInv'
<1>1. IsFiniteSet(journal') /\ \A o \in Orders : Postings(Order(o))' = Postings(Order(o))
  <2>1. \A o \in Orders : Order(o)[1] = "ORDER"
    BY DEF Order
  <2>2. \A o \in Orders : Order(o)' = Order(o)
    BY DEF Order
  <2>. QED
    BY <2>1, <2>2, PostingsKept DEF OrderInv
<1>2. \A d \in Clients : Posting(d)'
  BY DEF OrderInv, Posting, Solo
<1>3. overlap' \/ ~overlap
  BY DEF Solo
<1>4. order' = [o \in Orders |-> order'[o]]
  BY DEF OrderInv
<1>5. \A o \in Orders : Postings(Order(o))' = Postings(Order(o)) /\ order'[o] = order[o]
  BY <1>1
<1>. QED
  BY <1>1, <1>2, <1>3, <1>4, <1>5 DEF OrderInv

\* The reads of a posting.
LEMMA OrderReads ==
  ASSUME OrderInv, NEW c \in Clients, TestGap(c) \/ TestOpen(c) \/ (\E o \in Orders : StartPost(c, o))
  PROVE  OrderInv'
<1>0. RequestsOK /\ order' = order /\ journal' = journal /\ Grows({})
  BY GrowsNot DEF OrderInv, TestGap, TestOpen, StartPost, ledgerVars, cashVars
<1>1. ASSUME NEW o \in Orders, StartPost(c, o) PROVE OrderInv'
  <2>1. PICK step : step \in OrderSteps /\ Begin(c, step, [op |-> "POST", order |-> o]) /\ order[o] = "DRAFT"
    BY <1>1 DEF StartPost, OrderSteps
  <2>2. RequestsOK' /\ Solo(c) /\ pc'[c] = step /\ req'[c] = [op |-> "POST", order |-> o]
    BY <1>0, <2>1, BeginSolo
  <2>3. Posting(c)'
    BY <1>0, <2>1, <2>2 DEF Posting
  <2>. QED
    BY <1>0, <2>2, <2>3, OrderFrame
<1>2. CASE TestGap(c)
  <2>1. PICK o : o = req[c].order
    OBVIOUS
  <2>2. Busy(c) /\ o \in Orders /\ (overlap \/ order[o] = "DRAFT")
    BY <1>2, <2>1 DEF OrderInv, Posting, OrderSteps, TestGap, At, Busy
  <2>3. Finish(c) \/ \E b : Goto(c, "open", [op |-> "POST", order |-> o, tested |-> b])
    BY <1>2, <2>1 DEF TestGap
  <2>4. CASE Finish(c)
    <3>1. RequestsOK' /\ Solo(c) /\ pc'[c] = "idle"
      BY <1>0, <2>2, <2>4, FinishSolo
    <3>2. Posting(c)'
      BY <3>1 DEF Posting, OrderSteps
    <3>. QED
      BY <1>0, <3>1, <3>2, OrderFrame
  <2>5. ASSUME NEW b, Goto(c, "open", [op |-> "POST", order |-> o, tested |-> b]) PROVE OrderInv'
    <3>1. RequestsOK' /\ Solo(c) /\ pc'[c] = "open" /\ req'[c] = [op |-> "POST", order |-> o, tested |-> b]
      BY <1>0, <2>2, <2>5, GotoSolo
    <3>2. Posting(c)'
      BY <1>0, <2>2, <3>1 DEF Posting, Solo
    <3>. QED
      BY <1>0, <3>1, <3>2, OrderFrame
  <2>. QED
    BY <2>3, <2>4, <2>5
<1>3. CASE TestOpen(c)
  <2>1. PICK r : r = req[c]
    OBVIOUS
  <2>2. Busy(c) /\ r.order \in Orders /\ (overlap \/ order[r.order] = "DRAFT")
    BY <1>3, <2>1 DEF OrderInv, Posting, OrderSteps, TestOpen, At, Busy
  <2>3. Finish(c) \/ Goto(c, "book", r)
    BY <1>3, <2>1 DEF TestOpen, CheckOpen
  <2>4. RequestsOK' /\ Solo(c) /\ (pc'[c] = "idle" \/ req'[c] = r)
    BY <1>0, <2>2, <2>3, FinishSolo, GotoSolo
  <2>5. Posting(c)'
    BY <1>0, <2>2, <2>4 DEF Posting, OrderSteps, Solo
  <2>. QED
    BY <1>0, <2>4, <2>5, OrderFrame
<1>. QED
  BY <1>1, <1>2, <1>3

\* The commit of a posting: the order is not yet booked if nothing overlapped.
LEMMA OrderCommit == ASSUME OrderInv, NEW c \in Clients, BookOrder(c) PROVE OrderInv'
<1>1. PICK o : o = req[c].order
  OBVIOUS
<1>2. Busy(c) /\ o \in Orders /\ (overlap \/ order[o] = "DRAFT")
  BY <1>1 DEF OrderInv, Posting, OrderSteps, BookOrder, Busy
<1>3. /\ journal' = journal \cup Booking(o) /\ order' = [order EXCEPT ![o] = "POSTED"] /\ Finish(c)
      /\ dated' = dated
  BY <1>1 DEF BookOrder
<1>4. RequestsOK' /\ Solo(c) /\ pc'[c] = "idle"
  BY <1>2, <1>3, FinishSolo DEF OrderInv
<1>5. ASSUME NEW d \in Clients PROVE Posting(d)'
  <2>1. CASE d = c
    BY <1>4, <2>1 DEF Posting, OrderSteps
  <2>2. CASE d # c
    <3>1. pc'[d] = pc[d] /\ req'[d] = req[d] /\ (overlap' \/ ~Busy(d))
      BY <1>2, <1>4, <2>2 DEF Solo, OrderInv, RequestsOK
    <3>2. overlap' \/ pc'[d] = "idle"
      BY <3>1 DEF Busy
    <3>. QED
      BY <3>1, <3>2 DEF OrderInv, Posting, OrderSteps
  <2>. QED
    BY <2>1, <2>2
<1>6. Booking(o) = {} <=> Kind[o] = "LINKED"
  BY <1>2, CashAssumption DEF Booking
<1>7. Booking(o) = {} \/ \E e : Booking(o) = {e} /\ e.doc = Order(o)
  <2>1. Booking(o) = {} \/ \E a, x : Booking(o) = {Entry(<<"ORDER", o>>, a, dated[o], x)}
    BY DEF Booking, Order
  <2>2. CASE Booking(o) # {}
    <3>1. PICK a, x : Booking(o) = {Entry(<<"ORDER", o>>, a, dated[o], x)}
      BY <2>1, <2>2
    <3>. QED
      BY <3>1, EntryKind DEF Order
  <2>. QED
    BY <2>2
<1>8. PICK es : es = Booking(o)
  OBVIOUS
<1>9. IsFiniteSet(journal')
  BY <1>3, <1>7, FS_EmptySet, FS_Singleton, FS_Union DEF OrderInv
<1>10. /\ \A p \in Orders : p # o => Postings(Order(p))' = Postings(Order(p))
       /\ Postings(Order(o))' = Postings(Order(o)) \cup es
  <2>1. \A p \in Orders : Order(p) = Order(o) => p = o
    BY DEF Order
  <2>2. \A p \in Orders : Order(p)' = Order(p)
    BY DEF Order
  <2>3. \A e \in es : e.doc = Order(o)
    BY <1>7, <1>8
  <2>. QED
    BY <1>2, <1>3, <1>8, <2>1, <2>2, <2>3 DEF Postings
<1>11. \A p \in Orders : p # o => order'[p] = order[p]
  BY <1>3 DEF OrderInv
<1>12. order'[o] = "POSTED" /\ order' = [p \in Orders |-> order'[p]]
  BY <1>2, <1>3 DEF OrderInv
<1>13. \A p \in Orders : (Kind[p] # "LINKED" /\ order'[p] = "POSTED") <=> Postings(Order(p))' # {}
  <2>1. ASSUME NEW p \in Orders, p # o
        PROVE  (Kind[p] # "LINKED" /\ order'[p] = "POSTED") <=> Postings(Order(p))' # {}
    BY <1>10, <1>11, <2>1 DEF OrderInv
  <2>2. Kind[o] # "LINKED" <=> Postings(Order(o))' # {}
    BY <1>2, <1>6, <1>8, <1>10 DEF OrderInv
  <2>. QED
    BY <1>12, <2>1, <2>2
<1>14. overlap' \/ \A p \in Orders : \A e, f \in Postings(Order(p))' : e = f
  <2>1. SUFFICES ASSUME ~overlap', NEW p \in Orders, NEW e \in Postings(Order(p))', NEW f \in Postings(Order(p))'
                 PROVE  e = f
    OBVIOUS
  <2>2. ~overlap /\ order[o] = "DRAFT"
    BY <1>2, <1>4, <2>1 DEF Solo
  <2>3. Postings(Order(o)) = {}
    BY <1>2, <2>2 DEF OrderInv
  <2>4. CASE p = o
    BY <1>7, <1>8, <1>10, <2>3, <2>4
  <2>5. CASE p # o
    BY <1>10, <2>2, <2>5 DEF OrderInv
  <2>. QED
    BY <2>4, <2>5
<1>. QED
  BY <1>4, <1>5, <1>9, <1>12, <1>13, <1>14 DEF OrderInv

\* Another request of a client, or the end of one.
LEMMA OrderBeside ==
  ASSUME OrderInv, NEW c \in Clients, Solo(c), RequestsOK', pc'[c] \notin OrderSteps, order' = order,
         NEW kinds, Grows(kinds), "ORDER" \notin kinds
  PROVE  OrderInv'
<1>1. Posting(c)'
  BY DEF Posting
<1>. QED
  BY <1>1, OrderFrame

\* A step of no client.
LEMMA OrderInstant ==
  ASSUME OrderInv, pc' = pc, req' = req, RequestsOK', overlap' \/ ~overlap,
         \A o \in Orders : order[o] # "NONE" => order'[o] = order[o],
         \A o \in Orders : order[o] = "NONE" => order'[o] \in {"NONE", "DRAFT"},
         order' = [o \in Orders |-> order'[o]],
         NEW kinds, Grows(kinds), "ORDER" \notin kinds
  PROVE  OrderInv'
<1>1. IsFiniteSet(journal') /\ \A o \in Orders : Postings(Order(o))' = Postings(Order(o))
  <2>1. \A o \in Orders : Order(o)[1] = "ORDER"
    BY DEF Order
  <2>2. \A o \in Orders : Order(o)' = Order(o)
    BY DEF Order
  <2>. QED
    BY <2>1, <2>2, PostingsKept DEF OrderInv
<1>2. \A d \in Clients : Posting(d)'
  BY DEF OrderInv, Posting
<1>3. \A o \in Orders : order'[o] = "POSTED" <=> order[o] = "POSTED"
  OBVIOUS
<1>. QED
  BY <1>1, <1>2, <1>3 DEF OrderInv

\* Every step of the office keeps to it.
LEMMA OrderStep == OrderInv /\ [Next]_officeVars => OrderInv'
<1>. SUFFICES ASSUME OrderInv, [Next]_officeVars PROVE OrderInv'
  OBVIOUS
<1>0. RequestsOK /\ (order' = order => order' = [o \in Orders |-> order'[o]])
  BY DEF OrderInv
<1>1. CASE UNCHANGED officeVars
  <2>1. /\ pc' = pc /\ req' = req /\ overlap' = overlap /\ order' = order /\ journal' = journal
    BY <1>1 DEF officeVars, requestVars, cashVars, ledgerVars
  <2>2. RequestsOK'
    BY <1>0, <2>1 DEF RequestsOK, Busy
  <2>3. Grows({})
    BY <2>1, GrowsNot
  <2>4. overlap' \/ ~overlap
    BY <1>0, <2>1 DEF RequestsOK
  <2>. QED
    BY <1>0, <2>1, <2>2, <2>3, <2>4, OrderInstant
<1>2. CASE Drafting
  <2>1. Grows({"PAYMENT"})
    BY <1>2, DraftingGrows
  <2>2. CASE NextDay /\ UNCHANGED cashVars
    <3>1. /\ pc' = pc /\ req' = req /\ overlap' = overlap /\ order' = order
      BY <2>2 DEF NextDay, requestVars, cashVars
    <3>2. RequestsOK'
      BY <1>0, <3>1 DEF RequestsOK, Busy
    <3>3. overlap' \/ ~overlap
      BY <1>0, <3>1 DEF RequestsOK
    <3>. QED
      BY <1>0, <2>1, <3>1, <3>2, <3>3, OrderInstant
  <2>3. ASSUME NEW o \in Orders, NEW d \in DraftDays, CreateOrder(o, d) PROVE OrderInv'
    <3>1. Instant /\ order[o] = "NONE" /\ order' = [order EXCEPT ![o] = "DRAFT"]
      BY <2>3 DEF CreateOrder
    <3>2. RequestsOK' /\ pc' = pc /\ req' = req /\ (~overlap' => ~overlap)
      BY <1>0, <3>1, InstantSolo
    <3>3. /\ order' = [p \in Orders |-> order'[p]] /\ order'[o] = "DRAFT"
          /\ \A p \in Orders : p # o => order'[p] = order[p]
      BY <3>1 DEF OrderInv
    <3>4. \A p \in Orders : order[p] # "NONE" => order'[p] = order[p]
      BY <3>1, <3>3
    <3>5. \A p \in Orders : order[p] = "NONE" => order'[p] \in {"NONE", "DRAFT"}
      BY <3>3
    <3>6. overlap' \/ ~overlap
      BY <1>0, <3>2 DEF RequestsOK
    <3>. QED
      BY <2>1, <3>2, <3>3, <3>4, <3>5, <3>6, OrderInstant
  <2>. QED
    BY <1>2, <2>2, <2>3 DEF Drafting
<1>3. ASSUME PayInstant \/ StaffInstant \/ BillInstant, order' = order, journal' = journal PROVE OrderInv'
  <2>1. Instant
    BY <1>3 DEF PayInstant, CreateRun, PostRun, StaffInstant, Leave, Detach, BillInstant, NextBillDay, PayInvoice, PayOrder
  <2>2. RequestsOK' /\ pc' = pc /\ req' = req /\ (~overlap' => ~overlap)
    BY <1>0, <2>1, InstantSolo
  <2>3. Grows({})
    BY <1>3, GrowsNot
  <2>4. overlap' \/ ~overlap
    BY <1>0, <2>2 DEF RequestsOK
  <2>. QED
    BY <1>0, <1>3, <2>2, <2>3, <2>4, OrderInstant
<1>4. ASSUME NEW c \in Clients, Closing(c) \/ Paying(c) \/ Employing(c) \/ Billing(c) PROVE OrderInv'
  <2>1. RequestsOK' /\ Solo(c) /\ pc'[c] \notin OrderSteps
    <3>1. Elsewhere(c, OrderSteps)
      <4>1. /\ LedgerSteps \cap OrderSteps = {} /\ PaySteps \cap OrderSteps = {}
            /\ StaffSteps \cap OrderSteps = {} /\ BillSteps \cap OrderSteps = {}
            /\ "idle" \notin LedgerSteps \cup PaySteps \cup StaffSteps \cup BillSteps \cup OrderSteps
        BY DEF LedgerSteps, PaySteps, StaffSteps, BillSteps, OrderSteps
      <4>. QED
        BY <1>4, <4>1, ClosingUses, PayingUses, EmployingUses, BillingUses, UsesElsewhere
    <3>. QED
      BY <1>0, <3>1, ElsewhereSolo
  <2>2. order' = order
    BY <1>4 DEF Closing, Paying, Employing, Billing, cashVars
  <2>3. \E kinds : Grows(kinds) /\ "ORDER" \notin kinds
    <3>1. CASE Closing(c)
      BY <3>1, ClosingGrows
    <3>2. CASE Paying(c)
      BY <3>2, PayingGrows
    <3>3. CASE Employing(c) \/ Billing(c)
      <4>1. journal' = journal
        BY <3>3 DEF Employing, Billing, ledgerVars
      <4>2. Grows({})
        BY <4>1, GrowsNot
      <4>. QED
        BY <4>2
    <3>. QED
      BY <1>4, <3>1, <3>2, <3>3
  <2>. QED
    BY <2>1, <2>2, <2>3, OrderBeside
<1>5. ASSUME NEW c \in Clients, Cashing(c) PROVE OrderInv'
  <2>1. CASE (\E d \in Days : StartExpense(c, d)) \/ Spend(c)
    <3>1. Uses(c, {"spend"})
      BY <2>1, UsesBegin, UsesFinish DEF StartExpense, Spend, At
    <3>2. RequestsOK' /\ Solo(c) /\ pc'[c] \notin OrderSteps
      <4>1. {"spend"} \cap OrderSteps = {} /\ "idle" \notin {"spend"} \cup OrderSteps
        BY DEF OrderSteps
      <4>. QED
        BY <1>0, <3>1, <4>1, UsesElsewhere, ElsewhereSolo
    <3>3. order' = order
      BY <2>1 DEF StartExpense, Spend, cashVars
    <3>4. \E kinds : Grows(kinds) /\ "ORDER" \notin kinds
      <4>1. CASE Spend(c)
        <5>1. PICK e : e = Entry(<<"EXPENSE", req[c].day>>, Cash, req[c].day, -1)
          OBVIOUS
        <5>2. journal' = journal \cup {e} /\ e.doc[1] = "EXPENSE"
          BY <4>1, <5>1, EntryKind DEF Spend
        <5>3. Grows({"EXPENSE"})
          BY <5>2, GrowsBy
        <5>. QED
          BY <5>3
      <4>2. CASE ~Spend(c)
        <5>1. journal' = journal
          BY <2>1, <4>2 DEF StartExpense, ledgerVars
        <5>2. Grows({})
          BY <5>1, GrowsNot
        <5>. QED
          BY <5>2
      <4>. QED
        BY <4>1, <4>2
    <3>. QED
      BY <3>2, <3>3, <3>4, OrderBeside
  <2>. QED
    BY <1>5, <2>1, OrderReads, OrderCommit DEF Cashing, CashStep
<1>6. ASSUME NEW c \in Clients, Abort(c) PROVE OrderInv'
  <2>1. RequestsOK' /\ Solo(c) /\ pc'[c] = "idle"
    BY <1>0, <1>6, FinishSolo DEF Abort
  <2>2. order' = order /\ journal' = journal
    BY <1>6 DEF Abort, cashVars, ledgerVars
  <2>3. Grows({}) /\ pc'[c] \notin OrderSteps
    BY <2>1, <2>2, GrowsNot DEF OrderSteps
  <2>. QED
    BY <2>1, <2>2, <2>3, OrderBeside
<1>7. ASSUME PayInstant /\ UNCHANGED <<cashVars, staffVars, billVars>> PROVE OrderInv'
  <2>1. order' = order /\ journal' = journal
    BY <1>7 DEF cashVars, PayInstant, CreateRun, PostRun, ledgerVars
  <2>. QED
    BY <1>3, <1>7, <2>1
<1>8. ASSUME \/ StaffInstant /\ UNCHANGED <<ledgerVars, cashVars, payVars, billVars>>
             \/ BillInstant /\ UNCHANGED <<ledgerVars, cashVars, payVars, staffVars>>
      PROVE OrderInv'
  <2>1. order' = order /\ journal' = journal
    BY <1>8 DEF cashVars, ledgerVars
  <2>. QED
    BY <1>3, <1>8, <2>1
<1>. QED
  BY <1>1, <1>2, <1>4, <1>5, <1>6, <1>7, <1>8 DEF Next

\* However requests overlap, an order is posted if and only if it is in the journal, and
\* without overlaps it is there once (postOrder, cash-order.service.ts).
THEOREM OrdersBooked == Spec => []CashBookedOnce
BY OrderInitial, OrderStep, OrderInvBooks, PTL DEF Spec

-----------------------------------------------------------------------------
(* Payroll and bank lines *)

MatchSteps == {"drafts", "registries", "settle"}

\* The row a client is at.
SendsRegistry(c, g) == pc[c] = "send" /\ req[c].op = "REGISTRY" /\ req[c].registry = g
SendsDraft(c, p) == pc[c] = "send" /\ req[c].op = "DRAFT" /\ req[c].draft = p
Matches(c, l) == pc[c] \in MatchSteps /\ req[c].line = l

RunsFine ==
  /\ runPosted \in [Months -> BOOLEAN] /\ run = [m \in Months |-> run[m]]
  /\ \A m \in Months : /\ runPosted[m] = (Postings(Run(m)) # {})
                       /\ runPosted[m] => run[m] = "POSTED"

RegistriesFine ==
  /\ registry = [g \in Registries |-> registry[g]] /\ paysFor = [g \in Registries |-> paysFor[g]]
  /\ \A g \in Registries : registry[g] # "NONE" => paysFor[g] \in Months /\ run[paysFor[g]] = "POSTED"
  /\ \A g \in Registries : registry[g] = "PAID" => runPosted[paysFor[g]] \/ \E l \in Lines : settles[l] = g

LinesFine ==
  /\ draft = [p \in Drafts |-> draft[p]]
  /\ line = [l \in Lines |-> line[l]] /\ settles = [l \in Lines |-> settles[l]]
  /\ \A l \in Lines : line[l] = "MATCHED" <=> settles[l] # None
  /\ \A l \in Lines : settles[l] \in Drafts =>
       draft[settles[l]] = "COMPLETED" /\ PayAmount[settles[l]] = PayAmount[l]
  /\ \A l \in Lines : settles[l] \in Registries =>
       registry[settles[l]] = "PAID" /\ Wages[paysFor[settles[l]]] = PayAmount[l]

\* What a request has read and nobody takes back, also when it is not alone.
Waits(c) ==
  /\ pc[c] = "send" => \/ \E g \in Registries : SendsRegistry(c, g) /\ registry[g] = "DRAFT"
                       \/ \E p \in Drafts : SendsDraft(c, p) /\ draft[p] = "PENDING"
  /\ pc[c] \in {"paid", "pay"} =>
       /\ req[c].registry \in Registries /\ registry[req[c].registry] \in {"SENT", "PAID"}
       /\ req[c].seen \in BOOLEAN /\ (req[c].seen => runPosted[paysFor[req[c].registry]])
  /\ pc[c] \in MatchSteps => req[c].line \in Lines /\ line[req[c].line] = "NEW"
  /\ pc[c] = "settle" =>
       \/ /\ req[c].hit \in Drafts /\ PayAmount[req[c].hit] = PayAmount[req[c].line]
          /\ draft[req[c].hit] \in {"SENT", "COMPLETED"}
       \/ /\ req[c].hit \in Registries /\ Wages[paysFor[req[c].hit]] = PayAmount[req[c].line]
          /\ registry[req[c].hit] \in {"SENT", "PAID"}

\* What it has read and is still so if it is alone.
Unbooked(c) ==
  /\ pc[c] \in {"paid", "pay"} => req[c].seen = runPosted[paysFor[req[c].registry]]
  /\ pc[c] = "settle" =>
       /\ req[c].hit \in Drafts => draft[req[c].hit] = "SENT"
       /\ req[c].hit \in Registries => registry[req[c].hit] = "SENT"

\* Two clients are never at the same row.
Single ==
  \A c, d \in Clients :
    /\ \A g \in Registries : SendsRegistry(c, g) /\ SendsRegistry(d, g) => c = d
    /\ \A p \in Drafts : SendsDraft(c, p) /\ SendsDraft(d, p) => c = d
    /\ \A l \in Lines : Matches(c, l) /\ Matches(d, l) => c = d

Once ==
  /\ \A m \in Months : \A e, f \in Postings(Run(m)) : e = f
  /\ \A k, l \in Lines : settles[k] = settles[l] => k = l \/ settles[k] = None

PayInv ==
  /\ RequestsOK /\ IsFiniteSet(journal)
  /\ RunsFine /\ RegistriesFine /\ LinesFine
  /\ \A c \in Clients : Waits(c)
  /\ Single
  /\ overlap \/ (Once /\ \A c \in Clients : Unbooked(c))

\* The invariant tells how often the wages are booked.
LEMMA PayInvBooks == PayInv => PayrollBookedOnce
<1>. SUFFICES ASSUME PayInv, NEW m \in Months
              PROVE  LET n == Cardinality(Postings(Run(m)))
                     IN  /\ runPosted[m] <=> n > 0
                         /\ runPosted[m] => run[m] = "POSTED"
                         /\ overlap \/ n <= 1
                         /\ \A g \in Registries :
                              paysFor[g] = m /\ registry[g] = "PAID" => n > 0 \/ \E l \in Lines : settles[l] = g
  BY DEF PayrollBookedOnce
<1>1. PICK n : n = Cardinality(Postings(Run(m)))
  OBVIOUS
<1>2. PICK posted \in BOOLEAN : posted = runPosted[m]
  BY DEF PayInv, RunsFine
<1>3. (posted <=> n > 0) /\ (posted => run[m] = "POSTED")
  BY <1>1, <1>2, Booked DEF PayInv, RunsFine
<1>4. overlap \/ n <= 1
  BY <1>1, Booked DEF PayInv, Once
<1>5. \A g \in Registries : paysFor[g] = m /\ registry[g] = "PAID" => posted \/ \E l \in Lines : settles[l] = g
  BY <1>2 DEF PayInv, RegistriesFine
<1>. QED
  BY <1>1, <1>2, <1>3, <1>4, <1>5

\* And what a line settles.
LEMMA PayInvSettles == PayInv => PayoutPerLine
BY DEF PayInv, LinesFine, Once, PayoutPerLine

\* At first there are no runs, registries and lines.
LEMMA PayInitial == Init => PayInv
<1>. SUFFICES ASSUME Init PROVE PayInv
  OBVIOUS
<1>1. RequestsOK
  BY DEF Init, RequestInit, RequestsOK, Busy
<1>2. journal = {} /\ IsFiniteSet(journal) /\ \A doc : Postings(doc) = {}
  BY FS_EmptySet DEF Init, LedgerInit, Postings
<1>3. /\ run = [m \in Months |-> "NONE"] /\ runPosted = [m \in Months |-> FALSE]
      /\ registry = [g \in Registries |-> "NONE"] /\ paysFor = [g \in Registries |-> 0]
      /\ draft = [p \in Drafts |-> "NONE"] /\ line = [l \in Lines |-> "NONE"]
      /\ settles = [l \in Lines |-> None]
  BY DEF Init, PayInit
<1>4. \A c \in Clients : pc[c] = "idle"
  BY DEF Init, RequestInit
<1>5. RunsFine /\ RegistriesFine
  BY <1>2, <1>3 DEF RunsFine, RegistriesFine
<1>6. LinesFine
  BY <1>3, PayrollAssumption DEF LinesFine
<1>7. Single /\ \A c \in Clients : Waits(c) /\ Unbooked(c)
  BY <1>4 DEF Single, SendsRegistry, SendsDraft, Matches, Waits, Unbooked, MatchSteps
<1>8. Once
  BY <1>2, <1>3 DEF Once
<1>. QED
  BY <1>1, <1>2, <1>5, <1>6, <1>7, <1>8 DEF PayInv

\* A step may change the rows only so that what client d has read stays true.
Respects(d) ==
  /\ \A g \in Registries :
       /\ registry[g] # "NONE" => paysFor'[g] = paysFor[g]
       /\ registry[g] = "DRAFT" /\ SendsRegistry(d, g) => registry'[g] = "DRAFT"
       /\ registry[g] \in {"SENT", "PAID"} => registry'[g] \in {"SENT", "PAID"}
  /\ \A p \in Drafts :
       /\ draft[p] = "PENDING" /\ SendsDraft(d, p) => draft'[p] = "PENDING"
       /\ draft[p] \in {"SENT", "COMPLETED"} => draft'[p] \in {"SENT", "COMPLETED"}
  /\ \A l \in Lines : line[l] = "NEW" /\ Matches(d, l) => line'[l] = "NEW"
  /\ \A m \in Months : runPosted[m] => runPosted'[m]

\* Such a step keeps what it waits with.
LEMMA WaitsKept ==
  ASSUME NEW d \in Clients, Waits(d), RegistriesFine, Respects(d), pc'[d] = pc[d], req'[d] = req[d]
  PROVE  Waits(d)'
<1>1. ASSUME pc[d] = "send"
      PROVE  \/ \E g \in Registries : SendsRegistry(d, g)' /\ registry'[g] = "DRAFT"
             \/ \E p \in Drafts : SendsDraft(d, p)' /\ draft'[p] = "PENDING"
  BY <1>1 DEF Waits, Respects, SendsRegistry, SendsDraft
<1>2. ASSUME pc[d] \in {"paid", "pay"}
      PROVE  /\ req[d].registry \in Registries /\ registry'[req[d].registry] \in {"SENT", "PAID"}
             /\ req[d].seen \in BOOLEAN /\ (req[d].seen => runPosted'[paysFor'[req[d].registry]])
  <2>1. PICK g \in Registries : g = req[d].registry
    BY <1>2 DEF Waits
  <2>2. registry[g] \in {"SENT", "PAID"} /\ req[d].seen \in BOOLEAN /\ (req[d].seen => runPosted[paysFor[g]])
    BY <1>2, <2>1 DEF Waits
  <2>3. registry[g] # "NONE" /\ paysFor[g] \in Months
    BY <2>2 DEF RegistriesFine
  <2>4. paysFor'[g] = paysFor[g] /\ registry'[g] \in {"SENT", "PAID"} /\ (runPosted[paysFor[g]] => runPosted'[paysFor[g]])
    BY <2>2, <2>3 DEF Respects
  <2>. QED
    BY <2>1, <2>2, <2>4
<1>3. ASSUME pc[d] \in MatchSteps PROVE req[d].line \in Lines /\ line'[req[d].line] = "NEW"
  BY <1>3 DEF Waits, Respects, Matches
<1>4. ASSUME pc[d] = "settle"
      PROVE  \/ /\ req[d].hit \in Drafts /\ PayAmount[req[d].hit] = PayAmount[req[d].line]
                /\ draft'[req[d].hit] \in {"SENT", "COMPLETED"}
             \/ /\ req[d].hit \in Registries /\ Wages[paysFor'[req[d].hit]] = PayAmount[req[d].line]
                /\ registry'[req[d].hit] \in {"SENT", "PAID"}
  <2>1. CASE req[d].hit \in Drafts /\ draft[req[d].hit] \in {"SENT", "COMPLETED"} /\ PayAmount[req[d].hit] = PayAmount[req[d].line]
    BY <2>1 DEF Respects
  <2>2. CASE /\ req[d].hit \in Registries /\ Wages[paysFor[req[d].hit]] = PayAmount[req[d].line]
             /\ registry[req[d].hit] \in {"SENT", "PAID"}
    <3>1. registry[req[d].hit] # "NONE"
      BY <2>2
    <3>. QED
      BY <2>2, <3>1 DEF Respects
  <2>. QED
    BY <1>4, <2>1, <2>2 DEF Waits
<1>. QED
  BY <1>1, <1>2, <1>3, <1>4 DEF Waits

\* What is left to show of a step of client c.
LEMMA PayFrame ==
  ASSUME PayInv, NEW c \in Clients, RequestsOK', Solo(c), IsFiniteSet(journal'),
         RunsFine', RegistriesFine', LinesFine', Waits(c)',
         \A d \in Clients \ {c} : Respects(d),
         \A d \in Clients \ {c} :
           /\ \A g \in Registries : SendsRegistry(c, g)' => ~SendsRegistry(d, g)
           /\ \A p \in Drafts : SendsDraft(c, p)' => ~SendsDraft(d, p)
           /\ \A l \in Lines : Matches(c, l)' => ~Matches(d, l),
         ~overlap' => Once' /\ Unbooked(c)'
  PROVE  PayInv'
<1>1. \A d \in Clients : Waits(d)'
  BY WaitsKept DEF PayInv, Solo
<1>2. \A d \in Clients \ {c} : /\ \A g \in Registries : SendsRegistry(d, g)' <=> SendsRegistry(d, g)
                               /\ \A p \in Drafts : SendsDraft(d, p)' <=> SendsDraft(d, p)
                               /\ \A l \in Lines : Matches(d, l)' <=> Matches(d, l)
  BY DEF Solo, SendsRegistry, SendsDraft, Matches
<1>3. Single'
  <2>. SUFFICES ASSUME NEW d \in Clients, NEW e \in Clients, d # e
                PROVE  /\ \A g \in Registries : ~(SendsRegistry(d, g)' /\ SendsRegistry(e, g)')
                       /\ \A p \in Drafts : ~(SendsDraft(d, p)' /\ SendsDraft(e, p)')
                       /\ \A l \in Lines : ~(Matches(d, l)' /\ Matches(e, l)')
    BY DEF Single
  <2>1. CASE d = c
    BY <1>2, <2>1
  <2>2. CASE e = c
    BY <1>2, <2>2
  <2>3. CASE d # c /\ e # c
    BY <1>2, <2>3 DEF PayInv, Single
  <2>. QED
    BY <2>1, <2>2, <2>3
<1>4. ASSUME ~overlap' PROVE Once' /\ \A d \in Clients : Unbooked(d)'
  <2>1. ASSUME NEW d \in Clients, d # c PROVE Unbooked(d)'
    <3>1. pc'[d] = "idle"
      BY <1>4, <2>1 DEF PayInv, Solo, RequestsOK, Busy
    <3>. QED
      BY <3>1 DEF Unbooked
  <2>. QED
    BY <1>4, <2>1
<1>. QED
  BY <1>1, <1>3, <1>4 DEF PayInv

\* The wages are documents of their own.
LEMMA RunsKept ==
  ASSUME IsFiniteSet(journal), NEW kinds, Grows(kinds), "PAY" \notin kinds
  PROVE  IsFiniteSet(journal') /\ \A m \in Months : Postings(Run(m))' = Postings(Run(m))
<1>1. \A m \in Months : Run(m)[1] = "PAY"
  BY DEF Run
<1>2. \A m \in Months : Run(m)' = Run(m)
  BY DEF Run
<1>. QED
  BY <1>1, <1>2, PostingsKept

\* A step that writes no row of payroll keeps the rows in order.
LEMMA RowsKept ==
  ASSUME PayInv, UNCHANGED payVars, NEW kinds, Grows(kinds), "PAY" \notin kinds
  PROVE  /\ IsFiniteSet(journal') /\ RunsFine' /\ RegistriesFine' /\ LinesFine' /\ (Once => Once')
         /\ \A d \in Clients : Respects(d)
<1>1. IsFiniteSet(journal') /\ \A m \in Months : Postings(Run(m))' = Postings(Run(m))
  BY RunsKept DEF PayInv
<1>2. RunsFine'
  BY <1>1 DEF PayInv, RunsFine, payVars
<1>3. RegistriesFine' /\ LinesFine'
  BY DEF PayInv, RegistriesFine, LinesFine, payVars
<1>4. Once => Once'
  BY <1>1 DEF Once, payVars
<1>5. \A d \in Clients : Respects(d)
  BY DEF Respects, payVars
<1>. QED
  BY <1>1, <1>2, <1>3, <1>4, <1>5

\* A step of a request that writes no row of payroll.
LEMMA PayReads ==
  ASSUME PayInv, NEW c \in Clients, RequestsOK', Solo(c), UNCHANGED payVars,
         NEW kinds, Grows(kinds), "PAY" \notin kinds, Waits(c)',
         pc'[c] # "send", \A l \in Lines : Matches(c, l)' => Matches(c, l),
         ~overlap' => Unbooked(c)'
  PROVE  PayInv'
<1>1. /\ IsFiniteSet(journal') /\ RunsFine' /\ RegistriesFine' /\ LinesFine' /\ (Once => Once')
      /\ \A d \in Clients : Respects(d)
  BY RowsKept
<1>2. ~overlap' => Once' /\ Unbooked(c)'
  BY <1>1 DEF PayInv, Solo
<1>3. \A d \in Clients \ {c} :
        /\ \A g \in Registries : SendsRegistry(c, g)' => ~SendsRegistry(d, g)
        /\ \A p \in Drafts : SendsDraft(c, p)' => ~SendsDraft(d, p)
        /\ \A l \in Lines : Matches(c, l)' => ~Matches(d, l)
  <2>1. \A l \in Lines, d \in Clients \ {c} : Matches(c, l)' => ~Matches(d, l)
    BY DEF PayInv, Single
  <2>. QED
    BY <2>1 DEF SendsRegistry, SendsDraft
<1>. QED
  BY <1>1, <1>2, <1>3, PayFrame

\* Other components, and requests that end.
LEMMA PayBeside ==
  ASSUME PayInv, NEW c \in Clients, RequestsOK', Solo(c), pc'[c] \notin PaySteps, UNCHANGED payVars,
         NEW kinds, Grows(kinds), "PAY" \notin kinds
  PROVE  PayInv'
<1>1. Waits(c)' /\ Unbooked(c)' /\ pc'[c] # "send" /\ \A l \in Lines : ~Matches(c, l)'
  BY DEF Waits, Unbooked, PaySteps, MatchSteps, Matches
<1>. QED
  BY <1>1, PayReads

\* The requests of one statement.
LEMMA PayInstants ==
  ASSUME PayInv, pc' = pc, req' = req, RequestsOK', overlap' \/ ~overlap,
         UNCHANGED <<runPosted, registry, paysFor, draft, line, settles>>,
         run' = [m \in Months |-> run'[m]], \A m \in Months : run[m] = "POSTED" => run'[m] = "POSTED",
         NEW kinds, Grows(kinds), "PAY" \notin kinds
  PROVE  PayInv'
<1>1. IsFiniteSet(journal') /\ \A m \in Months : Postings(Run(m))' = Postings(Run(m))
  BY RunsKept DEF PayInv
<1>2. RunsFine'
  BY <1>1 DEF PayInv, RunsFine
<1>3. RegistriesFine' /\ LinesFine'
  BY DEF PayInv, RegistriesFine, LinesFine
<1>4. (Once => Once') /\ Single'
  BY <1>1 DEF Once, PayInv, Single, SendsRegistry, SendsDraft, Matches
<1>5. ASSUME NEW d \in Clients PROVE Waits(d)' /\ (Unbooked(d) => Unbooked(d)')
  <2>1. Respects(d)
    BY DEF Respects
  <2>2. Waits(d)'
    BY <2>1, WaitsKept DEF PayInv
  <2>. QED
    BY <2>2 DEF Unbooked
<1>. QED
  BY <1>1, <1>2, <1>3, <1>4, <1>5 DEF PayInv

\* A run is created and posted.
LEMMA PayRuns == ASSUME PayInv, PayInstant PROVE PayInv'
<1>1. PICK m \in Months : CreateRun(m) \/ PostRun(m)
  BY DEF PayInstant
<1>2. PICK s \in {"DRAFT", "POSTED"} : run' = [run EXCEPT ![m] = s] /\ run[m] # "POSTED"
  BY <1>1 DEF CreateRun, PostRun
<1>3. Instant /\ journal' = journal /\ UNCHANGED <<runPosted, registry, paysFor, draft, line, settles>>
  BY <1>1 DEF CreateRun, PostRun, ledgerVars
<1>4. RequestsOK' /\ pc' = pc /\ req' = req /\ (~overlap' => ~overlap)
  BY <1>3, InstantSolo DEF PayInv
<1>5. overlap' \/ ~overlap
  BY <1>4 DEF PayInv, RequestsOK
<1>6. run' = [k \in Months |-> run'[k]] /\ \A k \in Months : run[k] = "POSTED" => run'[k] = "POSTED"
  BY <1>2 DEF PayInv, RunsFine
<1>7. Grows({})
  BY <1>3, GrowsNot
<1>. QED
  BY <1>3, <1>4, <1>5, <1>6, <1>7, PayInstants

\* A registry of a posted run is created; nobody sent it before.
LEMMA RegistryCreated ==
  ASSUME PayInv, NEW c \in Clients, NEW g \in Registries, NEW m \in Months, CreateRegistry(c, g, m)
  PROVE  PayInv'
<1>1. /\ registry[g] = "NONE" /\ run[m] = "POSTED" /\ journal' = journal
      /\ registry' = [registry EXCEPT ![g] = "DRAFT"] /\ paysFor' = [paysFor EXCEPT ![g] = m]
      /\ UNCHANGED <<run, runPosted, draft, line, settles>>
  BY DEF CreateRegistry, ledgerVars
<1>2. RequestsOK' /\ Solo(c) /\ pc'[c] = "send" /\ req'[c] = [op |-> "REGISTRY", registry |-> g]
  BY BeginSolo DEF CreateRegistry, PayInv
<1>3. IsFiniteSet(journal') /\ \A k \in Months : Postings(Run(k))' = Postings(Run(k))
  BY <1>1 DEF PayInv, Postings, Run
<1>4. /\ registry'[g] = "DRAFT" /\ paysFor'[g] = m
      /\ \A h \in Registries \ {g} : registry'[h] = registry[h] /\ paysFor'[h] = paysFor[h]
      /\ registry' = [h \in Registries |-> registry'[h]] /\ paysFor' = [h \in Registries |-> paysFor'[h]]
  BY <1>1 DEF PayInv, RegistriesFine
<1>5. RunsFine'
  BY <1>1, <1>3 DEF PayInv, RunsFine
<1>6. RegistriesFine'
  <2>1. ASSUME NEW h \in Registries, registry'[h] # "NONE" PROVE paysFor'[h] \in Months /\ run'[paysFor'[h]] = "POSTED"
    BY <1>1, <1>4, <2>1 DEF PayInv, RegistriesFine
  <2>2. ASSUME NEW h \in Registries, registry'[h] = "PAID"
        PROVE  runPosted'[paysFor'[h]] \/ \E l \in Lines : settles'[l] = h
    BY <1>1, <1>4, <2>2 DEF PayInv, RegistriesFine
  <2>. QED
    BY <1>4, <2>1, <2>2 DEF RegistriesFine
<1>7. LinesFine'
  <2>1. \A l \in Lines : settles[l] # g
    BY <1>1 DEF PayInv, LinesFine
  <2>2. \A l \in Lines : settles[l] \in Registries =>
          registry'[settles[l]] = "PAID" /\ Wages[paysFor'[settles[l]]] = PayAmount[l]
    BY <1>4, <2>1 DEF PayInv, LinesFine
  <2>. QED
    BY <1>1, <2>2 DEF PayInv, LinesFine
<1>8. Waits(c)'
  <2>1. SendsRegistry(c, g)' /\ registry'[g] = "DRAFT"
    BY <1>2, <1>4 DEF SendsRegistry
  <2>. QED
    BY <1>2, <2>1 DEF Waits, MatchSteps
<1>9. \A d \in Clients : Respects(d)
  BY <1>1, <1>4 DEF Respects
<1>10. ASSUME NEW d \in Clients \ {c}
       PROVE  /\ \A h \in Registries : SendsRegistry(c, h)' => ~SendsRegistry(d, h)
              /\ \A p \in Drafts : SendsDraft(c, p)' => ~SendsDraft(d, p)
              /\ \A l \in Lines : Matches(c, l)' => ~Matches(d, l)
  <2>1. ~SendsRegistry(d, g)
    BY <1>1 DEF PayInv, Waits, SendsRegistry, SendsDraft
  <2>. QED
    BY <1>2, <2>1 DEF SendsRegistry, SendsDraft, Matches, MatchSteps
<1>11. ~overlap' => Once' /\ Unbooked(c)'
  BY <1>1, <1>2, <1>3 DEF PayInv, Solo, Once, Unbooked
<1>. QED
  BY <1>2, <1>3, <1>5, <1>6, <1>7, <1>8, <1>9, <1>10, <1>11, PayFrame

\* It is sent; the request that created it is the only one that does.
LEMMA RegistrySent == ASSUME PayInv, NEW c \in Clients, SendRegistry(c) PROVE PayInv'
<1>1. PICK g \in Registries : SendsRegistry(c, g) /\ registry[g] = "DRAFT"
  BY DEF PayInv, Waits, SendRegistry, At, SendsRegistry, SendsDraft
<1>2. /\ registry' = [registry EXCEPT ![g] = "SENT"] /\ journal' = journal /\ Finish(c) /\ Busy(c)
      /\ UNCHANGED <<run, runPosted, paysFor, draft, line, settles>>
  BY <1>1 DEF SendRegistry, SendsRegistry, ledgerVars, At, Busy
<1>3. RequestsOK' /\ Solo(c) /\ pc'[c] = "idle"
  BY <1>2, FinishSolo DEF PayInv
<1>4. IsFiniteSet(journal') /\ \A k \in Months : Postings(Run(k))' = Postings(Run(k))
  BY <1>2 DEF PayInv, Postings, Run
<1>5. /\ registry'[g] = "SENT" /\ \A h \in Registries \ {g} : registry'[h] = registry[h]
      /\ registry' = [h \in Registries |-> registry'[h]]
  BY <1>2 DEF PayInv, RegistriesFine
<1>6. RunsFine'
  BY <1>2, <1>4 DEF PayInv, RunsFine
<1>7. RegistriesFine'
  <2>1. ASSUME NEW h \in Registries, registry'[h] # "NONE" PROVE paysFor'[h] \in Months /\ run'[paysFor'[h]] = "POSTED"
    BY <1>1, <1>2, <1>5, <2>1 DEF PayInv, RegistriesFine
  <2>2. ASSUME NEW h \in Registries, registry'[h] = "PAID"
        PROVE  runPosted'[paysFor'[h]] \/ \E l \in Lines : settles'[l] = h
    BY <1>2, <1>5, <2>2 DEF PayInv, RegistriesFine
  <2>3. paysFor' = [h \in Registries |-> paysFor'[h]]
    BY <1>2 DEF PayInv, RegistriesFine
  <2>. QED
    BY <1>5, <2>1, <2>2, <2>3 DEF RegistriesFine
<1>8. LinesFine'
  <2>1. \A l \in Lines : settles[l] # g
    BY <1>1 DEF PayInv, LinesFine
  <2>2. \A l \in Lines : settles[l] \in Registries =>
          registry'[settles[l]] = "PAID" /\ Wages[paysFor[settles[l]]] = PayAmount[l]
    BY <1>5, <2>1 DEF PayInv, LinesFine
  <2>. QED
    BY <1>2, <2>2 DEF PayInv, LinesFine
<1>9. Waits(c)' /\ Unbooked(c)'
  BY <1>3 DEF Waits, Unbooked, MatchSteps
<1>10. \A d \in Clients \ {c} : Respects(d)
  <2>1. \A d \in Clients \ {c} : ~SendsRegistry(d, g)
    BY <1>1 DEF PayInv, Single
  <2>. QED
    BY <1>1, <1>2, <1>5, <2>1 DEF Respects
<1>11. \A d \in Clients \ {c} : /\ \A h \in Registries : SendsRegistry(c, h)' => ~SendsRegistry(d, h)
                                /\ \A p \in Drafts : SendsDraft(c, p)' => ~SendsDraft(d, p)
                                /\ \A l \in Lines : Matches(c, l)' => ~Matches(d, l)
  BY <1>3 DEF SendsRegistry, SendsDraft, Matches, MatchSteps
<1>12. ~overlap' => Once'
  BY <1>2, <1>3, <1>4 DEF PayInv, Solo, Once
<1>. QED
  BY <1>3, <1>4, <1>6, <1>7, <1>8, <1>9, <1>10, <1>11, <1>12, PayFrame

\* A draft is created; nobody sent it before.
LEMMA DraftCreated == ASSUME PayInv, NEW c \in Clients, NEW p \in Drafts, CreateDraft(c, p) PROVE PayInv'
<1>1. /\ draft[p] = "NONE" /\ draft' = [draft EXCEPT ![p] = "PENDING"] /\ journal' = journal
      /\ UNCHANGED <<run, runPosted, registry, paysFor, line, settles>>
  BY DEF CreateDraft, ledgerVars
<1>2. RequestsOK' /\ Solo(c) /\ pc'[c] = "send" /\ req'[c] = [op |-> "DRAFT", draft |-> p]
  BY BeginSolo DEF CreateDraft, PayInv
<1>3. IsFiniteSet(journal') /\ \A k \in Months : Postings(Run(k))' = Postings(Run(k))
  BY <1>1 DEF PayInv, Postings, Run
<1>4. /\ draft'[p] = "PENDING" /\ \A q \in Drafts \ {p} : draft'[q] = draft[q]
      /\ draft' = [q \in Drafts |-> draft'[q]]
  BY <1>1 DEF PayInv, LinesFine
<1>5. RunsFine' /\ RegistriesFine'
  BY <1>1, <1>3 DEF PayInv, RunsFine, RegistriesFine
<1>6. LinesFine'
  <2>1. \A l \in Lines : settles[l] \in Drafts => draft'[settles[l]] = "COMPLETED"
    BY <1>1, <1>4 DEF PayInv, LinesFine
  <2>. QED
    BY <1>1, <1>4, <2>1 DEF PayInv, LinesFine
<1>7. Waits(c)'
  <2>1. SendsDraft(c, p)' /\ draft'[p] = "PENDING"
    BY <1>2, <1>4 DEF SendsDraft
  <2>. QED
    BY <1>2, <2>1 DEF Waits, MatchSteps
<1>8. \A d \in Clients : Respects(d)
  BY <1>1, <1>4 DEF Respects
<1>9. ASSUME NEW d \in Clients \ {c}
      PROVE  /\ \A h \in Registries : SendsRegistry(c, h)' => ~SendsRegistry(d, h)
             /\ \A q \in Drafts : SendsDraft(c, q)' => ~SendsDraft(d, q)
             /\ \A l \in Lines : Matches(c, l)' => ~Matches(d, l)
  <2>1. ~SendsDraft(d, p)
    BY <1>1 DEF PayInv, Waits, SendsRegistry, SendsDraft
  <2>. QED
    BY <1>2, <2>1 DEF SendsRegistry, SendsDraft, Matches, MatchSteps
<1>10. ~overlap' => Once' /\ Unbooked(c)'
  BY <1>1, <1>2, <1>3 DEF PayInv, Solo, Once, Unbooked
<1>. QED
  BY <1>2, <1>3, <1>5, <1>6, <1>7, <1>8, <1>9, <1>10, PayFrame

\* The answer of the bank.
LEMMA DraftSent == ASSUME PayInv, NEW c \in Clients, SendDraft(c) PROVE PayInv'
<1>1. PICK p \in Drafts : SendsDraft(c, p) /\ draft[p] = "PENDING"
  BY DEF PayInv, Waits, SendDraft, At, SendsRegistry, SendsDraft
<1>2. PICK s \in {"SENT", "REJECTED"} : draft' = [draft EXCEPT ![p] = s]
  BY <1>1 DEF SendDraft, SendsDraft
<1>3. /\ journal' = journal /\ Finish(c) /\ Busy(c)
      /\ UNCHANGED <<run, runPosted, registry, paysFor, line, settles>>
  BY DEF SendDraft, ledgerVars, At, Busy
<1>4. RequestsOK' /\ Solo(c) /\ pc'[c] = "idle"
  BY <1>3, FinishSolo DEF PayInv
<1>5. IsFiniteSet(journal') /\ \A k \in Months : Postings(Run(k))' = Postings(Run(k))
  BY <1>3 DEF PayInv, Postings, Run
<1>6. /\ draft'[p] = s /\ \A q \in Drafts \ {p} : draft'[q] = draft[q]
      /\ draft' = [q \in Drafts |-> draft'[q]]
  BY <1>2 DEF PayInv, LinesFine
<1>7. RunsFine' /\ RegistriesFine'
  BY <1>3, <1>5 DEF PayInv, RunsFine, RegistriesFine
<1>8. LinesFine'
  <2>1. \A l \in Lines : settles[l] \in Drafts => draft'[settles[l]] = "COMPLETED"
    BY <1>1, <1>6 DEF PayInv, LinesFine
  <2>. QED
    BY <1>3, <1>6, <2>1 DEF PayInv, LinesFine
<1>9. Waits(c)' /\ Unbooked(c)'
  BY <1>4 DEF Waits, Unbooked, MatchSteps
<1>10. \A d \in Clients \ {c} : Respects(d)
  <2>1. \A d \in Clients \ {c} : ~SendsDraft(d, p)
    BY <1>1 DEF PayInv, Single
  <2>. QED
    BY <1>1, <1>3, <1>6, <2>1 DEF Respects
<1>11. \A d \in Clients \ {c} : /\ \A h \in Registries : SendsRegistry(c, h)' => ~SendsRegistry(d, h)
                                /\ \A q \in Drafts : SendsDraft(c, q)' => ~SendsDraft(d, q)
                                /\ \A l \in Lines : Matches(c, l)' => ~Matches(d, l)
  BY <1>4 DEF SendsRegistry, SendsDraft, Matches, MatchSteps
<1>12. ~overlap' => Once'
  BY <1>3, <1>4, <1>5 DEF PayInv, Solo, Once
<1>. QED
  BY <1>4, <1>5, <1>7, <1>8, <1>9, <1>10, <1>11, <1>12, PayFrame

\* The payment of a registry reads whether the run is posted, and the closed months.
LEMMA PaidReads ==
  ASSUME PayInv, NEW c \in Clients, TestPaid(c) \/ (\E g \in Registries : StartPaid(c, g))
  PROVE  PayInv'
<1>0. RequestsOK /\ UNCHANGED payVars /\ Grows({})
  BY GrowsNot DEF PayInv, TestPaid, StartPaid, ledgerVars
<1>1. ASSUME NEW g \in Registries, StartPaid(c, g) PROVE PayInv'
  <2>1. PICK seen \in BOOLEAN : seen = runPosted[paysFor[g]] /\ registry[g] = "SENT" /\ Begin(c, "paid", [op |-> "PAID", registry |-> g, seen |-> seen])
    <3>1. paysFor[g] \in Months /\ registry[g] = "SENT"
      BY <1>1 DEF StartPaid, PayInv, RegistriesFine
    <3>2. runPosted[paysFor[g]] \in BOOLEAN
      BY <3>1 DEF PayInv, RunsFine
    <3>. QED
      BY <1>1, <3>1, <3>2 DEF StartPaid
  <2>2. RequestsOK' /\ Solo(c) /\ pc'[c] = "paid" /\ req'[c] = [op |-> "PAID", registry |-> g, seen |-> seen]
    BY <1>0, <2>1, BeginSolo
  <2>3. registry' = registry /\ paysFor' = paysFor /\ runPosted' = runPosted
    BY <1>0 DEF payVars
  <2>4. req'[c].registry = g /\ req'[c].seen = seen
    BY <2>2
  <2>5. Waits(c)'
    BY <2>1, <2>2, <2>3, <2>4 DEF Waits, MatchSteps
  <2>6. Unbooked(c)'
    BY <2>1, <2>2, <2>3, <2>4 DEF Unbooked
  <2>7. pc'[c] # "send" /\ \A l \in Lines : ~Matches(c, l)'
    BY <2>2 DEF Matches, MatchSteps
  <2>. QED
    BY <1>0, <2>2, <2>5, <2>6, <2>7, PayReads
<1>2. CASE TestPaid(c)
  <2>1. PICK r : r = req[c]
    OBVIOUS
  <2>2. Busy(c) /\ pc[c] = "paid" /\ (Finish(c) \/ Goto(c, "pay", r))
    BY <1>2, <2>1 DEF TestPaid, CheckOpen, At, Busy
  <2>3. CASE Finish(c)
    <3>1. RequestsOK' /\ Solo(c) /\ pc'[c] \notin PaySteps
      BY <1>0, <2>2, <2>3, FinishSolo DEF PaySteps
    <3>. QED
      BY <1>0, <3>1, PayBeside
  <2>4. CASE Goto(c, "pay", r)
    <3>1. RequestsOK' /\ Solo(c) /\ pc'[c] = "pay" /\ req'[c] = req[c]
      BY <1>0, <2>1, <2>2, <2>4, GotoSolo
    <3>2. registry' = registry /\ paysFor' = paysFor /\ runPosted' = runPosted
      BY <1>0 DEF payVars
    <3>3. Waits(c)'
      BY <2>2, <3>1, <3>2 DEF PayInv, Waits, MatchSteps
    <3>4. ~overlap' => Unbooked(c)'
      BY <2>2, <3>1, <3>2 DEF PayInv, Unbooked, Solo
    <3>5. pc'[c] # "send" /\ \A l \in Lines : ~Matches(c, l)'
      BY <3>1 DEF Matches, MatchSteps
    <3>. QED
      BY <1>0, <3>1, <3>3, <3>4, <3>5, PayReads
  <2>. QED
    BY <2>2, <2>3, <2>4
<1>. QED
  BY <1>1, <1>2

\* The wages are booked unless the run was seen as posted, which it stays.
LEMMA PaidCommits == ASSUME PayInv, NEW c \in Clients, CommitPaid(c) PROVE PayInv'
<1>1. PICK g, m : g = req[c].registry /\ m = paysFor[g]
  OBVIOUS
<1>2. PICK seen : seen = req[c].seen
  OBVIOUS
<1>3. /\ g \in Registries /\ registry[g] \in {"SENT", "PAID"} /\ seen \in BOOLEAN
      /\ (seen => runPosted[m]) /\ (overlap \/ seen = runPosted[m]) /\ Busy(c)
  BY <1>1, <1>2 DEF PayInv, Waits, Unbooked, CommitPaid, At, Busy
<1>4. m \in Months /\ run[m] = "POSTED"
  <2>1. registry[g] # "NONE"
    BY <1>3
  <2>. QED
    BY <1>1, <1>3, <2>1 DEF PayInv, RegistriesFine
<1>5. PICK e : e = Entry(Run(m), NetPay, MonthEnd(m), - Wages[m]) /\ e.doc = Run(m)
  BY EntryKind DEF Run
<1>6. /\ journal' = journal \cup (IF seen THEN {} ELSE {e})
      /\ runPosted' = [runPosted EXCEPT ![m] = TRUE] /\ registry' = [registry EXCEPT ![g] = "PAID"]
      /\ Finish(c) /\ UNCHANGED <<run, paysFor, draft, line, settles>>
  BY <1>1, <1>2, <1>5 DEF CommitPaid, Books
<1>7. RequestsOK' /\ Solo(c) /\ pc'[c] = "idle"
  BY <1>3, <1>6, FinishSolo DEF PayInv
<1>8. IsFiniteSet(journal')
  BY <1>6, FS_EmptySet, FS_Singleton, FS_Union DEF PayInv
<1>9. /\ \A k \in Months : k # m => Postings(Run(k))' = Postings(Run(k))
      /\ Postings(Run(m))' = Postings(Run(m)) \cup (IF seen THEN {} ELSE {e})
  <2>1. \A k \in Months : Run(k) = Run(m) => k = m
    BY DEF Run
  <2>2. \A k \in Months : Run(k)' = Run(k)
    BY DEF Run
  <2>3. CASE seen
    BY <1>4, <1>6, <2>2, <2>3 DEF Postings
  <2>4. CASE ~seen
    BY <1>4, <1>5, <1>6, <2>1, <2>2, <2>4 DEF Postings
  <2>. QED
    BY <1>3, <2>3, <2>4
<1>10. /\ runPosted' \in [Months -> BOOLEAN] /\ runPosted'[m] = TRUE
       /\ \A k \in Months : k # m => runPosted'[k] = runPosted[k]
  BY <1>4, <1>6 DEF PayInv, RunsFine
<1>11. Postings(Run(m))' # {}
  BY <1>3, <1>4, <1>9 DEF PayInv, RunsFine
<1>12. RunsFine'
  <2>1. \A k \in Months : runPosted'[k] = (Postings(Run(k))' # {})
    <3>1. ASSUME NEW k \in Months, k # m PROVE runPosted'[k] = (Postings(Run(k))' # {})
      BY <1>9, <1>10, <3>1 DEF PayInv, RunsFine
    <3>. QED
      BY <1>10, <1>11, <3>1
  <2>2. \A k \in Months : runPosted'[k] => run'[k] = "POSTED"
    BY <1>4, <1>6, <1>10 DEF PayInv, RunsFine
  <2>3. run' = [k \in Months |-> run'[k]]
    BY <1>6 DEF PayInv, RunsFine
  <2>. QED
    BY <1>10, <2>1, <2>2, <2>3 DEF RunsFine
<1>13. /\ registry'[g] = "PAID" /\ \A h \in Registries \ {g} : registry'[h] = registry[h]
       /\ registry' = [h \in Registries |-> registry'[h]]
  BY <1>3, <1>6 DEF PayInv, RegistriesFine
<1>14. \A k \in Months : runPosted[k] => runPosted'[k]
  BY <1>10
<1>15. RegistriesFine'
  <2>1. ASSUME NEW h \in Registries, registry'[h] # "NONE" PROVE paysFor'[h] \in Months /\ run'[paysFor'[h]] = "POSTED"
    BY <1>1, <1>4, <1>6, <1>13, <2>1 DEF PayInv, RegistriesFine
  <2>2. ASSUME NEW h \in Registries, registry'[h] = "PAID"
        PROVE  runPosted'[paysFor'[h]] \/ \E l \in Lines : settles'[l] = h
    <3>1. CASE h = g
      BY <1>1, <1>6, <1>10, <3>1
    <3>2. CASE h # g
      <4>1. registry[h] = "PAID" /\ paysFor[h] \in Months
        BY <1>13, <2>2, <3>2 DEF PayInv, RegistriesFine
      <4>2. runPosted[paysFor[h]] \/ \E l \in Lines : settles[l] = h
        BY <4>1 DEF PayInv, RegistriesFine
      <4>. QED
        BY <1>6, <1>14, <4>1, <4>2
    <3>. QED
      BY <3>1, <3>2
  <2>3. paysFor' = [h \in Registries |-> paysFor'[h]]
    BY <1>6 DEF PayInv, RegistriesFine
  <2>. QED
    BY <1>13, <2>1, <2>2, <2>3 DEF RegistriesFine
<1>16. LinesFine'
  <2>1. \A l \in Lines : settles[l] \in Registries =>
          registry'[settles[l]] = "PAID" /\ Wages[paysFor[settles[l]]] = PayAmount[l]
    BY <1>13 DEF PayInv, LinesFine
  <2>. QED
    BY <1>6, <2>1 DEF PayInv, LinesFine
<1>17. Waits(c)' /\ Unbooked(c)'
  BY <1>7 DEF Waits, Unbooked, MatchSteps
<1>18. \A d \in Clients \ {c} : Respects(d)
  BY <1>3, <1>6, <1>13, <1>14 DEF Respects
<1>19. \A d \in Clients \ {c} : /\ \A h \in Registries : SendsRegistry(c, h)' => ~SendsRegistry(d, h)
                                /\ \A q \in Drafts : SendsDraft(c, q)' => ~SendsDraft(d, q)
                                /\ \A l \in Lines : Matches(c, l)' => ~Matches(d, l)
  BY <1>7 DEF SendsRegistry, SendsDraft, Matches, MatchSteps
<1>20. ASSUME ~overlap' PROVE Once'
  <2>1. Once /\ seen = runPosted[m]
    BY <1>3, <1>7, <1>20 DEF PayInv, Solo
  <2>2. \A k \in Months : \A x, y \in Postings(Run(k))' : x = y
    <3>1. CASE seen
      BY <1>3, <1>9, <2>1, <3>1 DEF Once
    <3>2. CASE ~seen
      <4>1. Postings(Run(m)) = {}
        BY <1>3, <1>4, <2>1, <3>2 DEF PayInv, RunsFine
      <4>. QED
        BY <1>9, <2>1, <3>2, <4>1 DEF Once
    <3>. QED
      BY <1>3, <3>1, <3>2
  <2>. QED
    BY <1>6, <2>1, <2>2 DEF Once
<1>. QED
  BY <1>7, <1>8, <1>12, <1>15, <1>16, <1>17, <1>18, <1>19, <1>20, PayFrame

\* A line is imported once.
LEMMA LineImported == ASSUME PayInv, NEW c \in Clients, NEW l \in Lines, ImportLine(c, l) PROVE PayInv'
<1>1. /\ line[l] = "NONE" /\ line' = [line EXCEPT ![l] = "NEW"] /\ journal' = journal
      /\ UNCHANGED <<run, runPosted, registry, paysFor, draft, settles>>
  BY DEF ImportLine, ledgerVars
<1>2. RequestsOK' /\ Solo(c) /\ pc'[c] = "drafts" /\ req'[c] = [op |-> "IMPORT", line |-> l]
  BY BeginSolo DEF ImportLine, PayInv
<1>3. IsFiniteSet(journal') /\ \A k \in Months : Postings(Run(k))' = Postings(Run(k))
  BY <1>1 DEF PayInv, Postings, Run
<1>4. /\ line'[l] = "NEW" /\ \A k \in Lines \ {l} : line'[k] = line[k]
      /\ line' = [k \in Lines |-> line'[k]]
  BY <1>1 DEF PayInv, LinesFine
<1>5. RunsFine' /\ RegistriesFine'
  BY <1>1, <1>3 DEF PayInv, RunsFine, RegistriesFine
<1>6. LinesFine'
  <2>1. \A k \in Lines : line'[k] = "MATCHED" <=> settles[k] # None
    BY <1>1, <1>4 DEF PayInv, LinesFine
  <2>. QED
    BY <1>1, <1>4, <2>1 DEF PayInv, LinesFine
<1>7. Waits(c)'
  BY <1>2, <1>4 DEF Waits, MatchSteps
<1>8. \A d \in Clients : Respects(d)
  BY <1>1, <1>4 DEF Respects
<1>9. ASSUME NEW d \in Clients \ {c}
      PROVE  /\ \A h \in Registries : SendsRegistry(c, h)' => ~SendsRegistry(d, h)
             /\ \A q \in Drafts : SendsDraft(c, q)' => ~SendsDraft(d, q)
             /\ \A k \in Lines : Matches(c, k)' => ~Matches(d, k)
  <2>1. ~Matches(d, l)
    BY <1>1 DEF PayInv, Waits, Matches
  <2>. QED
    BY <1>2, <2>1 DEF SendsRegistry, SendsDraft, Matches
<1>10. ~overlap' => Once' /\ Unbooked(c)'
  BY <1>1, <1>2, <1>3 DEF PayInv, Solo, Once, Unbooked
<1>. QED
  BY <1>2, <1>3, <1>5, <1>6, <1>7, <1>8, <1>9, <1>10, PayFrame

\* The candidates of a line: one of them is chosen, or the request goes on or ends.
LEMMA LineReads == ASSUME PayInv, NEW c \in Clients, ReadDrafts(c) \/ ReadRegistries(c) PROVE PayInv'
<1>0. RequestsOK /\ UNCHANGED payVars /\ Grows({}) /\ Busy(c) /\ pc[c] \in MatchSteps
  BY GrowsNot DEF PayInv, ReadDrafts, ReadRegistries, ledgerVars, At, Busy, MatchSteps
<1>1. PICK l \in Lines : l = req[c].line /\ line[l] = "NEW"
  BY <1>0 DEF PayInv, Waits
<1>2. ASSUME NEW hits, Cardinality(hits) = 1 PROVE (CHOOSE x \in hits : TRUE) \in hits
  <2>1. hits # {}
    BY <1>2, FS_EmptySet
  <2>. QED
    BY <2>1
<1>3. \/ Finish(c)
      \/ Goto(c, "registries", req[c])
      \/ \E x : /\ x \in SentDrafts(l) \/ x \in SentRegistries(l)
                /\ Goto(c, "settle", [op |-> "IMPORT", line |-> l, hit |-> x])
  <2>1. CASE ReadDrafts(c)
    BY <1>1, <1>2, <2>1 DEF ReadDrafts, Choose
  <2>2. CASE ReadRegistries(c)
    BY <1>1, <1>2, <2>2 DEF ReadRegistries, Choose
  <2>. QED
    BY <2>1, <2>2
<1>4. CASE Finish(c)
  <2>1. RequestsOK' /\ Solo(c) /\ pc'[c] \notin PaySteps
    BY <1>0, <1>4, FinishSolo DEF PaySteps
  <2>. QED
    BY <1>0, <2>1, PayBeside
<1>5. UNCHANGED <<draft, registry, paysFor, line>>
  BY <1>0 DEF payVars
<1>6. CASE Goto(c, "registries", req[c])
  <2>1. RequestsOK' /\ Solo(c) /\ pc'[c] = "registries" /\ req'[c] = req[c]
    BY <1>0, <1>6, GotoSolo
  <2>2. Waits(c)' /\ Unbooked(c)' /\ pc'[c] # "send"
    BY <1>1, <1>5, <2>1 DEF Waits, Unbooked, MatchSteps
  <2>3. \A k \in Lines : Matches(c, k)' => Matches(c, k)
    BY <1>0, <2>1 DEF Matches
  <2>. QED
    BY <1>0, <2>1, <2>2, <2>3, PayReads
<1>7. ASSUME NEW x, x \in SentDrafts(l) \/ x \in SentRegistries(l),
             Goto(c, "settle", [op |-> "IMPORT", line |-> l, hit |-> x])
      PROVE  PayInv'
  <2>1. RequestsOK' /\ Solo(c) /\ pc'[c] = "settle" /\ req'[c] = [op |-> "IMPORT", line |-> l, hit |-> x]
    BY <1>0, <1>7, GotoSolo
  <2>2. req'[c].line = l /\ req'[c].hit = x
    BY <2>1
  <2>3. \/ x \in Drafts /\ x \notin Registries /\ PayAmount[x] = PayAmount[l] /\ draft[x] = "SENT"
        \/ x \in Registries /\ x \notin Drafts /\ Wages[paysFor[x]] = PayAmount[l] /\ registry[x] = "SENT"
    BY <1>7, PayrollAssumption DEF SentDrafts, SentRegistries
  <2>4. Waits(c)'
    BY <1>1, <1>5, <2>1, <2>2, <2>3 DEF Waits, MatchSteps
  <2>5. Unbooked(c)' /\ pc'[c] # "send"
    BY <1>5, <2>1, <2>2, <2>3 DEF Unbooked
  <2>6. \A k \in Lines : Matches(c, k)' => Matches(c, k)
    BY <1>0, <1>1, <2>1, <2>2 DEF Matches
  <2>. QED
    BY <1>0, <2>1, <2>4, <2>5, <2>6, PayReads
<1>. QED
  BY <1>3, <1>4, <1>6, <1>7

\* The line and what it pays; if nothing overlapped, no other line has paid it.
LEMMA LineSettles == ASSUME PayInv, NEW c \in Clients, Settle(c) PROVE PayInv'
<1>1. PICK l \in Lines, x \in Drafts \cup Registries : l = req[c].line /\ x = req[c].hit /\ line[l] = "NEW"
  BY DEF PayInv, Waits, Settle, At, MatchSteps
<1>2. /\ pc[c] = "settle" /\ Busy(c) /\ Finish(c) /\ journal' = journal
      /\ UNCHANGED <<run, runPosted, paysFor>>
      /\ line' = [line EXCEPT ![l] = "MATCHED"] /\ settles' = [settles EXCEPT ![l] = x]
  BY <1>1 DEF Settle, At, Busy, ledgerVars
<1>3. \/ /\ x \in Drafts /\ x \notin Registries /\ PayAmount[x] = PayAmount[l]
         /\ draft[x] \in {"SENT", "COMPLETED"} /\ (overlap \/ draft[x] = "SENT")
         /\ draft' = [draft EXCEPT ![x] = "COMPLETED"] /\ registry' = registry
      \/ /\ x \in Registries /\ x \notin Drafts /\ Wages[paysFor[x]] = PayAmount[l]
         /\ registry[x] \in {"SENT", "PAID"} /\ (overlap \/ registry[x] = "SENT")
         /\ registry' = [registry EXCEPT ![x] = "PAID"] /\ draft' = draft
  <2>1. \/ x \in Drafts /\ draft' = [draft EXCEPT ![x] = "COMPLETED"] /\ registry' = registry
        \/ x \notin Drafts /\ registry' = [registry EXCEPT ![x] = "PAID"] /\ draft' = draft
    BY <1>1 DEF Settle
  <2>2. \/ x \in Drafts /\ PayAmount[x] = PayAmount[l] /\ draft[x] \in {"SENT", "COMPLETED"}
        \/ x \in Registries /\ Wages[paysFor[x]] = PayAmount[l] /\ registry[x] \in {"SENT", "PAID"}
    BY <1>1, <1>2 DEF PayInv, Waits
  <2>3. overlap \/ ((x \in Drafts => draft[x] = "SENT") /\ (x \in Registries => registry[x] = "SENT"))
    BY <1>1, <1>2 DEF PayInv, Unbooked
  <2>4. ~(x \in Drafts /\ x \in Registries)
    BY PayrollAssumption
  <2>. QED
    BY <2>1, <2>2, <2>3, <2>4
<1>4. RequestsOK' /\ Solo(c) /\ pc'[c] = "idle"
  BY <1>2, FinishSolo DEF PayInv
<1>5. IsFiniteSet(journal') /\ \A k \in Months : Postings(Run(k))' = Postings(Run(k))
  BY <1>2 DEF PayInv, Postings, Run
<1>6. /\ line'[l] = "MATCHED" /\ settles'[l] = x /\ settles[l] = None /\ x # None
      /\ \A k \in Lines \ {l} : line'[k] = line[k] /\ settles'[k] = settles[k]
      /\ line' = [k \in Lines |-> line'[k]] /\ settles' = [k \in Lines |-> settles'[k]]
  <2>1. settles[l] = None /\ x # None
    BY <1>1, <1>3, PayrollAssumption DEF PayInv, LinesFine
  <2>. QED
    BY <1>2, <2>1 DEF PayInv, LinesFine
<1>7. /\ \A g \in Registries : registry'[g] = registry[g] \/ (g = x /\ registry'[g] = "PAID" /\ registry[g] \in {"SENT", "PAID"})
      /\ \A p \in Drafts : draft'[p] = draft[p] \/ (p = x /\ draft'[p] = "COMPLETED" /\ draft[p] \in {"SENT", "COMPLETED"})
      /\ x \in Registries => registry'[x] = "PAID" /\ Wages[paysFor[x]] = PayAmount[l]
      /\ x \in Drafts => draft'[x] = "COMPLETED" /\ PayAmount[x] = PayAmount[l]
      /\ registry' = [g \in Registries |-> registry'[g]] /\ draft' = [p \in Drafts |-> draft'[p]]
  BY <1>3 DEF PayInv, LinesFine, RegistriesFine
<1>8. RunsFine'
  BY <1>2, <1>5 DEF PayInv, RunsFine
<1>9. RegistriesFine'
  <2>1. ASSUME NEW g \in Registries, registry'[g] # "NONE" PROVE paysFor'[g] \in Months /\ run'[paysFor'[g]] = "POSTED"
    <3>1. registry[g] # "NONE"
      BY <1>7, <2>1
    <3>. QED
      BY <1>2, <3>1 DEF PayInv, RegistriesFine
  <2>2. ASSUME NEW g \in Registries, registry'[g] = "PAID"
        PROVE  runPosted'[paysFor'[g]] \/ \E k \in Lines : settles'[k] = g
    <3>1. CASE g = x
      BY <1>6, <3>1
    <3>2. CASE g # x
      <4>1. registry[g] = "PAID"
        BY <1>7, <2>2, <3>2
      <4>2. CASE runPosted[paysFor[g]]
        BY <1>2, <4>2
      <4>3. CASE \E k \in Lines : settles[k] = g
        <5>1. PICK k \in Lines : settles[k] = g
          BY <4>3
        <5>2. k # l
          BY <1>6, <5>1, PayrollAssumption
        <5>. QED
          BY <1>6, <5>1, <5>2
      <4>. QED
        BY <4>1, <4>2, <4>3 DEF PayInv, RegistriesFine
    <3>. QED
      BY <3>1, <3>2
  <2>3. paysFor' = [g \in Registries |-> paysFor'[g]]
    BY <1>2 DEF PayInv, RegistriesFine
  <2>. QED
    BY <1>7, <2>1, <2>2, <2>3 DEF RegistriesFine
<1>10. LinesFine'
  <2>1. \A k \in Lines : line'[k] = "MATCHED" <=> settles'[k] # None
    BY <1>6 DEF PayInv, LinesFine
  <2>2. ASSUME NEW k \in Lines, settles'[k] \in Drafts
        PROVE  draft'[settles'[k]] = "COMPLETED" /\ PayAmount[settles'[k]] = PayAmount[k]
    <3>1. CASE k = l
      BY <1>6, <1>7, <2>2, <3>1
    <3>2. CASE k # l
      <4>1. settles'[k] = settles[k] /\ draft[settles[k]] = "COMPLETED" /\ PayAmount[settles[k]] = PayAmount[k]
        BY <1>6, <2>2, <3>2 DEF PayInv, LinesFine
      <4>. QED
        BY <1>7, <2>2, <4>1
    <3>. QED
      BY <3>1, <3>2
  <2>3. ASSUME NEW k \in Lines, settles'[k] \in Registries
        PROVE  registry'[settles'[k]] = "PAID" /\ Wages[paysFor'[settles'[k]]] = PayAmount[k]
    <3>1. CASE k = l
      BY <1>2, <1>6, <1>7, <2>3, <3>1
    <3>2. CASE k # l
      <4>1. settles'[k] = settles[k] /\ registry[settles[k]] = "PAID" /\ Wages[paysFor[settles[k]]] = PayAmount[k]
        BY <1>6, <2>3, <3>2 DEF PayInv, LinesFine
      <4>. QED
        BY <1>2, <1>7, <2>3, <4>1
    <3>. QED
      BY <3>1, <3>2
  <2>. QED
    BY <1>6, <1>7, <2>1, <2>2, <2>3 DEF LinesFine
<1>11. Waits(c)' /\ Unbooked(c)'
  BY <1>4 DEF Waits, Unbooked, MatchSteps
<1>12. ASSUME NEW d \in Clients \ {c} PROVE Respects(d)
  <2>1. ~Matches(d, l)
    BY <1>1, <1>2 DEF PayInv, Single, Matches, MatchSteps
  <2>2. \A g \in Registries :
          /\ registry[g] # "NONE" => paysFor'[g] = paysFor[g]
          /\ registry[g] = "DRAFT" /\ SendsRegistry(d, g) => registry'[g] = "DRAFT"
          /\ registry[g] \in {"SENT", "PAID"} => registry'[g] \in {"SENT", "PAID"}
    BY <1>2, <1>7
  <2>3. \A p \in Drafts :
          /\ draft[p] = "PENDING" /\ SendsDraft(d, p) => draft'[p] = "PENDING"
          /\ draft[p] \in {"SENT", "COMPLETED"} => draft'[p] \in {"SENT", "COMPLETED"}
    BY <1>7
  <2>4. \A k \in Lines : line[k] = "NEW" /\ Matches(d, k) => line'[k] = "NEW"
    BY <1>6, <2>1
  <2>. QED
    BY <1>2, <2>2, <2>3, <2>4 DEF Respects
<1>13. \A d \in Clients \ {c} : /\ \A h \in Registries : SendsRegistry(c, h)' => ~SendsRegistry(d, h)
                                /\ \A q \in Drafts : SendsDraft(c, q)' => ~SendsDraft(d, q)
                                /\ \A k \in Lines : Matches(c, k)' => ~Matches(d, k)
  BY <1>4 DEF SendsRegistry, SendsDraft, Matches, MatchSteps
<1>14. ASSUME ~overlap' PROVE Once'
  <2>1. Once /\ ~overlap
    BY <1>4, <1>14 DEF PayInv, Solo
  <2>2. \A k \in Lines : settles[k] # x
    BY <1>3, <2>1 DEF PayInv, LinesFine
  <2>3. \A k, j \in Lines : settles'[k] = settles'[j] => k = j \/ settles'[k] = None
    BY <1>6, <2>1, <2>2 DEF Once
  <2>. QED
    BY <1>5, <2>1, <2>3 DEF Once
<1>. QED
  BY <1>4, <1>5, <1>8, <1>9, <1>10, <1>11, <1>12, <1>13, <1>14, PayFrame

\* Every step of the office keeps to it.
LEMMA PayrollStep == PayInv /\ [Next]_officeVars => PayInv'
<1>. SUFFICES ASSUME PayInv, [Next]_officeVars PROVE PayInv'
  OBVIOUS
<1>0. RequestsOK /\ run = [m \in Months |-> run[m]]
  BY DEF PayInv, RunsFine
<1>1. ASSUME UNCHANGED payVars, NEW kinds, Grows(kinds), "PAY" \notin kinds,
             pc' = pc, req' = req, RequestsOK', overlap' \/ ~overlap
      PROVE  PayInv'
  <2>1. /\ UNCHANGED <<runPosted, registry, paysFor, draft, line, settles>>
        /\ run' = [m \in Months |-> run'[m]] /\ \A m \in Months : run[m] = "POSTED" => run'[m] = "POSTED"
    BY <1>0, <1>1 DEF payVars
  <2>. QED
    BY <1>1, <2>1, PayInstants
<1>2. CASE UNCHANGED officeVars \/ (NextDay /\ UNCHANGED <<payVars, cashVars>>)
  <2>1. /\ pc' = pc /\ req' = req /\ overlap' = overlap /\ journal' = journal /\ UNCHANGED payVars
    BY <1>2 DEF officeVars, requestVars, ledgerVars, NextDay
  <2>2. RequestsOK' /\ (overlap' \/ ~overlap)
    BY <1>0, <2>1 DEF RequestsOK, Busy
  <2>3. Grows({})
    BY <2>1, GrowsNot
  <2>. QED
    BY <1>1, <2>1, <2>2, <2>3
<1>3. ASSUME Instant, UNCHANGED payVars, NEW kinds, Grows(kinds), "PAY" \notin kinds PROVE PayInv'
  <2>1. RequestsOK' /\ pc' = pc /\ req' = req /\ (~overlap' => ~overlap)
    BY <1>0, <1>3, InstantSolo
  <2>2. overlap' \/ ~overlap
    BY <2>1 DEF RequestsOK
  <2>. QED
    BY <1>1, <1>3, <2>1, <2>2
<1>4. CASE Drafting
  <2>1. UNCHANGED payVars /\ Grows({"PAYMENT"})
    BY <1>4, DraftingGrows DEF Drafting
  <2>2. (NextDay /\ UNCHANGED <<payVars, cashVars>>) \/ Instant
    BY <1>4, <2>1 DEF Drafting, CreateOrder
  <2>. QED
    BY <1>2, <1>3, <2>1, <2>2
<1>5. CASE \/ StaffInstant /\ UNCHANGED <<ledgerVars, cashVars, payVars, billVars>>
           \/ BillInstant /\ UNCHANGED <<ledgerVars, cashVars, payVars, staffVars>>
  <2>1. Instant /\ UNCHANGED payVars /\ journal' = journal
    BY <1>5 DEF StaffInstant, Leave, Detach, BillInstant, NextBillDay, PayInvoice, PayOrder, ledgerVars
  <2>2. Grows({})
    BY <2>1, GrowsNot
  <2>. QED
    BY <1>3, <2>1, <2>2
<1>6. ASSUME NEW c \in Clients, Closing(c) \/ Cashing(c) \/ Employing(c) \/ Billing(c) PROVE PayInv'
  <2>1. RequestsOK' /\ Solo(c) /\ pc'[c] \notin PaySteps
    <3>1. Elsewhere(c, PaySteps)
      <4>1. /\ LedgerSteps \cap PaySteps = {} /\ CashSteps \cap PaySteps = {}
            /\ StaffSteps \cap PaySteps = {} /\ BillSteps \cap PaySteps = {}
            /\ "idle" \notin LedgerSteps \cup PaySteps \cup StaffSteps \cup BillSteps \cup CashSteps
        BY DEF LedgerSteps, PaySteps, StaffSteps, BillSteps, CashSteps
      <4>. QED
        BY <1>6, <4>1, ClosingUses, CashingUses, EmployingUses, BillingUses, UsesElsewhere
    <3>. QED
      BY <1>0, <3>1, ElsewhereSolo
  <2>2. UNCHANGED payVars
    BY <1>6 DEF Closing, Cashing, Employing, Billing
  <2>3. \E kinds : Grows(kinds) /\ "PAY" \notin kinds
    <3>1. CASE Closing(c)
      BY <3>1, ClosingGrows
    <3>2. CASE Cashing(c)
      BY <3>2, CashingGrows
    <3>3. CASE Employing(c) \/ Billing(c)
      <4>1. journal' = journal
        BY <3>3 DEF Employing, Billing, ledgerVars
      <4>2. Grows({})
        BY <4>1, GrowsNot
      <4>. QED
        BY <4>2
    <3>. QED
      BY <1>6, <3>1, <3>2, <3>3
  <2>. QED
    BY <2>1, <2>2, <2>3, PayBeside
<1>7. ASSUME NEW c \in Clients, Abort(c) PROVE PayInv'
  <2>1. RequestsOK' /\ Solo(c) /\ pc'[c] = "idle"
    BY <1>0, <1>7, FinishSolo DEF Abort
  <2>2. UNCHANGED payVars /\ journal' = journal
    BY <1>7 DEF Abort, ledgerVars
  <2>3. Grows({}) /\ pc'[c] \notin PaySteps
    BY <2>1, <2>2, GrowsNot DEF PaySteps
  <2>. QED
    BY <2>1, <2>2, <2>3, PayBeside
<1>8. ASSUME NEW c \in Clients, Paying(c) PROVE PayInv'
  BY <1>8, RegistryCreated, RegistrySent, DraftCreated, DraftSent, PaidReads, PaidCommits,
     LineImported, LineReads, LineSettles DEF Paying, PayStep
<1>. QED
  BY <1>2, <1>4, <1>5, <1>6, <1>7, <1>8, PayRuns DEF Next

\* However requests overlap, the run of a month carries its transaction if and only if the
\* wages are in the journal, and without overlaps they are there once
\* (markSalaryRegistryPaid, payroll.service.ts).
THEOREM WagesBooked == Spec => []PayrollBookedOnce
BY PayInitial, PayrollStep, PayInvBooks, PTL DEF Spec

\* A matched line has settled one payout of its amount, and without overlaps no other line
\* has settled it too (autoMatchOutgoingForLine, banking.service.ts).
THEOREM LinesSettle == Spec => []PayoutPerLine
BY PayInitial, PayrollStep, PayInvSettles, PTL DEF Spec
=============================================================================
