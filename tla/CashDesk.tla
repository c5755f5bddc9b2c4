------------------------------ MODULE CashDesk ------------------------------
(***************************************************************************)
(* Cash orders and advance reports (cash-order.service.ts) and the quick   *)
(* cash expense, over the journal of Ledger.                               *)
(*                                                                         *)
(* A receipt (KMO) or payout (KXO) is drafted on any day and posted later; *)
(* the draft status, the test for a gap of cash and the settings are read  *)
(* one after the other, before or at the start of the transaction that     *)
(* posts.  An order that an invoice payment created is only marked.        *)
(***************************************************************************)
EXTENDS Ledger

CONSTANTS
  Orders,     \* cash orders and advance reports
  Kind,       \* "KMO", "KXO", "LINKED" or "REPORT"
  CashAmount  \* their amounts

ASSUME CashAssumption ==
  \A o \in Orders : Kind[o] \in {"KMO", "KXO", "LINKED", "REPORT"} /\ CashAmount[o] \in Nat \ {0}

VARIABLES
  order,     \* status of each order, "NONE" before it is drafted
  dated,     \* its date, 0 before it is drafted
  unguarded  \* history: cash was paid out without the test for a gap

cashVars == <<order, dated, unguarded>>

CashInit ==
  /\ order = [o \in Orders |-> "NONE"]
  /\ dated = [o \in Orders |-> 0]
  /\ unguarded = FALSE

\* The cash of a day, entries that are not final included.
CashOn(d) == BalanceOf({e \in journal : e.account = Cash /\ e.day <= d})

Order(o) == <<"ORDER", o>>

-----------------------------------------------------------------------------
(* Pure parts.  X_Y is a faulty variant of X that no action uses. *)

\* assertBackdatedRkoNoCashGap: a payout of an earlier day leaves no day until
\* today short of cash.
Backdated(o) == Kind[o] = "KXO" /\ dated[o] < today
NoGap_OwnDay(o) == Backdated(o) => CashOn(dated[o]) >= CashAmount[o]
NoGap(o) == Backdated(o) => \A d \in dated[o] .. today : CashOn(d) >= CashAmount[o]

\* What posting an order books.
Booking_Always(o) ==
  {[Entry(Order(o), Cash, dated[o], IF Kind[o] = "KXO" THEN - CashAmount[o] ELSE CashAmount[o])
      EXCEPT !.final = (Kind[o] # "LINKED")]}
Booking(o) ==
  CASE Kind[o] = "KMO" -> {Entry(Order(o), Cash, dated[o], CashAmount[o])}
    [] Kind[o] = "KXO" -> {Entry(Order(o), Cash, dated[o], - CashAmount[o])}
    [] Kind[o] = "REPORT" -> {Entry(Order(o), Accountable, dated[o], - CashAmount[o])}
    [] OTHER -> {}

-----------------------------------------------------------------------------
\* createDraftPko, createDraftRko, createAdvanceReportDraft, and
\* createAutoFromInvoicePayment with the posting of the payment it belongs to.
CreateOrder(o, d) ==
  /\ order[o] = "NONE"
  /\ order' = [order EXCEPT ![o] = "DRAFT"]
  /\ dated' = [dated EXCEPT ![o] = d]
  /\ IF Kind[o] = "LINKED"
       THEN /\ Open(settings, d) \/ (d = today /\ OpenTimed(settings, d))
            /\ journal' = journal \cup
                 {[Entry(<<"PAYMENT", o>>, Cash, d, CashAmount[o]) EXCEPT !.final = FALSE]}
       ELSE journal' = journal
  /\ Instant
  /\ UNCHANGED <<today, settings, snap, accrued, booked, disorder, unguarded>>

\* postOrder, postAdvanceReport: the status.
StartPost(c, o) ==
  /\ order[o] = "DRAFT"
  /\ Begin(c, IF Kind[o] = "LINKED" THEN "mark" ELSE "gap", [op |-> "POST", order |-> o])
  /\ UNCHANGED ledgerVars /\ UNCHANGED cashVars

\* The test for a gap.
TestGap(c) ==
  LET o == req[c].order
  IN  /\ At(c, "POST", "gap")
      /\ IF NoGap(o)
           THEN Goto(c, "open", [op |-> "POST", order |-> o, tested |-> Backdated(o)])
           ELSE Finish(c)
      /\ UNCHANGED ledgerVars /\ UNCHANGED cashVars

\* postJournalInTransaction: the settings.
TestOpen(c) ==
  /\ At(c, "POST", "open")
  /\ CheckOpen(c, Open(settings, dated[req[c].order]), "book")
  /\ UNCHANGED ledgerVars /\ UNCHANGED cashVars

\* The entries, the status, the commit; of a linked order only the status.
BookOrder(c) ==
  LET o == req[c].order
  IN  /\ pc[c] \in {"book", "mark"} /\ req[c].op = "POST"
      /\ journal' = journal \cup Booking(o)
      /\ order' = [order EXCEPT ![o] = "POSTED"]
      /\ unguarded' = (unguarded \/ (Kind[o] = "KXO" /\ ~req[c].tested))
      /\ Finish(c)
      /\ UNCHANGED <<today, settings, snap, accrued, booked, disorder, dated>>

\* manualCashOut and the quick expense: a journal entry without an order, of a given
\* date or of now.
StartExpense(c, d) ==
  /\ Open(settings, d) \/ (d = today /\ OpenTimed(settings, d))
  /\ Begin(c, "spend", [op |-> "EXPENSE", day |-> d])
  /\ UNCHANGED ledgerVars /\ UNCHANGED cashVars

Spend(c) ==
  /\ At(c, "EXPENSE", "spend")
  /\ journal' = journal \cup {Entry(<<"EXPENSE", req[c].day>>, Cash, req[c].day, -1)}
  /\ unguarded' = TRUE
  /\ Finish(c)
  /\ UNCHANGED <<today, settings, snap, accrued, booked, disorder, order, dated>>

CashStep(c) == TestGap(c) \/ TestOpen(c) \/ BookOrder(c) \/ Spend(c)

-----------------------------------------------------------------------------
(* Properties *)

\* An order is posted exactly if its entry is in the journal, a linked one has no
\* entry of its own, and unless requests overlap no order is booked twice.
CashBookedOnce ==
  \A o \in Orders :
    LET n == Cardinality(Postings(Order(o)))
    IN  /\ (Kind[o] # "LINKED" /\ order[o] = "POSTED") <=> n > 0
        /\ overlap \/ n <= 1

\* As long as every payout is an order of an earlier day, posted without overlap,
\* the cash is negative on no day up to today, whatever is posted before, between
\* and after those days.
NoCashGap ==
  overlap \/ unguarded \/ \A d \in 1 .. today : CashOn(d) >= 0
=============================================================================
