--------------------------- MODULE PaymentOrders ---------------------------
(***************************************************************************)
(* Payment orders of the subscription of one organization                  *)
(* (payment-provider.service.ts, billing.service.ts,                       *)
(* billing-platform.service.ts).                                           *)
(*                                                                         *)
(* A checkout creates a PENDING order; the bank reports "failed" or        *)
(* "success" by webhooks that may be repeated and arrive in any order.  A  *)
(* handler finalizes a successful order in one READ COMMITTED transaction: *)
(* it reads the order without a lock, marks it PAID by a conditional       *)
(* update (and locks it until it commits), reads the subscription, writes  *)
(* the new expiry and records the platform invoice.  Nothing of that is    *)
(* visible to others before the commit, so the writes are one action with  *)
(* it; the order's row lock is held from the conditional update on.        *)
(***************************************************************************)
EXTENDS Integers, FiniteSets

CONSTANTS
  Handlers,   \* concurrent webhook requests
  Orders,     \* orders of the organization
  Months,     \* order.monthsApplied
  MaxMonth,   \* bound of the model: the last month of the clock
  MaxAborts,  \* bound of the model: transactions that are rolled back
  None

ASSUME OrdersAssumption ==
  /\ Months \in [Orders -> Nat \ {0}]
  /\ MaxMonth \in Nat /\ MaxAborts \in Nat
  /\ None \notin Orders

VARIABLES
  clock,    \* the current month
  order,    \* status of each order, "NONE" before its checkout
  expires,  \* subscription.expiresAt: the month up to which it is paid
  trial,    \* subscription.isTrial
  blocked,  \* organization.billingStatus is not ACTIVE
  invoices, \* SubscriptionInvoice rows of each order
  granted,  \* history: how often each order has extended the subscription
  wire,     \* notifications of the bank, never consumed: they may be repeated
  pc,       \* where each handler is
  job,      \* its order
  base,     \* the expiry its transaction starts from
  aborts    \* transactions rolled back so far

vars == <<clock, order, expires, trial, blocked, invoices, granted, wire, pc, job, base, aborts>>

Statuses == {"NONE", "PENDING", "PAID", "FAILED"}
Steps == {"idle", "begin", "mark", "marked", "extend", "record"}

Init ==
  /\ clock = 0
  /\ order = [o \in Orders |-> "NONE"]
  /\ expires = 0
  /\ trial = TRUE
  /\ blocked = FALSE
  /\ invoices = [o \in Orders |-> 0]
  /\ granted = [o \in Orders |-> 0]
  /\ wire = {}
  /\ pc = [h \in Handlers |-> "idle"]
  /\ job = [h \in Handlers |-> None]
  /\ base = [h \in Handlers |-> 0]
  /\ aborts = 0

\* Pure parts.  X_Y is a faulty variant of X that no action uses.

Later_Left(a, b) == b - a
Later(a, b) == IF a > b THEN a ELSE b

\* The condition of the updateMany that marks an order PAID.
Markable_Any(o) == TRUE
Markable(o) == order[o] = "PENDING"

\* The condition of the updateMany that marks an order FAILED.
MayFail_Any(o) == order[o] # "NONE"
MayFail(o) == order[o] = "PENDING"

\* The statuses with which finalizePaidOrder goes on to mark the order.
Payable_New(s) == s = "NONE"
Payable(s) == s = "PENDING"

\* recordPaidOrderInvoice: at most one invoice for an order.
Recorded_Again(n) == n + 1
Recorded(n) == IF n = 0 THEN 1 ELSE n

-----------------------------------------------------------------------------
\* createOrder
Checkout(o) ==
  /\ order[o] = "NONE"
  /\ order' = [order EXCEPT ![o] = "PENDING"]
  /\ UNCHANGED <<clock, expires, trial, blocked, invoices, granted, wire, pc, job, base, aborts>>

\* The bank declines an attempt to pay; another attempt may follow.
Decline(o) ==
  /\ order[o] # "NONE" /\ <<o, "success">> \notin wire
  /\ wire' = wire \cup {<<o, "failed">>}
  /\ UNCHANGED <<clock, order, expires, trial, blocked, invoices, granted, pc, job, base, aborts>>

\* The bank collects the money (or the user follows the link of the mock payment).
Collect(o) ==
  /\ order[o] # "NONE"
  /\ wire' = wire \cup {<<o, "success">>}
  /\ UNCHANGED <<clock, order, expires, trial, blocked, invoices, granted, pc, job, base, aborts>>

\* The handler has marked the order and not committed yet.
Holds(h, o) == job[h] = o /\ pc[h] \in {"marked", "extend"}
Held(h, o) == \E g \in Handlers \ {h} : Holds(g, o)

\* handleWebhook of a failed payment: one conditional update, which waits for a
\* lock on the order.
FailOrder(o) ==
  /\ <<o, "failed">> \in wire
  /\ ~\E h \in Handlers : Holds(h, o)
  /\ MayFail(o)
  /\ order' = [order EXCEPT ![o] = "FAILED"]
  /\ UNCHANGED <<clock, expires, trial, blocked, invoices, granted, wire, pc, job, base, aborts>>

-----------------------------------------------------------------------------
Goto(h, step) == pc' = [pc EXCEPT ![h] = step]

End(h) ==
  /\ Goto(h, "idle")
  /\ job' = [job EXCEPT ![h] = None]
  /\ base' = [base EXCEPT ![h] = 0]

\* handleWebhook of a successful payment, confirmPaymentOrder
Receive(h, o) ==
  /\ pc[h] = "idle" /\ <<o, "success">> \in wire
  /\ Goto(h, "begin")
  /\ job' = [job EXCEPT ![h] = o]
  /\ UNCHANGED <<clock, order, expires, trial, blocked, invoices, granted, wire, base, aborts>>

\* finalizePaidOrder: the first read of the order.
ReadOrder(h) ==
  LET s == order[job[h]]
  IN  /\ pc[h] = "begin"
      /\ \/ s = "PAID" /\ Goto(h, "record") /\ UNCHANGED <<job, base>>
         \/ s # "PAID" /\ Payable(s) /\ Goto(h, "mark") /\ UNCHANGED <<job, base>>
         \/ s # "PAID" /\ ~Payable(s) /\ End(h)
      /\ UNCHANGED <<clock, order, expires, trial, blocked, invoices, granted, wire, aborts>>

\* The conditional update, when it finds the order pending.
Mark(h) ==
  /\ pc[h] = "mark" /\ ~Held(h, job[h]) /\ Markable(job[h])
  /\ Goto(h, "marked")
  /\ UNCHANGED <<clock, order, expires, trial, blocked, invoices, granted, wire, job, base, aborts>>

\* The conditional update, when another handler or a decline came first.
MarkNothing(h) ==
  /\ pc[h] = "mark" /\ ~Held(h, job[h]) /\ ~Markable(job[h])
  /\ \/ order[job[h]] = "PAID" /\ Goto(h, "record") /\ UNCHANGED <<job, base>>
     \/ order[job[h]] # "PAID" /\ End(h)
  /\ UNCHANGED <<clock, order, expires, trial, blocked, invoices, granted, wire, aborts>>

\* extendSubscriptionByMonths: the read of the subscription.
ReadSubscription(h) ==
  /\ pc[h] = "marked"
  /\ base' = [base EXCEPT ![h] = Later(clock, expires)]
  /\ Goto(h, "extend")
  /\ UNCHANGED <<clock, order, expires, trial, blocked, invoices, granted, wire, job, aborts>>

\* recordPaidOrderInvoice: a new invoice lifts a block of the organization.
Invoice(o) ==
  /\ invoices' = [invoices EXCEPT ![o] = Recorded(@)]
  /\ blocked' = (blocked /\ Recorded(invoices[o]) = invoices[o])

\* The write of the new expiry, the invoice and the commit.
Commit(h) ==
  LET o == job[h]
  IN  /\ pc[h] = "extend"
      /\ order' = [order EXCEPT ![o] = "PAID"]
      /\ expires' = base[h] + Months[o]
      /\ granted' = [granted EXCEPT ![o] = @ + 1]
      /\ trial' = FALSE
      /\ Invoice(o)
      /\ End(h)
      /\ UNCHANGED <<clock, wire, aborts>>

\* An order that was paid before: only a missing invoice is added.
RecordInvoice(h) ==
  /\ pc[h] = "record"
  /\ Invoice(job[h])
  /\ End(h)
  /\ UNCHANGED <<clock, order, expires, trial, granted, wire, aborts>>

\* The transaction is rolled back: a crash, a lost connection, a timeout.
Abort(h) ==
  /\ pc[h] # "idle" /\ aborts < MaxAborts
  /\ aborts' = aborts + 1
  /\ End(h)
  /\ UNCHANGED <<clock, order, expires, trial, blocked, invoices, granted, wire>>

\* The monthly billing blocks the organization for another debt.
Block ==
  /\ ~blocked
  /\ blocked' = TRUE
  /\ UNCHANGED <<clock, order, expires, trial, invoices, granted, wire, pc, job, base, aborts>>

NextMonth ==
  /\ clock < MaxMonth
  /\ clock' = clock + 1
  /\ UNCHANGED <<order, expires, trial, blocked, invoices, granted, wire, pc, job, base, aborts>>

-----------------------------------------------------------------------------
Finalize(h) ==
  \/ ReadOrder(h)
  \/ Mark(h)
  \/ MarkNothing(h)
  \/ ReadSubscription(h)
  \/ Commit(h)
  \/ RecordInvoice(h)

Next ==
  \/ \E o \in Orders : Checkout(o) \/ Decline(o) \/ Collect(o) \/ FailOrder(o)
  \/ \E h \in Handlers : Finalize(h) \/ Abort(h) \/ \E o \in Orders : Receive(h, o)
  \/ Block
  \/ NextMonth

Spec == Init /\ [][Next]_vars

\* A handler that runs goes on (the event loop and the database answer), and the
\* bank repeats the notification of a collected payment.
Fairness ==
  /\ \A h \in Handlers : WF_vars(Finalize(h))
  /\ \A o \in Orders : SF_vars(\E h \in Handlers : Receive(h, o))

FairSpec == Spec /\ Fairness

-----------------------------------------------------------------------------
(* Properties *)

\* Types of the variables.
TypeOK ==
  /\ clock \in Nat /\ expires \in Nat /\ aborts \in Nat
  /\ trial \in BOOLEAN /\ blocked \in BOOLEAN
  /\ order \in [Orders -> Statuses]
  /\ invoices \in [Orders -> Nat]
  /\ granted \in [Orders -> Nat]
  /\ wire \subseteq Orders \X {"success", "failed"}
  /\ pc \in [Handlers -> Steps]
  /\ job \in [Handlers -> Orders \cup {None}]
  /\ base \in [Handlers -> Nat]

\* However often and by however many handlers a payment is reported, its order
\* extends the subscription exactly once, and it is invoiced exactly once.
AppliedOnce ==
  \A o \in Orders :
    /\ granted[o] = (IF order[o] = "PAID" THEN 1 ELSE 0)
    /\ invoices[o] = granted[o]

\* An order that is paid or failed stays so, whichever notification comes later.
OutcomeIsFinal ==
  [][\A o \in Orders : order[o] \in {"PAID", "FAILED"} => order'[o] = order[o]]_vars

\* A collected payment ends up applied, unless a declined attempt was reported too.
CollectedIsApplied ==
  \A o \in Orders :
    <<o, "success">> \in wire ~> (order[o] = "PAID" \/ <<o, "failed">> \in wire)

\* A paid order adds its months to what was paid before.  extendSubscriptionByMonths:
\* "extends by N calendar months from max(now, expiresAt)".
MonthsAreAdded ==
  [][\A o \in Orders : order[o] # "PAID" /\ order'[o] = "PAID"
       => expires' >= expires + Months[o]]_vars
=============================================================================
