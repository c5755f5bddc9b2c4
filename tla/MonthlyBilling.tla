--------------------------- MODULE MonthlyBilling ---------------------------
(***************************************************************************)
(* The post-paid modules of the companies of one owner, their monthly      *)
(* invoice and the blocks of companies in debt                             *)
(* (billing-monthly.service.ts, organization-module.service.ts,            *)
(* billing-toggle.service.ts, finalizePaidSubscriptionInvoice).            *)
(*                                                                         *)
(* A company has one module to turn on and off.  The monthly run is called *)
(* by a cron and by a queue job on the first of the month; it is not one   *)
(* transaction: it removes expired modules, looks for an invoice of the    *)
(* period, adds up the companies, creates the invoice, blocks, and removes *)
(* the modules pending deactivation, each on its own.                      *)
(***************************************************************************)
EXTENDS Requests

CONSTANTS
  Companies,   \* organizations of the owner, with a subscription that is not over
  Established, \* those that have had the module for long
  LastBill     \* bound of the model: the months are 1 .. LastBill

ASSUME BillingAssumption ==
  LastBill \in Nat \ {0} /\ Established \subseteq Companies /\ None \notin Companies

VARIABLES
  month,    \* the current month
  first,    \* it is the first day of the month
  plan,     \* companies whose subscription.activeModules has the module
  row,      \* OrganizationModule of each company, None without a row
  bills,    \* SubscriptionInvoice rows of the monthly run, with their items
  standing, \* organization.billingStatus
  off,      \* history: months in which a company was without the module for a time
  ended,    \* history: cancelled modules that a run has removed
  billed    \* history: months for which a run went through

billVars == <<month, first, plan, row, bills, standing, off, ended, billed>>

\* since: activatedAt; until: accessUntil, set together with cancelledAt.
Row(since, until, pending) == [since |-> since, until |-> until, pending |-> pending]

BillInit ==
  /\ month = 1 /\ first = FALSE
  /\ plan = Established
  /\ row = [b \in Companies |-> IF b \in Established THEN Row(-1, None, FALSE) ELSE None]
  /\ bills = {}
  /\ standing = [b \in Companies |-> "ACTIVE"]
  /\ off = [b \in Companies |-> IF b \in Established THEN {} ELSE {1}]
  /\ ended = {} /\ billed = {}

-----------------------------------------------------------------------------
(* Pure parts.  X_Y is a faulty variant of X that no action uses. *)

Lapsed(w, m) == w # None /\ w.until # None /\ w.until < m
Scheduled(w, m) == w # None /\ w.until # None /\ m <= w.until

\* estimatePostpaidMonthlyAznForOrganization: the first month is free.
Billable_Begun(w, p) == w # None /\ w.since <= p /\ (w.until = None \/ w.pending \/ w.until >= p)
Billable(w, p) == w # None /\ w.since < p /\ (w.until = None \/ w.pending \/ w.until >= p)

\* Invoices of the period that keep a run from creating another one.
Duplicates_Unpaid(p) == {i \in bills : i.period = p /\ ~i.paid}
Duplicates(p) == {i \in bills : i.period = p}

\* The standing of a company whose invoice is paid.
Lifted_Soft(s) == IF s = "SOFT_BLOCK" THEN "ACTIVE" ELSE s
Lifted(s) == "ACTIVE"

-----------------------------------------------------------------------------
(* Modules: toggle *)

\* toggle: the row and the subscription are read; nothing to do ends it there.
StartToggle(c, b, on) ==
  /\ IF on THEN ~(b \in plan /\ (row[b] = None \/ row[b].until = None))
           ELSE b \in plan /\ ~Scheduled(row[b], month)
  /\ Begin(c, "toggle", [op |-> "TOGGLE", company |-> b, on |-> on,
                        again |-> Scheduled(row[b], month)])
  /\ UNCHANGED billVars

\* A module that is turned on again before it ends keeps its pending deactivation.
TurnOn(b, again) ==
  IF again
    THEN /\ row' = IF row[b] = None THEN row ELSE [row EXCEPT ![b] = Row(row[b].since, None, row[b].pending)]
         /\ plan' = plan
    ELSE /\ row' = [row EXCEPT ![b] = Row(month, None, FALSE)]
         /\ plan' = plan \cup {b}

\* scheduleCancellationInTx: the module stays on until the end of the month.
TurnOff(b) ==
  /\ row' = [row EXCEPT ![b] = Row(IF row[b] = None THEN month ELSE row[b].since, month, TRUE)]
  /\ plan' = plan

CommitToggle(c) ==
  LET r == req[c]
  IN  /\ pc[c] = "toggle"
      /\ IF r.on THEN TurnOn(r.company, r.again) ELSE TurnOff(r.company)
      /\ Finish(c)
      /\ UNCHANGED <<month, first, bills, standing, off, ended, billed>>

-----------------------------------------------------------------------------
(* The monthly run *)

\* runMonthlyBilling bills the previous month.  finalizeExpiredModuleCancellations:
\* the modules that have ended are read.
StartRun(c) ==
  /\ first
  /\ Begin(c, "expired",
       [op |-> "RUN", period |-> month - 1, left |-> {b \in Companies : Lapsed(row[b], month)}, items |-> {}])
  /\ UNCHANGED billVars

\* A module is removed, whatever became of its row; a row that is gone fails the run.
Remove(c) ==
  /\ pc[c] \in {"expired", "pending"}
  /\ \E b \in req[c].left :
       IF row[b] = None
         THEN Finish(c) /\ UNCHANGED <<row, plan, off, ended>>
         ELSE /\ row' = [row EXCEPT ![b] = None]
              /\ plan' = plan \ {b}
              /\ off' = [off EXCEPT ![b] = @ \cup {month}]
              /\ ended' = ended \cup {[company |-> b, row |-> row[b]]}
              /\ Goto(c, pc[c], [req[c] EXCEPT !.left = @ \ {b}])
  /\ UNCHANGED <<month, first, bills, standing, billed>>

\* The search for an invoice of the period.
SeekInvoice(c) ==
  LET r == req[c]
  IN  /\ pc[c] = "expired" /\ r.left = {}
      /\ IF Duplicates(r.period) = {}
           THEN Goto(c, "estimate", [r EXCEPT !.left = Companies])
           ELSE Goto(c, "deactivate", r)
      /\ UNCHANGED billVars

\* One company after the other is added up.
Estimate(c) ==
  LET r == req[c]
  IN  /\ pc[c] = "estimate"
      /\ \E b \in r.left :
           Goto(c, "estimate",
             [r EXCEPT !.left = @ \ {b},
                       !.items = @ \cup (IF Billable(row[b], r.period) THEN {b} ELSE {})])
      /\ UNCHANGED billVars

\* The invoice, if there is something on it.
CreateInvoice(c) ==
  LET r == req[c]
  IN  /\ pc[c] = "estimate" /\ r.left = {}
      /\ IF r.items = {}
           THEN Goto(c, "deactivate", r) /\ bills' = bills
           ELSE /\ bills' = bills \cup {[nr |-> Cardinality(bills) + 1, period |-> r.period,
                                         items |-> r.items, paid |-> FALSE]}
                /\ Goto(c, "block", r)
      /\ UNCHANGED <<month, first, plan, row, standing, off, ended, billed>>

\* The block of the billed companies, a statement of its own.
BlockBilled(c) ==
  /\ pc[c] = "block"
  /\ standing' = [b \in Companies |-> IF b \in req[c].items THEN "SOFT_BLOCK" ELSE standing[b]]
  /\ Goto(c, "deactivate", req[c])
  /\ UNCHANGED <<month, first, plan, row, bills, off, ended, billed>>

\* finalizePendingDeactivations: the modules pending deactivation are read.
ReadPending(c) ==
  /\ pc[c] = "deactivate"
  /\ Goto(c, "pending",
       [req[c] EXCEPT !.left = {b \in Companies : row[b] # None /\ row[b].pending}])
  /\ UNCHANGED billVars

EndRun(c) ==
  /\ pc[c] = "pending" /\ req[c].left = {}
  /\ billed' = billed \cup {req[c].period}
  /\ Finish(c)
  /\ UNCHANGED <<month, first, plan, row, bills, standing, off, ended>>

-----------------------------------------------------------------------------
(* The escalation and the payment *)

\* runHardBlockEscalationCron on the sixth: the companies with a soft block.
StartEscalation(c) ==
  LET soft == {b \in Companies : standing[b] = "SOFT_BLOCK"}
  IN  /\ ~first /\ soft # {}
      /\ Begin(c, "unpaid", [op |-> "ESCALATE", period |-> month - 1, hard |-> soft])
      /\ UNCHANGED billVars

\* Those of them with an unpaid invoice of the previous month.
ReadUnpaid(c) ==
  LET r == req[c]
      unpaid == {b \in r.hard : \E i \in bills : i.period = r.period /\ ~i.paid /\ b \in i.items}
  IN  /\ pc[c] = "unpaid"
      /\ IF unpaid = {} THEN Finish(c) ELSE Goto(c, "hard", [r EXCEPT !.hard = unpaid])
      /\ UNCHANGED billVars

\* They are blocked, whatever was paid meanwhile.
BlockHard(c) ==
  /\ pc[c] = "hard"
  /\ standing' = [b \in Companies |-> IF b \in req[c].hard THEN "HARD_BLOCK" ELSE standing[b]]
  /\ Finish(c)
  /\ UNCHANGED <<month, first, plan, row, bills, off, ended, billed>>

\* finalizePaidSubscriptionInvoice, also of an invoice that is paid.
PayInvoice(i) ==
  /\ bills' = (bills \ {i}) \cup {[i EXCEPT !.paid = TRUE]}
  /\ standing' = [b \in Companies |-> IF b \in i.items THEN Lifted(standing[b]) ELSE standing[b]]
  /\ Instant
  /\ UNCHANGED <<month, first, plan, row, off, ended, billed>>

\* recordPaidOrderInvoice of another payment of the company lifts its block too.
PayOrder(b) ==
  /\ standing[b] # "ACTIVE"
  /\ standing' = [standing EXCEPT ![b] = "ACTIVE"]
  /\ Instant
  /\ UNCHANGED <<month, first, plan, row, bills, off, ended, billed>>

\* The first of the next month, and the days after it; midnight may pass while a
\* request is under way.
NextBillDay ==
  /\ first \/ month < LastBill
  /\ first' = ~first
  /\ month' = IF first THEN month ELSE month + 1
  /\ off' = [b \in Companies |-> IF b \in plan THEN off[b] ELSE off[b] \cup {month'}]
  /\ Instant
  /\ UNCHANGED <<plan, row, bills, standing, ended, billed>>

-----------------------------------------------------------------------------
BillInstant == NextBillDay \/ (\E i \in bills : PayInvoice(i)) \/ (\E b \in Companies : PayOrder(b))

BillStart(c) ==
  \/ \E b \in Companies, on \in BOOLEAN : StartToggle(c, b, on)
  \/ StartRun(c)
  \/ StartEscalation(c)

BillStep(c) ==
  \/ CommitToggle(c)
  \/ Remove(c) \/ SeekInvoice(c) \/ Estimate(c) \/ CreateInvoice(c) \/ BlockBilled(c)
  \/ ReadPending(c) \/ EndRun(c)
  \/ ReadUnpaid(c) \/ BlockHard(c)

\* A crash, a time-out or a refusal.
BillAbort(c) == Busy(c) /\ Finish(c) /\ UNCHANGED billVars

\* Requests of other components run beside: they use clients and no row of this one.
BillSteps == {"toggle", "expired", "estimate", "block", "deactivate", "pending", "unpaid", "hard"}

BillBeside(c) == Elsewhere(c, BillSteps) /\ UNCHANGED billVars

BillNext ==
  \/ BillInstant
  \/ Instant /\ UNCHANGED billVars
  \/ \E c \in Clients : BillStart(c) \/ BillStep(c) \/ BillAbort(c) \/ BillBeside(c)

BillSpec == (BillInit /\ RequestInit) /\ [][BillNext]_<<billVars, requestVars>>

-----------------------------------------------------------------------------
(* Properties *)

\* One invoice of the owner for a month, however often a run is repeated, after a
\* crash and after a payment too, unless two runs overlap.  "один счёт на owner +
\* billingPeriod за месяц; повторный запуск cron не создаёт дубль".
OneInvoicePerMonth ==
  overlap \/ \A i, j \in bills : i.period = j.period => i = j

\* A blocked company has an unpaid invoice: a payment lifts the block, also a hard
\* one, and neither a repeated run nor the escalation brings it back, unless they
\* overlap with it.
BlockFollowsDebt ==
  overlap \/ \A b \in Companies : standing[b] # "ACTIVE" => \E i \in bills : ~i.paid /\ b \in i.items

\* A company is invoiced only for months through which it had the module from their
\* first day on: the month of the activation is free.
OnlyFullMonthsBilled ==
  overlap \/ \A i \in bills : \A b \in i.items : i.period \notin off[b]

\* A cancelled module that a run has removed was invoiced for its last month, if
\* the run went through.  "1-го числа формируется последний счёт и модуль
\* отключается".
LastMonthBilled ==
  \A e \in ended :
    e.row.until \in billed /\ e.row.since < e.row.until
      => \E i \in bills : i.period = e.row.until /\ e.company \in i.items
=============================================================================
