# Formal models of the DayDay ERP API

This directory holds TLA+ models of the accounting core of the DayDay ERP API
(`src/apps/api`), the TLC configurations that check them and proofs that TLAPS
checks.  Everything is written from the TypeScript source; documents
(`TZ.md`, `PRD.md`, comments of `schema.prisma`) are only quoted where they say
what the code is meant to do.

## 1. The system

The API is a NestJS server over PostgreSQL (Prisma), with Redis (BullMQ queues,
cache, idempotency keys) beside it.  A request runs a handler; a handler reads,
checks, and runs one or several `prisma.$transaction` blocks.  Only
`employees.service.ts:75` asks for `Serializable`; every other transaction runs at
PostgreSQL's default READ COMMITTED and no query takes `FOR UPDATE`.  Hence the
facts that shape every model here:

* a read in a handler or a transaction may be stale when the handler writes;
* an `UPDATE` waits for the row lock, `{increment: x}` is applied to the newest
  row, `{set: v}` overwrites it with what was computed earlier;
* `updateMany` with a condition re-evaluates the condition on the newest row;
* a transaction's writes appear together at its commit, or not at all.

### Inventory

| component (source) | state | operations | hard behaviour | correct when | model |
|---|---|---|---|---|---|
| Settlement of sales invoices (`invoices`, `banking/bank-match`, `accounting/netting`, `signature`) | invoice status, `paidAmount`, payment rows, revenue flag, journal totals 211/531/cash/bank, registry, cash orders, bank lines, signature logs | `updateStatus`, `recordPayment`, `allocatePaymentAcrossInvoices`, `confirmMatch`, `createNetting`, `initiateInvoiceSignature`, status poll | five code paths write the same rows; check-then-write at READ COMMITTED; FIFO allocation over several rows | sub-ledger = ledger, revenue before money, paid = sum of payments, no overpayment, signed invoices frozen | `Receivables`, `OpenItems` |
| Subscription billing: payment orders (`billing/payment-provider`, `billing-platform`, `billing.service`) | payment orders, platform invoices, subscription expiry, billing status | checkout, webhook, finalization | webhooks at least once, reordered, concurrent; rollbacks; late payments | an order is applied and invoiced once, outcomes are final, collected money is applied in the end | `PaymentOrders` |
| Billing cycle (`billing/billing-monthly*`, `billing-toggle`, `organization-module`) | monthly invoices, module rows, `activeModules`, billing status | monthly run (cron and queue worker), toggle, escalation, payment of an invoice | two schedulers at the same minute; per-row statements without a transaction; crashes between them | one invoice per owner and month, only full months billed, a block follows the debt | `MonthlyBilling` |
| Stock (`inventory`, `stock`) | quantity and average cost per product and warehouse, movements, cost journals | purchase, transfer, sale, adjustment, posting of adjustments | read-modify-write of absolute values; averages; FIFO layers | stock = sum of movements, never negative, FIFO layers are the stock, the journal follows the movements | `Stock` |
| Inventory audit | drafts with counted lines | sync, approve | counted differences against a moving stock; approval twice | applied once, to the stock it was counted for | `Stock` |
| Ledger and month close (`accounting`, `reporting`) | journal, stored balances, closed months and locked-until in one JSON document | post, close, lock, trial balance | read-modify-write of the settings document, sums taken while others post | the stored balances of a close are those of the journal, then and later | `Ledger` |
| Fixed assets (`fixed-assets/depreciation`) | booked depreciation, one row per asset and month | depreciation within a close or alone | retried and overlapping closes, the remainder in the last month | rows = account 112 = booked, never beyond the value | `Ledger` |
| Cash desk (`kassa`, `banking.service` manual cash) | cash orders, advance reports | draft, post, expense, receipt of an invoice payment | status check outside the transaction, backdated payouts | booked once, no day short of cash | `CashDesk` |
| Payroll and bank outflows (`hr/payroll`, `banking-gateway`, `banking.service`) | runs, salary registries, payment drafts, statement lines | draft run, post, registry, paid, draft, import with automatic match | all checks outside the transactions, two ways to mark a registry paid, the bank may not answer | wages booked once, a payout settled by one line | `Payroll` |
| HR structure (`hr/employees`, `hr/org-structure`) | positions with slots, employees, departments | hire, move, leave, change of slots, new parent | serializable count against READ COMMITTED writers; a cycle search over unlocked rows | slots suffice, departments form trees | `Staffing` |
| Manufacturing | recipes, stock rows of material, product and scrap | release, edit of a recipe | several rows in one transaction, each written as an absolute value | the value that goes out comes in | `Stock` |
| Audit log | hash chain | append, verify, archive | two appends read the same tail | - | not modelled |
| Calls of banks (`integrations/integration-reliability`, `banking/banking-gateway`, `banking/bank-providers`) | errors in a row and open circuit, once in the memory of the gateway and once in Redis; claimed keys; status of drafts | payment draft, salary file, balances, each with retries and a renewed token | lost answers, one loop of retries within another, Redis failing after the bank confirmed, restarts, keys and circuits that run out | an instruction is taken no more often than it is tried, what was confirmed is not repeated, circuits close again | `BankCalls` |
| Quotas | counts | create employee, organization, invoice | check-then-create | limit not exceeded | not modelled |

Not modelled: the audit log (verification recomputes each row alone, `audit.service.ts` never
compares `prevHash` with the row before it, and the hashed document is read back from a JSONB
column that reorders its keys: there is no property of a chain that the code maintains),
quotas (a count and a later creation, on which nothing else depends), FX downloads and
revaluation, treasury items, authentication, organizations and holdings, chart of accounts,
counterparties, products, reports and exports, opening balances, platform administration,
PDF, mail and storage, Prisma extensions, the web client.  The latter are record keeping with
validation, read-only aggregation or input and output; `PROJECT.json` names each with
its reason.

How components meet: `confirmMatch` (banking) calls
`applyBankPaymentInTransaction` (invoices); every payment path calls the journal
(`postJournalInTransaction`), the bank and cash registry and, for account 101, the cash
desk (`createAutoFromInvoicePayment`) inside its own transaction; shipment calls
stock; the close of a month calls depreciation, and every posting reads the settings that
the close writes; the cash desk and the payroll post into the journal the close sums up;
a statement line settles what payroll sent to the bank; what the bank does with a draft or a
salary file is in `BankCalls`, of which `Payroll` keeps the result (confirmed or not); every mutation appends to the audit log
after it returned; billing switches the modules that guards read.

## 2. Modules

| module | what it is | state of the code it models |
|---|---|---|
| `OpenItems` | abstract specification: bill once, settle never beyond the total, signed items frozen | none of its own; refined by `Receivables` |
| `Receivables` | settlement of the invoices of one counterparty | `Invoice`, `InvoicePayment`, journal totals, bank statement lines, signature logs, requests in flight |
| `MCReceivables` | constants of its runs | |
| `Receivables_proofs`, `Serial_proofs` | theorems: however requests overlap; one request at a time, with the refinement of `OpenItems` | |
| `PaymentOrders` | payment orders of one organization's subscription | `PaymentOrder`, `OrganizationSubscription.expiresAt/isTrial`, `Organization.billingStatus`, `SubscriptionInvoice`, webhooks in flight |
| `MCPaymentOrders` | constants of its run alone | |
| `BankCalls` | the calls of one bank | `BankingGatewayService.failures/openUntil`, `consecutive_5xx`, `open_until` and `idempotency` in Redis, `BankPaymentDraft.status`, registries in flight, calls in flight |
| `Providers` | what the system exchanges with banks: `PaymentOrders` and `BankCalls` side by side | |
| `MCProviders` | constants of its run | |
| `Providers_proofs` | theorems of `PaymentOrders`, `BankCalls` and `Providers` | |
| `Stock` | one product in several warehouses and what is made of it | `StockItem`, `StockMovement`, balance of accounts 201/204, invoices' `inventorySettled`, `InventoryAdjustment` and `InventoryAudit` documents |
| `MCStock` | constants of its runs | |
| `Stock_proofs` | theorems | |
| `Requests` | requests of clients in steps: start, continuation, end, and whether two overlapped | the event loop and the transactions of PostgreSQL |
| `Ledger` (extends `Requests`) | journal, close of a month, depreciation, settings document, opening balances | `Transaction`/`JournalEntry`, `AccountBalance`, `Organization.settings`, `FixedAsset*` |
| `CashDesk`, `Payroll` (extend `Ledger`) | cash orders; payroll with drafts and bank lines | `CashOrder`, `AdvanceReport`; `PayrollRun`, `SalaryRegistry`, `BankPaymentDraft`, `BankStatementLine` |
| `Staffing`, `MonthlyBilling` (extend `Requests`) | positions, departments; modules, monthly invoices, blocks | `Employee`, `JobPosition`, `Department`; `OrganizationModule`, `SubscriptionInvoice`, `Organization.billingStatus` |
| `BackOffice` | composition of the five: every request of one may overlap with those of the others | |
| `MCBackOffice` | constants of its runs | |
| `BackOffice_proofs` | theorems of `Staffing` and `MonthlyBilling`, and that `BackOffice` implements both | |
| `Booking_proofs` (extends `BackOffice_proofs`) | theorems of the bookings of cash desk and payroll | |
| `Ledger_proofs` (extends `Booking_proofs`) | theorems of depreciation, opening balances and cash; the types of the back office | |
| `Sums`, `Sums_proofs` | sums over finite sets, with which `Receivables`, `Stock` and `Ledger` state totals and balances; their laws | |

`PROJECT.json` ("map") gives the source lines of every definition.  A definition
`X_Y` next to `X` is a faulty variant that no action uses; it stands for a bug
somebody could plausibly make, and the property named with it in "mutants" detects
it.

### How a transaction becomes actions

A request is a client (`pc`, `req`); what it has read so far is in variables of its
own (`seen`, `plan`, `work`, `base`).  Each unlocked read that later decides
something is an action.  The statements from the last row lock a transaction waits
for to its commit are one action: nobody sees them earlier, nobody changes the locked
row in between.  A transaction that locks several rows one after the other keeps its
versions (`mine` in `Receivables`; the control points `target2` in `Stock`, `marked`
and `extend` in `PaymentOrders`) and others wait for them.  An absolute value written
from an old read is therefore a lost update, an increment is not, and a conditional
`updateMany` tests the row as it is at that moment.  `Abort` is available in every
control state: it stands for every early return, exception, time-out, deadlock victim
and crash before the commit; what it leaves behind is what the code's transaction
boundaries leave behind.  `Abort` being always possible is also why the models never
deadlock, even where PostgreSQL would break a cycle of row locks by killing one
transaction.  A model only stops where its bounds are used up: the configurations of
`Stock` and of the back office turn the deadlock check off for that.

### Receivables

| action | code |
|---|---|
| `AcceptStatus`, `AcceptPay` | the role check on the status read before the transaction (`invoice-finance.policy.ts`, `invoices.service.ts:198,336`) |
| `AcceptMatch` | `bank-match.service.ts`: the line is read before the transaction |
| `AcceptNetting` | `netting.service.ts`: both limits are computed before the transaction |
| `ReadInvoice` | the first read of `updateStatus` and `recordPayment`, with the refusals that follow it |
| `CommitSent`, `CommitPaid`, `RefreshPaid` + `CommitNothingLeft` | the three ways through `updateStatus` |
| `CommitPay` | `recordPayment` |
| `FindInvoice`, `FindPayable`, `FindLeft` | the three unlocked reads of `confirmMatch` and `applyBankPaymentInTransaction` (`bank-match.service.ts:119`, `invoices.service.ts:605,631`); the last one is locked, and part of the commit, where the invoice has just been recognized |
| `MatchPaid`, `CommitMatch` | `confirmMatch`, for a paid and for an open invoice |
| `ReadOpen`, `ReadBucket`, `WriteBucket`, `CommitMulti` | `allocatePaymentAcrossInvoices` and `createNetting`: candidates, then read and write of each invoice in FIFO order, then journal and commit |
| `DropPending`, `CreatePending`, `PollSignature` | `initiateInvoiceSignature` and the status poll that completes a session |

Money is whole numbers of the smallest unit.  `rows` is the sum of an invoice's
`InvoicePayment` rows.  Journals are turnovers of the accounts the properties are
about (211, 101, 221, 531, exchange gain).  Not in the model: creation of invoices
(they exist from the start as drafts), VAT, e-mail and PDF, several counterparties,
the search for match candidates.  The stock issue that a recognition triggers is
`Stock`'s sale.

### PaymentOrders

| action | code |
|---|---|
| `Checkout` | `createOrder` |
| `Decline`, `Collect` | the bank: notifications stay on `wire` for ever, so they can be repeated and reordered at will; `Collect` is also `confirmPaymentOrder` of the mock provider |
| `FailOrder` | `handleWebhook` of a failure, one conditional update |
| `Receive`, `ReadOrder`, `Mark`, `MarkNothing`, `ReadSubscription`, `Commit`, `RecordInvoice` | `finalizePaidOrder` with `extendSubscriptionByMonths` and `recordPaidOrderInvoice` |
| `Block` | the monthly billing, seen from here |

An order that was declined is FAILED for good: money that comes later for it is not
applied.  `CollectedIsApplied` says so explicitly.  `createProRataModuleOrder` and
`mockExtendOneMonth` are called by no endpoint and are left out, as are prices.
`admin.service.ts` also rewrites `expiresAt`; it would lose months like two orders do.

### BankCalls

| action | code |
|---|---|
| `SendDraft`, `ReadBalances` | `sendPaymentDraft`, `getBalances` of the gateway, let through by `assertCircuitClosed` |
| `SendTransfer` | `prepareSalaryRegistry` for ABB, which does not ask the gateway's circuit |
| `Refuse` | a request that finds the gateway's circuit open; `getBalances` catches the refusal and counts it |
| `Enter`, `Ensure` | `ensureCircuitClosed`, of the outer loop (Birbank, drafts) and of the loop around a call |
| `Claim` | `claimIdempotency` |
| `Token` | `getAccessToken`: the cached token, or a loop of its own that fetches one |
| `Http` | one attempt in `executeWithPolicies` |
| `Count`, `Trip` | `onSuccess`, `onFailure`: the counter, then `open_until` |
| `Again` | the last request of `authorizedRequest`, with the new token and outside of the loops |
| `LoseRedis` | any command to Redis that fails; a write of `onSuccess` or `onFailure` may have arrived, and the loop that catches the error may count it |
| `Restart`, `Tick` | the process starts again; time passes |

A call is in one of three loops: around the HTTP call (`"inner"`), around the fetch of a token, or, for
a draft to Birbank, around the whole of `authorizedRequest` (`"outer"`).  A bank answers well, with 5xx, with an
error for a moment (429, a broken connection, a time-out: `"soft"`), with another refusal, or with 401; with
5xx and `"soft"` it may have done what it was asked.  The two loops of Birbank share one counter and
one `open_until`, since both name the provider `birbank`.  Pasha is built like ABB and stands under
it.  Left out: the backoff (callers are interleaved anyway), the metrics and the health
snapshot, statements, a token mentioned in the body of another answer than 401, several banks (nothing is shared
between them).  Times are what is left of them.

### Stock

| action | code |
|---|---|
| `CreateInvoice` | a draft invoice gets its creation date |
| `CreateDoc` | `createInventoryAdjustment`, `createDraftWithLines` |
| `PatchLine`, `SyncSystem` | the audit draft is edited and resynchronized |
| `Accept` | a request starts; `SALE` passes the `inventorySettled` check |
| `ReadReceipt` | `recordGoodsPurchase`, `adjustStock(IN)` |
| `ReadIssue` | `postSaleInventoryInTransaction`, `adjustStock(OUT)`, `transferStock`, `releaseProduction`: the stock check and `computeIssueUnitCost` |
| `ReadTarget` | `transferStock`, `releaseProduction`: write the source and read the target |
| `ReadCount`, `ReadAgain` | `postAdjustment`: the difference, then the stock once more |
| `ReadDifference` | `approveDraft` |
| `Commit`, `CommitTransfer`, `CommitRelease` | stock row, movement, journal, document, commit |

Quantities are whole units and prices whole numbers.  The average cost is a quotient;
wherever the code takes it, the model takes any price, so no property depends on its
value.  A transfer moves one unit and a release makes one, so that their unit costs are whole numbers.  The replay
of the FIFO layers is modelled unit by unit, as what `fifoIssueUnitCost` computes.
Documents have one line; a recipe takes one material and may return a part of it as scrap at no cost
(`costFactor` 0, the default).  Movements with equal dates are in the order of their
commits.  Not in the model: several lines and products, bins, the refusal of closed
periods (it only refuses), settings that change while a request runs, and the rounding
of unit costs to four digits.

### The back office

`Requests` gives the modules below their common form.  `Begin` starts a request with what its
first reads found, `Goto` continues it after a read, `Finish` ends it; `Instant` is a
request of one statement.  `overlap` becomes true when one request starts while another is
under way, and stays so; a property that holds only for requests one after the other says `overlap \/ ...`.
The other modules see a request of somebody else as `Elsewhere`: a busy client at a step that is
not theirs.

| action | code |
|---|---|
| `StartClose`, `FindRow`, `PostDepreciation`, `Accrue`, `TakeSums`, `MergeClosed`, `CommitClose` | `closePeriod` with `applyForClosedMonth`: the assets, then for one after the other its row of the month, the posting's period check, the rows (unique key), `groupBy` over the journal, the settings as they are read, balances and settings |
| `CommitDepreciation` | `runMonthlyDepreciation`, the same rows without a close |
| `StartPatch`, `CommitPatch` | `patchPeriodLock`, and the other writers of the settings document |
| `NextDay` | the calendar |
| `CreateOrder` | `createDraftPko`, `createDraftRko`, `createAdvanceReportDraft`, `createAutoFromInvoicePayment` |
| `StartPost`, `TestGap`, `TestOpen`, `BookOrder` | `postOrder`, `postAdvanceReport`: status, `assertBackdatedRkoNoCashGap`, period check, journal and status |
| `StartExpense`, `Spend` | `manualCashOut`, the quick expense |
| `CreateRun`, `PostRun` | `createDraftRunSync`, `postRunSync` |
| `CreateRegistry`, `SendRegistry`, `CreateDraft`, `SendDraft` | the row, the call of the bank, the status |
| `StartPaid`, `TestPaid`, `CommitPaid` | `markSalaryRegistryPaid` |
| `ImportLine`, `ReadDrafts`, `ReadRegistries`, `Settle` | `importCsv`, `ingestTransactions` with `autoMatchOutgoingForLine` |
| `StartHire`, `CommitHire`, `Leave` | `employees.service.ts`: count and write at `Serializable`; `remove` |
| `StartResize`, `CommitResize` | `updateJobPosition` |
| `StartMove`, `Walk`, `WalkEnd`, `CommitMove`, `Detach` | `updateDepartment` with `assertParentNoCycle`, one query per step of the walk |
| `StartToggle`, `CommitToggle` | `toggle`, with `scheduleCancellationInTx` and its revocation |
| `StartRun`, `Remove`, `SeekInvoice`, `Estimate`, `CreateInvoice`, `BlockBilled`, `ReadPending`, `EndRun` | `runMonthlyBilling`, statement by statement |
| `StartEscalation`, `ReadUnpaid`, `BlockHard` | `runHardBlockEscalationCron` |
| `PayInvoice`, `PayOrder` | `finalizePaidSubscriptionInvoice`, `recordPaidOrderInvoice` |
| `NextBillDay` | the first day of a month and the days after it |
| `Abort`, `StaffAbort`, `BillAbort` | a request ends wherever it is; what its earlier statements committed stays |

A posting is an entry of the journal with the document it belongs to and its number among the
postings of that document, so that a document booked twice shows.  What is abstracted: the wages
of a month are one entry instead of one per department; amounts and wages are constants; a
depreciation entry has the amount of all assets; order numbers, withholding tax, currencies and
desks are left out; assets are in use from the first month; departments start as roots and
employees have one position; a company has one module, whose `activeModules` slug and row a
toggle changes in one step, as its transaction does; subscriptions are not expired; the cron runs at
some time of the first of the month, the escalation at some time after it; a request that midnight
interrupts counts as an overlap.  `SERIALIZABLE` is what it adds for two hires: of two that
counted the same position the second commits only if nobody has joined it since
(`Undisturbed`).  The transactions at READ COMMITTED take no part in that, as in PostgreSQL.
A lock ends at the midnight with which its day begins and a posting carries either a date or a
time (`Open`, `OpenTimed`), as `accounting.service.ts:115` compares them.

## 3. Runs

`about` in `PROJECT.json` says what each run shows.  With two workers a run takes
from a few seconds to about two minutes.

| run | instance | why it is large enough |
|---|---|---|
| `rec_serial` | 1 client, 2 invoices (totals 2 and 1, one foreign), 1 bank line, all endpoints but netting | a partial, a full, an exact and an excessive payment of each invoice, in every order with shipments, matches and signatures; an allocation that covers one and a part of the other |
| `rec_concurrent` | 2 clients, 2 invoices of 1; shipment, payment, allocation, netting | two requests at any of their steps, on the same or on different invoices, in either lock order |
| `rec_increments` | 2 clients, 1 foreign invoice of 2, 1 bank line; shipment, payment, match, signature | two overlapping requests of every endpoint that increments `paidAmount`, cash and bank |
| `rec_v_netting_cache`, `rec_v_overpaid` | as above | the shortest disagreement is a handful of steps |
| `ext_providers` | card payments: 2 orders (1 and 3 months), 2 handlers, 1 rollback, 2 months; calls: 2 callers, 2 drafts, 2 salary files of one key, 2 attempts, 2 errors, circuits of 2 and keys of 3 ticks | the same order in both handlers, different orders in both, a decline at any moment, a rollback and a repetition; see below for the calls |
| `ord_v_months_lost` | the card payments alone, without rollback | |
| `stk_fifo` | 1 client, 2 warehouses and a finished product, 2 recipes (one with scrap), 1 invoice, 1 count, 5 movements, 2 dates, prices 1 and 3 | two receipts at different prices and the issues that cut through a layer; documents dated before and after them; a release and issues of what it left and made.  Write-offs and surpluses are counts that may be refused |
| `stk_ledger` | 2 clients, 2 warehouses and a finished product, 1 audit, write-off or surplus, 3 movements, negative stock allowed | every pair of overlapping requests, then a third one that meets the result |
| `stk_v_layer_twice` | 1 client, 1 invoice | |
| `fin_month` | 2 clients, 4 requests, 2 months of 2 days, 2 assets, 5 cash documents, 2 registries, 1 draft and 2 lines of the amount of the wages, 3 employees on 2 positions, 3 departments, 2 companies over 3 months; seven scenes | see below |
| `bil_v_last_month` | the billing scene alone | |

A *scene* of `fin_month` is the set of requests that are in use together; every request of a scene
may overlap with every other one of it, and any may be cut off.  The scenes are
`{CLOSE, LOCK, EXPENSE}` (closes, both kinds of postings and the settings), `{CLOSE, WAGES}` (payroll
into a month that closes), `{WAGES, BANK}` (registries paid by hand and by lines), `{ORDER}` (cash orders over the
days), `{HIRE}`, `{MOVE}` and `{BILL}`.  What is not in a scene together shares no row, so that scenes add up
instead of multiplying; the theorems of section 5 hold for any set of scenes.  Four requests are enough for a
first one that prepares, two that overlap and one that meets the result: a registry is created, sent, paid
and found again by a line; a run of the billing is cut off, repeated, paid and repeated; a
month is closed, and closed again.  Two months are the first at which a snapshot replaces
entries; two days are the first at which a lock divides a month.  The first asset of 3 at 2 a
month meets its remainder in the second month, the second of 1 at 1 has none.  Three departments
are the smallest cycle that a test of the parent alone would miss.  Three months of billing are the free
month, a billed one and the last one of a cancellation.

`ext_providers` takes either side alone (`Sides`): they share no variable, so that a behaviour of both is one of each,
interleaved.  Of the calls it takes five combinations (`Uses`): one caller that sends a draft and reads balances, at Birbank and at ABB,
two callers that send drafts, two that send files of one key, two that read balances.  Two attempts are the first number at which
one follows another, and at which the outer loop of Birbank multiplies them; the code has three.  Two errors in a row
instead of three separate the first, the last but one and the one that opens a circuit.  A key outlives an open
circuit (10 minutes against 5), hence 3 ticks against 2; both are long enough for a step in between.

Bounds that are not in the code: `Sides` and `Uses` of `Providers`,  `MaxRequests`, `LastMonth`, `MonthDays`, `MaxDrafts`, `DraftDays`, `MaxSlots`,
`LastBill` and `Scenes` of `BackOffice` and its components, and `MaxRows` (sum of the payment rows of an invoice),
`MaxPending` (pending signature sessions), `MaxMonth`, `MaxAborts`, `MaxDate`,
`MaxMoves`, and `Receiving` (the warehouses that receive goods from outside; the others
are filled by transfers).  They stand in guards of `Receivables`, `PaymentOrders`,
`Stock` and the back office.  `Clients` are interchangeable, hence the symmetry of the runs without temporal
properties.

### Which property holds where

Several properties hold only for some endpoints or only without overlap; the runs say
which.  Where a property is not checked under overlap, the following lines are why.
Except for the runs that expect a violation, these are observations made while modelling;
each follows the pattern "unlocked read, later write".  A hazard in `PROJECT.json` whose property exempts
such an overlap says so in its note: the property covers sequences, repetitions, aborts and crashes there,
and the overlap itself goes wrong in the code.

* `PaidIsSumOfPayments`, `PaidNeverShrinks` under overlapping allocations:
  `invoices.service.ts:569` writes `paidAmount` as an absolute value.
* `RevenueOnce` under overlapping shipments: `invoices.service.ts:228`.
* `LineBookedOnce` under overlapping confirmations: `bank-match.service.ts:112`.
* `CashHasOrders`, `MoneyIsRegistered` with allocations: `invoices.service.ts:511` books
  money to the account without a mirror line or a cash order.
* `ImplementsOpenItems` is checked for requests that do not overlap, and says of them that nothing is
  overpaid (`NeverOverpaid`) and that a signed invoice changes no more.  Under overlap `invoices.service.ts:239`
  overwrites a status read before the signature completed; a netting (`netting.service.ts:138`) settles
  signed invoices.
* `SignedOnce` under overlap: `signature.service.ts:64`.
* The limits of a netting may be exceeded by the time it distributes (`netting.service.ts:259`);
  `RevenueBeforeMoney` shows only that it never reaches an invoice that is not recognized.
* `QtyIsMovements`, `CountIsApplied` under overlap: `inventory.service.ts:765` writes an absolute quantity; an
  audit (`inventory-audit.service.ts:91`) or an adjustment (`inventory.service.ts:1178`)
  posted by two requests is applied twice.
* `QtyIsMovements` with negative stock: `inventory.service.ts:345` restarts the row at the
  quantity of a purchase.
* `LayersAreStock`, `LedgerIsLayers` with audits: `approveDraft` applies the difference kept
  in the draft without a stock check, priced at the product's cost price instead of the layers.
* `LedgerFollowsMovements` with byproducts that have a cost: `releaseProduction` gives the product the whole cost
  of the material and the byproduct a share of it beside (`manufacturing.service.ts:314`, as `TZ.md:941` says), while the
  journal moves the cost once.  The rounded unit cost of a release (`:254`) leaves cents in the same way.
* `OpeningIsJournal` with months closed out of order: `trialBalance` (`reporting.service.ts:132`) takes the
  snapshot of the last closed month before the report and ignores open months before it
  (`TZ.md:1823`).  Under overlap: a posting reads the closed months and commits after the
  close (`accounting.service.ts:107`), and the settings document is a lost update
  (`reporting-period.util.ts:105`).
* `DepreciationBounded`, second half, under overlap: two closes of different months read the same remainder
  (`depreciation.service.ts:57`).
* `CashBookedOnce`, `PayrollBookedOnce`, `PayoutPerLine` under overlap: `cash-order.service.ts:464`,
  `payroll.service.ts:364` and `banking.service.ts:475` check outside the transaction that writes.
* `NoCashGap` with payouts dated today and with manual expenses: neither is tested for a gap
  (`cash-order.service.ts:375`, `banking.service.ts:203`).
* A registry that a bank line marks PAID gets no journal, and `markSalaryRegistryPaid` refuses it
  afterwards (`banking.service.ts:501`); `PayrollBookedOnce` says that this is the only way.  `importCsv`
  stores the same line again when a file is imported twice.
* `sendPaymentDraft` returns the promise of its update without awaiting it inside the `try`: a failure
  of that update leaves the draft PENDING, as a crash does.
* `ProbedAgain` allows for balances that are asked for again and again: `getBalances` runs `assertCircuitClosed` inside the `try`
  whose `catch` counts a failure (`banking-gateway.service.ts:133,138`), so each refused reading opens the circuit for another five minutes,
  and a client that polls keeps drafts out for ever.  `TZ.md:1840` speaks of five minutes.
* `InstructedOnce` bounds how often a bank takes an instruction by the number of attempts, not by one: a write whose
  answer was lost is repeated, and the key does not keep the bank from taking it twice.  It is claimed once per
  call, not per attempt; a draft sent again by the user has a new row, hence (`bp-<id>`) a new key at Birbank and a new hash at Pasha and ABB
  (`banking-gateway.service.ts:352`), whereas `TZ.md:139` wants keys to stop such duplicates.
* A draft the bank confirmed is REJECTED if Redis fails in `onSuccess` (`integration-reliability.service.ts:46`).
* A call in flight when the circuit opens is neither refused nor stopped: its failure opens the circuit anew.
  `TZ.md:138` opens it after more than three answers 5xx, the code with the third.
* `SlotsSuffice` beside a change of slots: `org-structure.service.ts` counts at READ COMMITTED.
* `DepartmentsAreTrees` under overlap: the walk of `org-structure.service.ts:121` reads row by row.
* `OneInvoicePerMonth`, `BlockFollowsDebt`, `OnlyFullMonthsBilled` under overlap: the statements of a run are not one
  transaction (`billing-monthly.service.ts:94,235`).  `BlockFollowsDebt` has one direction: a run that crashes
  between invoice and block (`:139`, `:157`) finds the invoice when it is repeated and leaves the
  companies unblocked.
* A module that is turned on again keeps `pendingDeactivation` (`billing-toggle.service.ts:111`) and is removed by the next
  run; `TurnOn` models it.

### Findings

1. `rec_v_netting_cache`: a netting adds payment rows and leaves the cached `paidAmount`.
2. `rec_v_overpaid`: two overlapping payments both pass the check of the remainder.
3. `ord_v_months_lost`: two orders finalized at once extend from the same old expiry.
4. `stk_v_layer_twice`: a sale is dated by the creation of its invoice; goods bought since then
   are replayed after it, and their layer prices a second issue.
5. `bil_v_last_month`: a run first removes the modules that have ended (`billing-monthly.service.ts:66`), then
   invoices; a module that was cancelled is gone before its last month is invoiced, which `TZ.md:1540,1554`
   promise.

## 4. Fairness

Only `ext_providers` checks liveness.  For the card payments `ProvidersFairness` (like `FairSpec`) assumes

* weak fairness of the steps of a running handler: Node's event loop resumes it and the
  database answers (or the transaction is rolled back, which is `Abort`; `MaxAborts` says
  that rollbacks do not go on for ever);
* strong fairness of the delivery of a collected payment: the bank repeats its
  notification until it is acknowledged, and the API accepts requests again and again.

For the calls of banks it assumes only that time passes (weak fairness of `Tick`): not that callers or the bank
get on with anything, nor that anybody calls.

Nothing is assumed of users or of declines.
  The other components have no
process that must finish a job: a close, a registry or an order that was cut off waits for a user, and
the monthly run is repeated within the first day of the month only.  Their modules state safety.

## 5. Theorems

TLAPS checks them for every value of the constants that satisfies the assumptions of the module
(`ReceivablesAssumption`, `OrdersAssumption`, `BankCallsAssumption`, `StockAssumption`, `RequestsAssumption`, `StaffingAssumption`,
`BillingAssumption`, `LedgerAssumption`, `CashAssumption`, `PayrollAssumption`, `ScenesAssumption`, `SidesAssumption`, `NoneIsNoRow`), which TLC evaluates in the
runs.  Every invariant and every action property that a passing run checks has its theorem, and so has the
refinement of `OpenItems`.

Some theorems assume more, as the runs of the property do; each assumption is one that the code does not enforce, and
without it the property is false ("Which property holds where"):

| assumption | says | because |
|---|---|---|
| `OneClient` | requests do not overlap: there is at most one client (`Serial_proofs`, `Stock_proofs`) | unlocked reads decide about later writes |
| `NoAllocations` | `allocatePaymentAcrossInvoices` is not offered | it books no cash order and no mirror line, and writes an absolute `paidAmount` |
| `NoNetting` | `createNetting` is not offered | it leaves `paidAmount` behind |
| `SinglePaymentsOnly` | neither is offered | both |
| `PositiveTotals` | every invoice has a total above zero | an invoice over nothing is paid when it is made, which `OpenItems` does not know |
| `NoShortage` | negative stock is forbidden and no audit is approved | a purchase restarts a negative row, an audit skips the stock check |
| `Fifo` | the method of valuation is FIFO | the other one prices issues by averages |

`fin_month` needs no such assumption: there `overlap`, `disorder` and `unguarded` are history variables, and the properties say
what holds while they are false.

### Receivables

| theorem | states | argument |
|---|---|---|
| `Receivables_proofs!TypeCorrect` | `Spec => []TypeOK` | `TypeInv` adds that a request about an invoice or a line names one |
| `RevenueFirst` | `Spec => []RevenueBeforeMoney` | payments are booked on old reads; `SessionsRecognized` says that whatever a session has read as recognized, plans to pay or has written is recognized in the committed row, and recognition is never taken back (`RecognizedStep`) |
| `SubledgerAgrees` | `Spec => []Subledger211` | `SettlementInv`: a session over several invoices holds the locks of the rows it has written (`RowsLocked`), so that what it adds to them is still what it has spent (`BucketsAddUp`) when it commits; every other commit changes one row by what it books (`OneCommit`) |
| `RecognizedPosted` | `Spec => []RecognizedIsPosted` | from `SettlementInv`: a row becomes recognized only in a commit that posts its revenue |
| `PaidIsSum` | `SinglePaymentsOnly`: `Spec => []PaidIsSumOfPayments` | no session holds a row version of its own, and every path increments both sides on the locked row (`PaidStep`) |
| `CashCovered`, `MoneyRegistered`, `PaidOnlyGrows` | `NoAllocations`: `Spec => []CashHasOrders`, `[]MoneyIsRegistered`, `PaidNeverShrinks` | each commit books its mirror, and rows only grow |
| `Serial_proofs!RevenuePostedOnce`, `LinesBookedOnce`, `SignaturesCompleteOnce` | `OneClient`: `Spec => []RevenueOnce`, `[]LineBookedOnce`, `[]SignedOnce` | `SerialInv`: what the request being served has read is what is committed (`ReadsFresh`) |
| `StatusIsRight`, `NoOverpayment`, `AllocationsAddUp` | `OneClient`, `NoNetting`: `[]StatusFollowsMoney`, `[]NeverOverpaid`, `[]PaidIsSumOfPayments` | amounts and status of every committed row agree (`Sound`), and the rows an allocation has written go on from them and end at the total (`BucketsSound`) |
| `RoundingIsBounded` | `OneClient`, `NoNetting`: `[]RoundingBounded` | every gain has closed a foreign-currency invoice, and a closed one yields none (`RoundingInv`) |
| `SettlementRefines` | `OneClient`, `NoNetting`, `PositiveTotals`: `Spec => ImplementsOpenItems` | refinement: the committed rows are open items (`ItemsOf`); a commit is a billing, a settlement within the total or a signature of `OpenItems`, every other step a stutter |

`NeverOverpaid` is refuted by `rec_v_overpaid` where two payments overlap; `NoOverpayment` says that overlap is the only cause.

### Providers

| theorem | states | argument |
|---|---|---|
| `Providers_proofs!TypeCorrect` | `Spec => []TypeOK` of `PaymentOrders` | part of `Inv` |
| `OnceOnly` | `Spec => []AppliedOnce` | `Exclusive`: at most one handler holds an order and it is still PENDING for everybody else; `RecordsPaid`: the other path is entered for paid orders only |
| `FinalOutcome` | `Spec => OutcomeIsFinal` | from the same invariant, step by step |
| `OnceInstructed` | `CallSpec => []InstructedOnce` | `CallInv`: a call is in one of the loops only where it may be (`Shape`); what the bank has taken is at most what the call has spent of its attempts (`Knows`, with `Used` and `Spent`); an instruction has one call (`Single`); status and confirmations fit (`Outcome`); a file that is tried or taken holds its key until that runs out (`KeysClaimed`) |
| `ProvidersTypes`, `ProvidersSafe` | the composition: `ProvidersSpec => []ProvidersTypeOK`, and the three safety properties above | a step of one side leaves the variables of the other |

### Stock

| theorem | states | argument |
|---|---|---|
| `Stock_proofs!TypesHold` | `Spec => []TypeOK` | `TypeInv` adds what a transaction has read and computed |
| `LedgerIsMovements` | `Spec => []LedgerFollowsMovements` | every commit appends movements whose costs are what it books, overlap or not |
| `CountsAreApplied` | `OneClient`: `Spec => CountIsApplied` | `FreshInv`: what the transaction has read is still so |
| `QuantitiesAreMovements` | `OneClient`, `NoShortage`: `Spec => []QtyIsMovements` | `SerialInv`, first part: each row is the balance of its movements (`Rows`), and an issue is covered by it (`Covered`) |
| `LayersAreQuantities` | the same: `Spec => []LayersAreStock` | one more movement appended in the order of dates replays as the old replay and one step (`Layered`) |
| `LedgerCarriesLayers` | with `Fifo`: `Spec => []LedgerIsLayers` | an issue has been priced with the layers it then removes (`Costed`) |

### The back office

| theorem | states | argument |
|---|---|---|
| `BackOffice_proofs!Trees` | `StaffSpec => []DepartmentsAreTrees` | `TreeInv`: while one request is alone, the departments its walk has seen are closed under "the next one up" except for the place it is at (`Closed`), and never contain the department to be moved (`Searching`); a set without a root after the move would contain a smaller one before it |
| `Slots` | `StaffSpec => []SlotsSuffice` | `SlotInv`: what a hire has counted (`seen`) is below the slots of its position as long as nothing was resized beside it, and `Undisturbed` keeps the committed occupants inside `seen` |
| `OneInvoice`, `BlockDebt`, `FullMonths` | `BillSpec => []P` for the three billing properties | `BillInv`: the rows are well formed (`RowsOK`); a company has a row only while it has the module, since the month in the row (`Calendar`); what the request that is alone has read stays true until it writes (`Fresh`) |
| `OfficeStaffs`, `OfficeBills` | `Spec => StaffSpec`, `Spec => BillSpec` | refinement: every step of the office is a step of the component, or a request at a step that is not the component's (`Uses`, `Elsewhere`), with its rows unchanged |
| `OfficeTrees`, `OfficeSlots`, `OfficeInvoices` | the five component properties of the office, for any scenes | from the refinements |
| `Booking_proofs!OrdersBooked` | `Spec => []CashBookedOnce` | `Grows`: a step adds entries of documents of some kinds only, so the postings of an order change in the steps of the cash desk only; `OrderInv` adds that a lone request finds the order as it read it |
| `WagesBooked`, `LinesSettle` | `Spec => []PayrollBookedOnce`, `Spec => []PayoutPerLine` | `PayInv`: what a request has read and nobody takes back, also under overlap (`Waits`, kept by every step because it `Respects` what others wait for); no two requests send the same row or match the same line (`Single`); a lone request finds its run and its hit as it read them (`Unbooked`) |
| `Ledger_proofs!DepreciationHolds` | `Spec => []DepreciationBounded` | `DepreciationInv`: rows, total and account 112 change together; a lone close leaves its assets within what can be depreciated (`Fits`) |
| `OpeningHolds` | `Spec => []OpeningIsJournal` | `OpeningInv`: the closed months have no gap below them, and the snapshot of a closed month is its balance (`SnapshotsHold`); what a lone request has found open is open, its sums are those of the journal and its document is the settings but for the month it closes (`Current`), so that nothing is posted into a month with a snapshot |
| `ClosedMonthsStay` | `Spec => [][overlap' \/ disorder \/ MonthsStay]_officeVars` | no step reopens a closed month or changes what an account held at its end (`MonthsStay`): from `OpeningInv`, form by form.  No run checks it by itself: it says of every step what `OpeningIsJournal` says of the reports |
| `NoGapOfCash` | `Spec => []NoCashGap` | `CashInv`: the till is not negative on any day and nothing is paid out on a day to come (`TillHolds`); a payout of an earlier day that has passed the test finds the cash on every day from its own (`Covered`): for the days until today by the test, for the later ones because the cash only grows after today (`GapTested`, `CashLater`) |
| `OfficeTyped` | `Spec => []BackOfficeTypeOK` | the invariants above, and the statuses table by table |

The three invariants of the ledger rest on `LedgerInv` (the types of the tables and of what requests have read) and on one sorting of the
steps by what they do to the books (`Forms`): a request that closes, one of the cash desk, a payment of wages, the draft of an order, and all
the others, which leave the books alone.  The properties themselves are not inductive.  `OpeningIsJournal` speaks of reports only; it is kept
because a close in progress does not store old sums.  `NoCashGap` speaks of the days until today; a payout is tested on those, and tomorrow
it must still hold.  `RevenueBeforeMoney` alone is not inductive: a payment step trusts `seen`, so one must know
what `seen` may still say.  `InstructedOnce` alone is not inductive: at the last attempt it may only be kept if the earlier ones are counted.
`AppliedOnce` alone is not inductive: without `Exclusive` a second `Commit` of the same order would be possible.

Sums and replays are data over which one would like to induct.  The library's induction theorems have an operator as a parameter, which the
installed provers do not instantiate.  The proofs take a minimal counterexample instead: if a law of sums fails for a finite set, it fails for
a smallest of its subsets (`MinimalSubset` in `Sums_proofs`, from the well-foundedness of inclusion), which it cannot; the recursion of
the FIFO replay is followed from the smallest position where two replays could differ (`SmallestOf` in `Stock_proofs`).

Only model-checked: `CollectedIsApplied` and `ProbedAgain`, which are liveness properties under fairness, out of this prover's reach.  The
properties of the runs that expect a violation are false as they stand.  What the theorems say about `Lines`, `Orders`, `Scenes` and the
other constants goes beyond the runs; what the models leave out (section 2) the theorems leave out too.

## 6. Plan

Done: `OpenItems`, `Receivables`, `PaymentOrders`, `Stock`; `Requests`, `Ledger`, `CashDesk`, `Payroll`, `Staffing`,
`MonthlyBilling` and their composition `BackOffice`; `BankCalls` and, with `PaymentOrders`, `Providers`; their runs and the theorems above.  Left, in this order:

1. Proofs: the theorems of `Serial_proofs` for requests that overlap on different invoices and lines, instead of one client.
2. Revaluation as a further posting of `Ledger`.
3. `Quota` (check-then-create), if a property of it turns out to matter to another component.
