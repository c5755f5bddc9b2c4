------------------------------- MODULE Ledger -------------------------------
(***************************************************************************)
(* The journal of one organization, the close of a month and the requests  *)
(* that post (accounting.service.ts, depreciation.service.ts, closePeriod  *)
(* and trialBalance of reporting.service.ts, the settings document).       *)
(*                                                                         *)
(* A request of a client runs in steps; "req" is what it has read so far.  *)
(* The closed months and the period lock live in one JSON document, which  *)
(* every writer reads, changes and writes as a whole.  A posting reads it  *)
(* when it starts and commits later.  Modules that extend this one add     *)
(* their own requests: Begin, Goto and Finish are their common steps.      *)
(***************************************************************************)
EXTENDS Requests, Sums

CONSTANTS
  LastMonth, \* bound of the model: the months are 1 .. LastMonth
  MonthDays, \* days of a month
  Assets,    \* fixed assets, in use since the first month
  MaxDep,    \* purchase price less salvage value
  Monthly,   \* rounded depreciation of one month
  Locks      \* period locks that are asked for: days, 0 for none, None for another setting

Months == 1 .. LastMonth
Days == 1 .. LastMonth * MonthDays

ASSUME LedgerAssumption ==
  /\ LastMonth \in Nat \ {0} /\ MonthDays \in Nat \ {0}
  /\ IsFiniteSet(Assets)
  /\ Locks \subseteq 0 .. LastMonth * MonthDays \cup {None}
  /\ MaxDep \in [Assets -> Nat \ {0}] /\ Monthly \in [Assets -> Nat \ {0}]

VARIABLES
  today,     \* the current day
  settings,  \* organization.settings: closed months, locked until
  journal,   \* entries of the accounts of interest, one per document and posting
  snap,      \* AccountBalance rows of the last day of each month
  accrued,   \* FixedAssetDepreciationMonth rows: amounts, 0 is no row
  booked,    \* fixedAsset.bookedDepreciation
  disorder   \* history: a month was closed before an earlier one

ledgerVars == <<today, settings, journal, snap, accrued, booked, disorder>>

MonthOf(d) == ((d - 1) \div MonthDays) + 1

\* The last day of a month; with _Next, a faulty variant, the first of the next one.
MonthEnd_Next(m) == m * MonthDays + 1
MonthEnd(m) == m * MonthDays

Cash == "101"
Accumulated == "112"
Accountable == "244"
NetPay == "533"
Accounts == {Cash, Accumulated, Accountable, NetPay}

\* The entries of an account up to a day; reports see the final ones only.
Entries(a, d) == {e \in journal : e.account = a /\ e.day <= d /\ e.final}
BalanceOf(entries) == SumOver([e \in entries |-> e.amount], entries)
Balance(a, d) == BalanceOf(Entries(a, d))

\* A posting of a document: the same document may be posted again.
Postings(doc) == {e \in journal : e.doc = doc}
Entry(doc, a, d, x) ==
  [doc |-> doc, nr |-> Cardinality(Postings(doc)) + 1, account |-> a, day |-> d,
   amount |-> x, final |-> TRUE]

LedgerInit ==
  /\ today = 1
  /\ settings = [closed |-> {}, until |-> 0]
  /\ journal = {}
  /\ snap = [m \in Months |-> [a \in Accounts |-> None]]
  /\ accrued = [a \in Assets |-> [m \in Months |-> 0]]
  /\ booked = [a \in Assets |-> 0]
  /\ disorder = FALSE

-----------------------------------------------------------------------------
(* Pure parts.  X_Y is a faulty variant of X that no action uses. *)

\* postJournalInTransaction refuses the days of closed months and locked days.
Open_Lock(doc, d) == d > doc.until
Open(doc, d) == MonthOf(d) \notin doc.closed /\ d > doc.until

\* A lock ends at the midnight its day begins with: a posting that carries a time of
\* that day is later.
OpenTimed(doc, d) == MonthOf(d) \notin doc.closed /\ d >= doc.until

\* The depreciation of an asset for one more month: never more than what remains.
Charge_Full(a) == IF booked[a] < MaxDep[a] THEN Monthly[a] ELSE 0
Charge(a) == IF booked[a] < MaxDep[a] THEN Min({Monthly[a], MaxDep[a] - booked[a]}) ELSE 0

\* The balances that a close stores: of every account with an entry, its own
\* depreciation included.
Sums_Before(m, own) ==
  [a \in Accounts |->
    LET es == Entries(a, MonthEnd(m))
    IN  IF es = {} THEN None ELSE BalanceOf(es)]
Sums(m, own) ==
  [a \in Accounts |->
    LET es == Entries(a, MonthEnd(m)) \cup {e \in own : e.account = a}
    IN  IF es = {} THEN None ELSE BalanceOf(es)]

-----------------------------------------------------------------------------
(* Requests *)

\* The first statements of a posting: it reads the settings.
CheckOpen(c, open, step) ==
  IF open THEN Goto(c, step, req[c]) ELSE Finish(c)

-----------------------------------------------------------------------------
(* The close of a month *)

\* applyForClosedMonth, called by closePeriod or by runMonthlyDepreciation of
\* fixed-assets.service.ts: the assets and what remains of them.
StartClose(c, op, m) ==
  /\ Begin(c, "post", [op |-> op, month |-> m, rows |-> [a \in Assets |-> Charge(a)], left |-> Assets])
  /\ UNCHANGED ledgerVars

\* The row of the month, looked up for one asset after another: an asset that has it
\* is passed over.
FindRow(c) ==
  LET r == req[c]
  IN  /\ pc[c] = "post"
      /\ \E a \in r.left :
           Goto(c, "post", [op |-> r.op, month |-> r.month, left |-> r.left \ {a},
                            rows |-> [r.rows EXCEPT ![a] = IF accrued[a][r.month] = 0 THEN r.rows[a] ELSE 0]])
      /\ UNCHANGED ledgerVars

Charged(r) == {a \in Assets : r.rows[a] > 0}

\* The entry of the depreciation that a close posts.
Own(r) ==
  IF Charged(r) = {} THEN {}
  ELSE {Entry(<<"DEPR", r.month>>, Accumulated, MonthEnd(r.month),
              - SumOver(r.rows, Charged(r)))}

\* postJournalInTransaction of the depreciation, when there is something to post.
PostDepreciation(c) ==
  LET r == req[c]
  IN  /\ pc[c] = "post" /\ r.left = {}
      /\ IF Charged(r) = {} THEN Goto(c, "sums", r) ELSE CheckOpen(c, Open(settings, MonthEnd(r.month)), "rows")
      /\ UNCHANGED ledgerVars

\* A close that has written its rows holds the assets until it ends.
Holding(c, a) == pc[c] \in {"sums", "merge", "close"} /\ a \in Charged(req[c])

\* The rows are written; one that another close has written meanwhile violates
\* the unique key.
Accrue(c) ==
  LET r == req[c]
  IN  /\ pc[c] = "rows"
      /\ \A a \in Charged(r), d \in Clients \ {c} : ~Holding(d, a)
      /\ IF \A a \in Charged(r) : accrued[a][r.month] = 0
           THEN Goto(c, "sums", r)
           ELSE Finish(c)
      /\ UNCHANGED ledgerVars

WriteRows(r) ==
  /\ journal' = journal \cup Own(r)
  /\ accrued' = [a \in Assets |-> [accrued[a] EXCEPT ![r.month] = @ + r.rows[a]]]
  /\ booked' = [a \in Assets |-> booked[a] + r.rows[a]]

\* The commit of a depreciation without a close.
CommitDepreciation(c) ==
  /\ At(c, "DEPRECIATE", "sums")
  /\ WriteRows(req[c])
  /\ Finish(c)
  /\ UNCHANGED <<today, settings, snap, disorder>>

\* groupBy over the journal.
TakeSums(c) ==
  LET r == req[c]
  IN  /\ At(c, "CLOSE", "sums")
      /\ Goto(c, "merge", [op |-> "CLOSE", month |-> r.month, rows |-> r.rows, sums |-> Sums(r.month, Own(r))])
      /\ UNCHANGED ledgerVars

\* mergeClosedPeriod on the settings read now.
MergeClosed(c) ==
  LET r == req[c]
  IN  /\ At(c, "CLOSE", "merge")
      /\ Goto(c, "close", [op |-> "CLOSE", month |-> r.month, rows |-> r.rows, sums |-> r.sums,
                           doc |-> [settings EXCEPT !.closed = @ \cup {r.month}]])
      /\ UNCHANGED ledgerVars

\* The upserts of the balances, the settings, the commit.
CommitClose(c) ==
  LET r == req[c]
  IN  /\ At(c, "CLOSE", "close")
      /\ WriteRows(r)
      /\ snap' = [snap EXCEPT ![r.month] =
                    [a \in Accounts |-> IF r.sums[a] = None THEN @[a] ELSE r.sums[a]]]
      /\ settings' = r.doc
      /\ disorder' = (disorder \/ ~(1 .. r.month - 1) \subseteq settings.closed)
      /\ Finish(c)
      /\ UNCHANGED today

\* patchPeriodLock; with None another writer of the document (patchSettings, the
\* inventory and banking settings), which keeps both keys as it read them.
StartPatch(c, u) ==
  /\ Begin(c, "patch",
       [op |-> "PATCH", doc |-> IF u = None THEN settings ELSE [settings EXCEPT !.until = u]])
  /\ UNCHANGED ledgerVars

CommitPatch(c) ==
  /\ At(c, "PATCH", "patch")
  /\ settings' = req[c].doc
  /\ Finish(c)
  /\ UNCHANGED <<today, journal, snap, accrued, booked, disorder>>

NextDay ==
  /\ today < LastMonth * MonthDays
  /\ today' = today + 1
  /\ UNCHANGED <<settings, journal, snap, accrued, booked, disorder>> /\ UNCHANGED requestVars

LedgerStep(c) ==
  \/ FindRow(c) \/ PostDepreciation(c) \/ Accrue(c) \/ TakeSums(c) \/ MergeClosed(c)
  \/ CommitClose(c) \/ CommitDepreciation(c)
  \/ CommitPatch(c)

-----------------------------------------------------------------------------
(* trialBalance *)

\* The opening balance of an account for a report that starts with month f: the
\* snapshot of the last closed month before it, if the account has one.
Opening(a, f) ==
  LET before == {m \in settings.closed : m < f}
  IN  IF before # {} /\ snap[Max(before)][a] # None
        THEN snap[Max(before)][a]
        ELSE Balance(a, MonthEnd(f - 1))

-----------------------------------------------------------------------------
(* Properties *)

\* Types of the variables.
LedgerTypeOK ==
  /\ today \in Days
  /\ settings.closed \subseteq Months /\ settings.until \in 0 .. LastMonth * MonthDays
  /\ \A e \in journal : e.account \in Accounts /\ e.day \in Days /\ e.amount \in Int
  /\ snap \in [Months -> [Accounts -> Int \cup {None}]]
  /\ accrued \in [Assets -> [Months -> Int]] /\ booked \in [Assets -> Int]
  /\ \A c \in Clients : pc[c] = "idle" <=> req[c] = NoRequest
  /\ started \in 0 .. MaxRequests /\ overlap \in BOOLEAN /\ disorder \in BOOLEAN

\* Once the months before f are closed, one after the other, the opening balances
\* of a trial balance from f on are those of the journal: the snapshots miss
\* nothing, the depreciation of the close included, and nothing is posted later
\* into a month that they cover.
OpeningIsJournal ==
  overlap \/ disorder
  \/ \A f \in Months \cup {LastMonth + 1}, a \in Accounts :
       (1 .. f - 1) \subseteq settings.closed => Opening(a, f) = Balance(a, MonthEnd(f - 1))

\* What is depreciated is what the rows of the months say and what account 112
\* holds, and it stays within the depreciable value of the asset unless two closes
\* read the same remainder.
DepreciationBounded ==
  LET Total(a) == SumOver(accrued[a], Months)
  IN  /\ \A a \in Assets : booked[a] = Total(a) /\ (overlap \/ booked[a] <= MaxDep[a])
      /\ Balance(Accumulated, LastMonth * MonthDays) = - SumOver(booked, Assets)
=============================================================================
