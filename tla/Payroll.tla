------------------------------ MODULE Payroll ------------------------------
(***************************************************************************)
(* Payroll runs, salary registries and payment drafts, and the matching of *)
(* bank outflows to them (payroll.service.ts, banking-gateway.service.ts,  *)
(* banking.service.ts), over the journal of Ledger.                        *)
(*                                                                         *)
(* The wages of a month are booked when the first of its registries is     *)
(* marked as paid; the run then carries the transaction.  A registry is    *)
(* marked by an accountant, or by the import of a statement that finds     *)
(* exactly one sent registry, or before that one sent draft, of the line's *)
(* amount.  All of it is read before the transaction that writes.          *)
(***************************************************************************)
EXTENDS Ledger

CONSTANTS
  Registries, \* salary registries
  Drafts,     \* payment drafts
  Lines,      \* outflow lines of bank statements
  Wages,      \* net wages of every month
  PayAmount   \* amounts of the drafts and the lines

ASSUME PayrollAssumption ==
  /\ Wages \in [Months -> Nat \ {0}]
  /\ PayAmount \in [Drafts \cup Lines -> Nat \ {0}]
  /\ Drafts \cap Registries = {} /\ None \notin Drafts \cup Registries

VARIABLES
  run,      \* status of the run of each month
  runPosted,\* its transactionId is set
  registry, \* status of each registry
  paysFor,  \* its month, 0 before it is created
  draft,    \* status of each payment draft
  line,     \* status of each statement line
  settles   \* history: what a matched line settled

payVars == <<run, runPosted, registry, paysFor, draft, line, settles>>

PayInit ==
  /\ run = [m \in Months |-> "NONE"]
  /\ runPosted = [m \in Months |-> FALSE]
  /\ registry = [g \in Registries |-> "NONE"]
  /\ paysFor = [g \in Registries |-> 0]
  /\ draft = [p \in Drafts |-> "NONE"]
  /\ line = [l \in Lines |-> "NONE"]
  /\ settles = [l \in Lines |-> None]

Run(m) == <<"PAY", m>>

-----------------------------------------------------------------------------
(* Pure parts.  X_Y is a faulty variant of X that no action uses. *)

\* A registry books the wages of its month unless the run has a transaction.
Books_Always(r) == TRUE
Books(r) == ~r.seen

\* The candidates for a line: what was sent and has its amount.
SentDrafts(l) == {p \in Drafts : draft[p] = "SENT" /\ PayAmount[p] = PayAmount[l]}
SentRegistries_Paid(l) ==
  {g \in Registries : registry[g] \in {"SENT", "PAID"} /\ Wages[paysFor[g]] = PayAmount[l]}
SentRegistries(l) == {g \in Registries : registry[g] = "SENT" /\ Wages[paysFor[g]] = PayAmount[l]}

-----------------------------------------------------------------------------
(* Runs *)

\* createDraftRunSync: one run a month, by a unique key.
CreateRun(m) ==
  /\ run[m] = "NONE"
  /\ run' = [run EXCEPT ![m] = "DRAFT"]
  /\ Instant
  /\ UNCHANGED <<runPosted, registry, paysFor, draft, line, settles>> /\ UNCHANGED ledgerVars

\* postRunSync: only the status; repeating it changes nothing.
PostRun(m) ==
  /\ run[m] = "DRAFT"
  /\ run' = [run EXCEPT ![m] = "POSTED"]
  /\ Instant
  /\ UNCHANGED <<runPosted, registry, paysFor, draft, line, settles>> /\ UNCHANGED ledgerVars

-----------------------------------------------------------------------------
(* Registries and drafts: a row, the bank or the export file, the status *)

\* createAndPrepareSalaryRegistry
CreateRegistry(c, g, m) ==
  /\ registry[g] = "NONE" /\ run[m] = "POSTED"
  /\ registry' = [registry EXCEPT ![g] = "DRAFT"]
  /\ paysFor' = [paysFor EXCEPT ![g] = m]
  /\ Begin(c, "send", [op |-> "REGISTRY", registry |-> g])
  /\ UNCHANGED <<run, runPosted, draft, line, settles>> /\ UNCHANGED ledgerVars

\* prepareSalaryRegistry, when the bank or the storage has answered.
SendRegistry(c) ==
  /\ At(c, "REGISTRY", "send")
  /\ registry' = [registry EXCEPT ![req[c].registry] = "SENT"]
  /\ Finish(c)
  /\ UNCHANGED <<run, runPosted, paysFor, draft, line, settles>> /\ UNCHANGED ledgerVars

\* sendPaymentDraft
CreateDraft(c, p) ==
  /\ draft[p] = "NONE"
  /\ draft' = [draft EXCEPT ![p] = "PENDING"]
  /\ Begin(c, "send", [op |-> "DRAFT", draft |-> p])
  /\ UNCHANGED <<run, runPosted, registry, paysFor, line, settles>> /\ UNCHANGED ledgerVars

\* The bank accepts the draft, or the call fails.
SendDraft(c) ==
  /\ At(c, "DRAFT", "send")
  /\ \E s \in {"SENT", "REJECTED"} : draft' = [draft EXCEPT ![req[c].draft] = s]
  /\ Finish(c)
  /\ UNCHANGED <<run, runPosted, registry, paysFor, line, settles>> /\ UNCHANGED ledgerVars

-----------------------------------------------------------------------------
(* Payment of a registry by hand *)

\* markSalaryRegistryPaid: the registry and its run.
StartPaid(c, g) ==
  /\ registry[g] = "SENT" /\ run[paysFor[g]] = "POSTED"
  /\ Begin(c, "paid", [op |-> "PAID", registry |-> g, seen |-> runPosted[paysFor[g]]])
  /\ UNCHANGED ledgerVars /\ UNCHANGED payVars

\* The settings, if there is something to book, for noon of the last day.
TestPaid(c) ==
  LET r == req[c]
  IN  /\ At(c, "PAID", "paid")
      /\ IF Books(r) THEN CheckOpen(c, OpenTimed(settings, MonthEnd(paysFor[r.registry])), "pay") ELSE Goto(c, "pay", r)
      /\ UNCHANGED ledgerVars /\ UNCHANGED payVars

\* The entries of the departments, the transaction of the run, the registry, the commit.
CommitPaid(c) ==
  LET r == req[c]
      m == paysFor[r.registry]
  IN  /\ At(c, "PAID", "pay")
      /\ journal' = journal \cup (IF Books(r) THEN {Entry(Run(m), NetPay, MonthEnd(m), - Wages[m])} ELSE {})
      /\ runPosted' = [runPosted EXCEPT ![m] = TRUE]
      /\ registry' = [registry EXCEPT ![r.registry] = "PAID"]
      /\ Finish(c)
      /\ UNCHANGED <<today, settings, snap, accrued, booked, disorder>>
      /\ UNCHANGED <<run, paysFor, draft, line, settles>>

-----------------------------------------------------------------------------
(* Matching of outflows *)

\* importCsv, ingestTransactions: the line is stored, then matched.
ImportLine(c, l) ==
  /\ line[l] = "NONE"
  /\ line' = [line EXCEPT ![l] = "NEW"]
  /\ Begin(c, "drafts", [op |-> "IMPORT", line |-> l])
  /\ UNCHANGED <<run, runPosted, registry, paysFor, draft, settles>> /\ UNCHANGED ledgerVars

\* autoMatchOutgoingForLine: exactly one candidate settles the line.
Choose(c, hits, otherwise) ==
  IF Cardinality(hits) = 1
    THEN Goto(c, "settle", [op |-> "IMPORT", line |-> req[c].line, hit |-> CHOOSE x \in hits : TRUE])
    ELSE otherwise

ReadDrafts(c) ==
  /\ At(c, "IMPORT", "drafts")
  /\ Choose(c, SentDrafts(req[c].line), Goto(c, "registries", req[c]))
  /\ UNCHANGED ledgerVars /\ UNCHANGED payVars

ReadRegistries(c) ==
  /\ At(c, "IMPORT", "registries")
  /\ Choose(c, SentRegistries(req[c].line), Finish(c))
  /\ UNCHANGED ledgerVars /\ UNCHANGED payVars

\* The candidate and the line are written whatever became of them meanwhile.
Settle(c) ==
  LET r == req[c]
  IN  /\ At(c, "IMPORT", "settle")
      /\ IF r.hit \in Drafts
           THEN draft' = [draft EXCEPT ![r.hit] = "COMPLETED"] /\ registry' = registry
           ELSE registry' = [registry EXCEPT ![r.hit] = "PAID"] /\ draft' = draft
      /\ line' = [line EXCEPT ![r.line] = "MATCHED"]
      /\ settles' = [settles EXCEPT ![r.line] = r.hit]
      /\ Finish(c)
      /\ UNCHANGED <<run, runPosted, paysFor>> /\ UNCHANGED ledgerVars

PayInstant == \E m \in Months : CreateRun(m) \/ PostRun(m)

PayStep(c) ==
  \/ SendRegistry(c) \/ SendDraft(c)
  \/ TestPaid(c) \/ CommitPaid(c)
  \/ ReadDrafts(c) \/ ReadRegistries(c) \/ Settle(c)

-----------------------------------------------------------------------------
(* Properties *)

\* The wages of a month are booked exactly once when its run carries a transaction,
\* however many registries pay it, unless two of them are paid at the same time;
\* only a posted run is booked.  A registry that is paid while nothing is booked was
\* marked by a bank line, which books nothing.
PayrollBookedOnce ==
  \A m \in Months :
    LET n == Cardinality(Postings(Run(m)))
    IN  /\ runPosted[m] <=> n > 0
        /\ runPosted[m] => run[m] = "POSTED"
        /\ overlap \/ n <= 1
        /\ \A g \in Registries :
             paysFor[g] = m /\ registry[g] = "PAID" => n > 0 \/ \E l \in Lines : settles[l] = g

\* Every matched line settles a payout of its amount, and unless requests overlap
\* no payout is settled by two lines.
PayoutPerLine ==
  /\ \A l \in Lines : line[l] = "MATCHED" <=> settles[l] # None
  /\ \A l \in Lines : settles[l] \in Drafts =>
       draft[settles[l]] = "COMPLETED" /\ PayAmount[settles[l]] = PayAmount[l]
  /\ \A l \in Lines : settles[l] \in Registries =>
       registry[settles[l]] = "PAID" /\ Wages[paysFor[settles[l]]] = PayAmount[l]
  /\ overlap \/ \A k, l \in Lines : settles[k] = settles[l] => k = l \/ settles[k] = None
=============================================================================
