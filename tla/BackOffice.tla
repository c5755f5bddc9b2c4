----------------------------- MODULE BackOffice -----------------------------
(***************************************************************************)
(* The back office of one organization: cash desk, payroll with its bank   *)
(* lines, staffing, the journal and month close they share, and the        *)
(* invoices of the organization for its modules.  Every request may        *)
(* overlap with every other one of the scene, which is the set of requests *)
(* that are in use.                                                        *)
(***************************************************************************)
EXTENDS CashDesk, Payroll, Staffing, MonthlyBilling

CONSTANTS
  Scenes,    \* bound of the model: requests that are in use together
  MaxDrafts, \* bound of the model: drafts of cash orders at a time
  DraftDays  \* bound of the model: the dates they are given

ASSUME ScenesAssumption ==
  /\ MaxDrafts \in Nat /\ DraftDays \subseteq Days
  /\ Scenes \subseteq SUBSET {"CLOSE", "LOCK", "ORDER", "EXPENSE", "WAGES", "BANK", "HIRE", "MOVE", "BILL"}

VARIABLE scene

officeVars == <<ledgerVars, cashVars, payVars, staffVars, billVars, requestVars, scene>>

Init ==
  /\ scene \in Scenes
  /\ RequestInit /\ LedgerInit /\ CashInit /\ PayInit /\ StaffInit /\ BillInit

\* A request ends without its commit: refusal, time-out, crash.  What it committed
\* before stays: a registry or a draft that was not sent, a line that is not matched.
Abort(c) ==
  /\ Busy(c)
  /\ Finish(c)
  /\ UNCHANGED <<ledgerVars, cashVars, payVars, staffVars, billVars>>

Closing(c) ==
  /\ \/ "CLOSE" \in scene /\ \E m \in Months, op \in {"CLOSE", "DEPRECIATE"} : StartClose(c, op, m)
     \/ "LOCK" \in scene /\ \E u \in Locks : StartPatch(c, u)
     \/ LedgerStep(c)
  /\ UNCHANGED <<cashVars, payVars, staffVars, billVars>>

Cashing(c) ==
  /\ \/ "ORDER" \in scene /\ \E o \in Orders : StartPost(c, o)
     \/ "EXPENSE" \in scene /\ \E d \in Days : StartExpense(c, d)
     \/ CashStep(c)
  /\ UNCHANGED <<payVars, staffVars, billVars>>

Paying(c) ==
  /\ \/ "WAGES" \in scene /\ \E g \in Registries, m \in Months : CreateRegistry(c, g, m)
     \/ "WAGES" \in scene /\ \E g \in Registries : StartPaid(c, g)
     \/ "BANK" \in scene /\ \E p \in Drafts : CreateDraft(c, p)
     \/ "BANK" \in scene /\ \E l \in Lines : ImportLine(c, l)
     \/ PayStep(c)
  /\ UNCHANGED <<cashVars, staffVars, billVars>>

Employing(c) ==
  /\ \/ "HIRE" \in scene /\ \E e \in Employees, p \in Positions : StartHire(c, e, p)
     \/ "HIRE" \in scene /\ \E p \in Positions, n \in 0 .. MaxSlots : StartResize(c, p, n)
     \/ "MOVE" \in scene /\ \E d, p \in Departments : StartMove(c, d, p)
     \/ StaffStep(c)
  /\ UNCHANGED <<ledgerVars, cashVars, payVars, billVars>>

Billing(c) ==
  /\ \/ "BILL" \in scene /\ BillStart(c)
     \/ BillStep(c)
  /\ UNCHANGED <<ledgerVars, cashVars, payVars, staffVars>>

\* The drafts of orders and the days.
Drafting ==
  /\ "ORDER" \in scene
  /\ \/ NextDay /\ UNCHANGED cashVars
     \/ /\ Cardinality({o \in Orders : order[o] = "DRAFT"}) < MaxDrafts
        /\ \E o \in Orders, d \in DraftDays : CreateOrder(o, d)
  /\ UNCHANGED <<payVars, staffVars, billVars>>

Next ==
  /\ \/ Drafting
     \/ "WAGES" \in scene /\ PayInstant /\ UNCHANGED <<cashVars, staffVars, billVars>>
     \/ {"HIRE", "MOVE"} \cap scene # {} /\ StaffInstant /\ UNCHANGED <<ledgerVars, cashVars, payVars, billVars>>
     \/ "BILL" \in scene /\ BillInstant /\ UNCHANGED <<ledgerVars, cashVars, payVars, staffVars>>
     \/ \E c \in Clients :
          Closing(c) \/ Cashing(c) \/ Paying(c) \/ Employing(c) \/ Billing(c) \/ Abort(c)
  /\ UNCHANGED scene

Spec == Init /\ [][Next]_officeVars

-----------------------------------------------------------------------------
(* Properties *)

\* Types of the variables.
BackOfficeTypeOK ==
  /\ LedgerTypeOK
  /\ order \in [Orders -> {"NONE", "DRAFT", "POSTED"}]
  /\ dated \in [Orders -> Days \cup {0}]
  /\ run \in [Months -> {"NONE", "DRAFT", "POSTED"}] /\ runPosted \in [Months -> BOOLEAN]
  /\ registry \in [Registries -> {"NONE", "DRAFT", "SENT", "PAID"}]
  /\ paysFor \in [Registries -> Months \cup {0}]
  /\ draft \in [Drafts -> {"NONE", "PENDING", "SENT", "REJECTED", "COMPLETED"}]
  /\ line \in [Lines -> {"NONE", "NEW", "MATCHED"}]
  /\ settles \in [Lines -> Drafts \cup Registries \cup {None}]
  /\ place \in [Employees -> Positions \cup {None}] /\ slots \in [Positions -> Nat]
  /\ parent \in [Departments -> Departments \cup {None}]
  /\ plan \subseteq Companies /\ standing \in [Companies -> {"ACTIVE", "SOFT_BLOCK", "HARD_BLOCK"}]
  /\ \A b \in Companies : row[b] # None => row[b].since < LastBill + 1 /\ row[b].pending \in BOOLEAN
  /\ unguarded \in BOOLEAN /\ resized \in BOOLEAN
=============================================================================
