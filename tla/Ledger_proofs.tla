--------------------------- MODULE Ledger_proofs ----------------------------
(***************************************************************************)
(* Proofs about the books of BackOffice: fixed assets carry what their     *)
(* rows and account 112 say, the snapshots of closed months are the        *)
(* balances of the journal, nothing is posted into a closed month, and the *)
(* cash is negative on no day.  At the end, from these and the invariants  *)
(* of the other components, the types of all variables of BackOffice.      *)
(*                                                                         *)
(* LedgerInv types the tables and what requests have read of them; each of *)
(* DepreciationInv, OpeningInv and CashInv is inductive beside it.  Forms  *)
(* sorts the steps by what they do to the books: a close or a depreciation *)
(* (LedgerCloses), the cash desk (LedgerCashes), wages paid by hand        *)
(* (LedgerPays), an order drawn up (LedgerDrafts), and all the others,     *)
(* which leave the books alone (LedgerAside).                              *)
(***************************************************************************)
EXTENDS Booking_proofs, Sums_proofs

-----------------------------------------------------------------------------
(* Balances *)

Amounts(E) == IsFiniteSet(E) /\ \A e \in E : e.amount \in Int

\* A balance is an integer, and an entry more changes it by its amount.
LEMMA BalanceAdd ==
  ASSUME NEW E, NEW e, Amounts(E), e \notin E, e.amount \in Int
  PROVE  BalanceOf(E) \in Int /\ BalanceOf(E \cup {e}) = BalanceOf(E) + e.amount
<1>. DEFINE g == [x \in E |-> x.amount]
            f == [x \in E \cup {e} |-> x.amount]
<1>1. IsFiniteSet(E) /\ (\A x \in E : g[x] \in Int /\ f[x] = g[x]) /\ f[e] = e.amount
  BY DEF Amounts
<1>2. BalanceOf(E) = SumOver(g, E) /\ BalanceOf(E \cup {e}) = SumOver(f, E \cup {e})
  BY DEF BalanceOf
<1>. HIDE DEF f, g
<1>3. SumOver(g, E) \in Int
  BY <1>1, SumType
<1>4. SumOver(f, E) = SumOver(g, E)
  BY <1>1, SumSame
<1>5. SumOver(f, E \cup {e}) = SumOver(f, E) + f[e]
  <2>1. IsFiniteSet(E) /\ e \notin E /\ f[e] \in Int /\ \A y \in E : f[y] \in Int
    BY <1>1
  <2>. QED
    BY <2>1, SumAdd
<1>. QED
  BY <1>1, <1>2, <1>3, <1>4, <1>5

\* The balance of finitely many entries is an integer.
LEMMA BalanceType == ASSUME NEW E, Amounts(E) PROVE BalanceOf(E) \in Int
<1>. DEFINE g == [x \in E |-> x.amount]
<1>1. IsFiniteSet(E) /\ \A x \in E : g[x] \in Int
  BY DEF Amounts
<1>2. BalanceOf(E) = SumOver(g, E)
  BY DEF BalanceOf
<1>. HIDE DEF g
<1>. QED
  BY <1>1, <1>2, SumType

\* No entries make no balance.
LEMMA BalanceEmpty == BalanceOf({}) = 0
BY SumEmpty DEF BalanceOf

\* The balance of receipts is not negative.
LEMMA BalancePositive ==
  ASSUME NEW E, Amounts(E), \A e \in E : e.amount >= 0
  PROVE  BalanceOf(E) >= 0
<1>. DEFINE g == [x \in E |-> x.amount]
            z == [x \in E |-> 0]
<1>1. IsFiniteSet(E) /\ (\A x \in E : z[x] \in Int /\ g[x] \in Int /\ z[x] <= g[x]) /\ (\A x \in E : z[x] = 0)
  BY DEF Amounts
<1>2. BalanceOf(E) = SumOver(g, E)
  BY DEF BalanceOf
<1>. HIDE DEF g, z
<1>3. SumOver(z, E) = 0
  BY <1>1, SumZero
<1>4. SumOver(z, E) <= SumOver(g, E)
  BY <1>1, SumMonotonic
<1>. QED
  BY <1>2, <1>3, <1>4

\* The balances of two parts.
LEMMA BalanceUnion ==
  ASSUME NEW D, NEW E, Amounts(D), Amounts(E), D \cap E = {}
  PROVE  BalanceOf(D \cup E) = BalanceOf(D) + BalanceOf(E)
<1>. DEFINE f == [x \in D \cup E |-> x.amount]
            g == [x \in D |-> x.amount]
            h == [x \in E |-> x.amount]
<1>1. /\ IsFiniteSet(D) /\ IsFiniteSet(E) /\ \A x \in D \cup E : f[x] \in Int
      /\ (\A x \in D : f[x] = g[x]) /\ (\A x \in E : f[x] = h[x])
  BY DEF Amounts
<1>2. BalanceOf(D \cup E) = SumOver(f, D \cup E) /\ BalanceOf(D) = SumOver(g, D) /\ BalanceOf(E) = SumOver(h, E)
  BY DEF BalanceOf
<1>. HIDE DEF f, g, h
<1>3. SumOver(f, D) = SumOver(g, D)
  BY <1>1, SumSame
<1>4. SumOver(f, E) = SumOver(h, E)
  BY <1>1, SumSame
<1>5. SumOver(f, D \cup E) = SumOver(f, D) + SumOver(f, E)
  BY <1>1, SumUnion
<1>. QED
  BY <1>2, <1>3, <1>4, <1>5

\* The entries of an account up to a day, and the cash, of any journal.
EntriesIn(J, a, d) == {e \in J : e.account = a /\ e.day <= d /\ e.final}
CashIn(J, d) == {e \in J : e.account = Cash /\ e.day <= d}

\* A new entry counts in the balances of its account from its day on, if it is final.
LEMMA EntriesAdded ==
  ASSUME NEW J, NEW e, NEW a, NEW d, Amounts(J), e \notin J, e.amount \in Int
  PROVE  /\ BalanceOf(EntriesIn(J, a, d)) \in Int
         /\ BalanceOf(EntriesIn(J \cup {e}, a, d)) =
              BalanceOf(EntriesIn(J, a, d)) + (IF e.account = a /\ e.day <= d /\ e.final THEN e.amount ELSE 0)
<1>. DEFINE E == EntriesIn(J, a, d)
<1>1. Amounts(E) /\ e \notin E
  BY FS_Subset DEF Amounts, EntriesIn
<1>2. BalanceOf(E) \in Int
  BY <1>1, BalanceType
<1>3. CASE e.account = a /\ e.day <= d /\ e.final
  <2>1. EntriesIn(J \cup {e}, a, d) = E \cup {e}
    BY <1>3 DEF EntriesIn
  <2>. HIDE DEF E
  <2>2. BalanceOf(E \cup {e}) = BalanceOf(E) + e.amount
    BY <1>1, BalanceAdd
  <2>. QED
    BY <1>2, <1>3, <2>1, <2>2 DEF E
<1>4. CASE ~(e.account = a /\ e.day <= d /\ e.final)
  <2>1. EntriesIn(J \cup {e}, a, d) = E
    BY <1>4 DEF EntriesIn
  <2>. QED
    BY <1>2, <1>4, <2>1
<1>. QED
  BY <1>3, <1>4

\* A new entry counts in the cash from its day on, final or not, if it is of the cash account.
LEMMA CashAdded ==
  ASSUME NEW J, NEW e, NEW d, Amounts(J), e \notin J, e.amount \in Int
  PROVE  /\ BalanceOf(CashIn(J, d)) \in Int
         /\ BalanceOf(CashIn(J \cup {e}, d)) =
              BalanceOf(CashIn(J, d)) + (IF e.account = Cash /\ e.day <= d THEN e.amount ELSE 0)
<1>. DEFINE E == CashIn(J, d)
<1>1. Amounts(E) /\ e \notin E
  BY FS_Subset DEF Amounts, CashIn
<1>2. BalanceOf(E) \in Int
  BY <1>1, BalanceType
<1>3. CASE e.account = Cash /\ e.day <= d
  <2>1. CashIn(J \cup {e}, d) = E \cup {e}
    BY <1>3 DEF CashIn
  <2>. HIDE DEF E
  <2>2. BalanceOf(E \cup {e}) = BalanceOf(E) + e.amount
    BY <1>1, BalanceAdd
  <2>. QED
    BY <1>2, <1>3, <2>1, <2>2 DEF E
<1>4. CASE ~(e.account = Cash /\ e.day <= d)
  <2>1. CashIn(J \cup {e}, d) = E
    BY <1>4 DEF CashIn
  <2>. QED
    BY <1>2, <1>4, <2>1
<1>. QED
  BY <1>3, <1>4

\* While no payout is dated after a day, the cash of later days is not lower.
LEMMA CashLater ==
  ASSUME NEW J, NEW s \in Int, NEW d \in Int, Amounts(J), s <= d, \A e \in J : e.day \in Int,
         \A e \in J : e.account = Cash /\ e.day > s => e.amount >= 0
  PROVE  BalanceOf(CashIn(J, s)) <= BalanceOf(CashIn(J, d))
<1>. DEFINE D == CashIn(J, s)
            E == {e \in J : e.account = Cash /\ e.day > s /\ e.day <= d}
<1>1. D \cap E = {} /\ CashIn(J, d) = D \cup E
  BY DEF CashIn
<1>2. Amounts(D) /\ Amounts(E) /\ \A e \in E : e.amount >= 0
  BY FS_Subset DEF Amounts, CashIn
<1>. HIDE DEF D, E
<1>3. BalanceOf(D \cup E) = BalanceOf(D) + BalanceOf(E) /\ BalanceOf(E) >= 0
  BY <1>1, <1>2, BalanceUnion, BalancePositive
<1>4. BalanceOf(D) \in Int /\ BalanceOf(E) \in Int
  BY <1>2, BalanceType
<1>5. BalanceOf(D) <= BalanceOf(D \cup E)
  BY <1>3, <1>4
<1>. QED
  BY <1>1, <1>5 DEF D

-----------------------------------------------------------------------------
(* Months and days *)

\* A month ends on a day, and is a number.
LEMMA MonthType == ASSUME NEW m \in Months PROVE MonthEnd(m) \in Days /\ m \in Nat
<1>1. MonthDays \in Nat \ {0} /\ LastMonth \in Nat \ {0} /\ m \in 1 .. LastMonth
  BY LedgerAssumption DEF Months
<1>2. m * MonthDays <= LastMonth * MonthDays /\ m * MonthDays >= 1 /\ m * MonthDays \in Nat
  BY <1>1
<1>. QED
  BY <1>1, <1>2 DEF MonthEnd, Days

\* The day of the end of a month is in it; a day up to it is in it or in an earlier one.
LEMMA MonthOfDay ==
  ASSUME NEW d \in Days, NEW m \in Months
  PROVE  /\ MonthOf(d) \in Months
         /\ d <= MonthEnd(m) <=> MonthOf(d) <= m
<1>1. MonthDays \in Nat \ {0} /\ LastMonth \in Nat \ {0} /\ m \in 1 .. LastMonth /\ d \in 1 .. LastMonth * MonthDays
  BY LedgerAssumption DEF Months, Days
<1>. DEFINE K == MonthDays
            q == (d - 1) \div K
            r == (d - 1) % K
<1>2. q \in Int /\ r \in Int /\ d - 1 = K * q + r /\ 0 <= r /\ r < K
  BY <1>1
<1>. HIDE DEF K, q, r
<1>3. K \in Int /\ K > 0
  BY <1>1 DEF K
<1>4. \A x, y \in Int : x <= y => K * x <= K * y
  BY <1>3
<1>5. q >= 0
  <2>1. ASSUME q < 0 PROVE FALSE
    <3>1. K * q <= K * (-1)
      BY <1>2, <1>4, <2>1
    <3>2. d - 1 < 0
      BY <1>1, <1>2, <1>3, <3>1
    <3>. QED
      BY <1>1, <3>2
  <2>. QED
    BY <1>2, <2>1
<1>6. \A n \in Int : d <= n * K <=> q + 1 <= n
  <2>. SUFFICES ASSUME NEW n \in Int PROVE d <= n * K <=> q + 1 <= n
    OBVIOUS
  <2>1. ASSUME q + 1 <= n PROVE d <= n * K
    <3>1. K * (q + 1) <= K * n /\ K * (q + 1) = K * q + K /\ K * n = n * K
      BY <1>2, <1>3, <1>4, <2>1
    <3>2. K * q \in Int /\ n * K \in Int
      BY <1>2, <1>3
    <3>. QED
      BY <1>1, <1>2, <1>3, <3>1, <3>2
  <2>2. ASSUME n <= q PROVE ~(d <= n * K)
    <3>1. K * n <= K * q /\ K * n = n * K
      BY <1>2, <1>3, <1>4, <2>2
    <3>2. K * q \in Int /\ n * K \in Int
      BY <1>2, <1>3
    <3>. QED
      BY <1>1, <1>2, <3>1, <3>2
  <2>. QED
    BY <1>2, <2>1, <2>2
<1>7. q + 1 <= LastMonth
  BY <1>1, <1>6 DEF K
<1>8. MonthOf(d) = q + 1
  BY DEF MonthOf, K, q
<1>9. MonthEnd(m) = m * K /\ m \in Int
  BY <1>1 DEF MonthEnd, K
<1>. QED
  BY <1>1, <1>2, <1>5, <1>6, <1>7, <1>8, <1>9 DEF Months

\* The end of a month lies in it, and the ends of months are ordered as they are.
LEMMA MonthOfEnd ==
  ASSUME NEW m \in Months, NEW n \in Months
  PROVE  /\ MonthOf(MonthEnd(m)) = m
         /\ MonthEnd(m) <= MonthEnd(n) <=> m <= n
<1>1. MonthEnd(m) \in Days /\ MonthOf(MonthEnd(m)) \in Months /\ m \in Int /\ n \in Int
  BY MonthType, MonthOfDay DEF Months
<1>2. MonthOf(MonthEnd(m)) <= m
  <2>1. MonthEnd(m) <= MonthEnd(m)
    BY <1>1 DEF Days
  <2>. QED
    BY <1>1, <2>1, MonthOfDay
<1>3. \A k \in Months : MonthOf(MonthEnd(m)) <= k => m <= k
  <2>. SUFFICES ASSUME NEW k \in Months, MonthOf(MonthEnd(m)) <= k PROVE m <= k
    OBVIOUS
  <2>1. MonthEnd(m) <= MonthEnd(k)
    BY <1>1, MonthOfDay
  <2>2. m * MonthDays <= k * MonthDays /\ k \in Int /\ MonthDays \in Int /\ MonthDays > 0
    BY <2>1, LedgerAssumption DEF MonthEnd, Months
  <2>3. ASSUME k < m PROVE FALSE
    <3>1. \A x, y \in Int : x >= 1 /\ y >= 1 => x * y >= 1
      OBVIOUS
    <3>2. (m - k) * MonthDays >= 1
      BY <1>1, <2>2, <2>3, <3>1
    <3>3. (m - k) * MonthDays = m * MonthDays - k * MonthDays /\ m * MonthDays \in Int /\ k * MonthDays \in Int
      BY <1>1, <2>2
    <3>. QED
      BY <2>2, <3>2, <3>3
  <2>. QED
    BY <1>1, <2>2, <2>3
<1>4. MonthOf(MonthEnd(m)) = m
  <2>1. m <= MonthOf(MonthEnd(m))
    <3>1. PICK k \in Months : k = MonthOf(MonthEnd(m))
      BY <1>1
    <3>2. MonthOf(MonthEnd(m)) <= k
      BY <3>1 DEF Months
    <3>. QED
      BY <1>3, <3>1, <3>2
  <2>. QED
    BY <1>1, <1>2, <2>1 DEF Months
<1>. QED
  BY <1>1, <1>4, MonthOfDay

-----------------------------------------------------------------------------
(* What the books and the requests that wait at them look like *)

\* The steps at which a request waits that reads or writes the books.
CloseSteps == {"post", "rows", "sums", "merge", "close"}
PaidSteps == {"paid", "pay"}
BookSteps == LedgerSteps \cup CashSteps \cup PaidSteps

SettingsDocs == [closed : SUBSET Months, until : 0 .. LastMonth * MonthDays]

EntryOK(e) ==
  /\ e.account \in Accounts /\ e.day \in Days /\ e.amount \in Int
  /\ e.nr \in 1 .. Cardinality(Postings(e.doc))

\* The tables of the books.
TablesOK ==
  /\ IsFiniteSet(journal) /\ (\A e \in journal : EntryOK(e))
  /\ today \in Days /\ settings \in SettingsDocs
  /\ accrued \in [Assets -> [Months -> Nat]] /\ booked \in [Assets -> Nat]
  /\ snap \in [Months -> [Accounts -> Int \cup {None}]]
  /\ disorder \in BOOLEAN /\ unguarded \in BOOLEAN
  /\ dated = [o \in Orders |-> dated[o]] /\ \A o \in Orders : order[o] # "NONE" => dated[o] \in Days

\* What a request has read has the types of what it read.
Carries(c) ==
  LET r == req[c]
  IN  /\ pc[c] \in CloseSteps => r.op \in {"CLOSE", "DEPRECIATE"} /\ r.month \in Months /\ r.rows \in [Assets -> Nat]
      /\ pc[c] = "post" => r.left \subseteq Assets
      /\ pc[c] \in {"merge", "close"} => r.sums \in [Accounts -> Int \cup {None}]
      /\ pc[c] \in {"close", "patch"} => r.doc \in SettingsDocs
      /\ pc[c] \in OrderSteps => order[r.order] # "NONE"
      /\ pc[c] = "mark" => Kind[r.order] = "LINKED"
      /\ pc[c] = "spend" => r.day \in Days

LedgerInv == TablesOK /\ \A c \in Clients : Carries(c)

\* A close leaves its assets within what can be depreciated.
Fits(c) ==
  pc[c] \in CloseSteps => \A a \in Assets : booked[a] + req[c].rows[a] <= MaxDep[a]

DepreciationInv ==
  /\ \A a \in Assets : booked[a] = SumOver(accrued[a], Months)
  /\ Balance(Accumulated, LastMonth * MonthDays) = - SumOver(booked, Assets)
  /\ overlap \/ \A a \in Assets : booked[a] <= MaxDep[a]
  /\ overlap \/ \A c \in Clients : Fits(c)

\* What a request has found open is open; its sums are those of the journal and its
\* document differs from the settings by the month it closes.
Current(c) ==
  LET r == req[c]
  IN  /\ pc[c] \in {"rows", "sums", "merge", "close"} /\ Charged(r) # {} => r.month \notin settings.closed
      /\ pc[c] \in {"merge", "close"} => r.sums = Sums(r.month, Own(r))
      /\ pc[c] = "close" => r.doc.closed = settings.closed \cup {r.month}
      /\ pc[c] = "patch" => r.doc.closed = settings.closed
      /\ pc[c] = "book" => MonthOf(dated[r.order]) \notin settings.closed
      /\ pc[c] = "spend" => MonthOf(r.day) \notin settings.closed
      /\ pc[c] = "pay" /\ Books(r) => paysFor[r.registry] \notin settings.closed

\* The months were closed one after the other, and the snapshots of closed months
\* are balances.
SnapshotsHold ==
  /\ \A m \in settings.closed : \A k \in Months : k < m => k \in settings.closed
  /\ \A m \in Months, a \in Accounts :
       snap[m][a] = None \/ (m \in settings.closed /\ snap[m][a] = Balance(a, MonthEnd(m)))

OpeningInv == overlap \/ disorder \/ (SnapshotsHold /\ \A c \in Clients : Current(c))

\* What a payout of an earlier day has found in the till is still there.
Covered(c) ==
  LET o == req[c].order
  IN  pc[c] \in {"open", "book"} /\ Kind[o] = "KXO" /\ req[c].tested =>
        dated[o] < today /\ \A d \in Days : d >= dated[o] => CashOn(d) >= CashAmount[o]

\* The cash is negative on no day, and nothing is paid out on a day to come.
TillHolds ==
  /\ \A d \in Days : CashOn(d) >= 0
  /\ \A e \in journal : e.account = Cash /\ e.day > today => e.amount >= 0

CashInv == overlap \/ unguarded \/ (TillHolds /\ \A c \in Clients : Covered(c))

-----------------------------------------------------------------------------
(* The steps of the office, as the books see them *)

\* A step that leaves the books as they are and takes no request to one of their
\* steps; a day may pass.
Aside ==
  /\ \A d \in Clients : pc'[d] \in BookSteps =>
       pc'[d] = pc[d] /\ req'[d] = req[d] /\ (overlap' \/ paysFor' = paysFor)
  /\ overlap' \/ ~overlap
  /\ today' = today \/ (today < LastMonth * MonthDays /\ today' = today + 1)
  /\ UNCHANGED <<settings, journal, snap, accrued, booked, disorder>> /\ UNCHANGED cashVars

\* The payment of a registry by hand.
PayingByHand(c) ==
  /\ TestPaid(c) \/ CommitPaid(c) \/ \E g \in Registries : StartPaid(c, g)
  /\ UNCHANGED cashVars

\* The steps at which the other requests of payroll and the bank lines wait.
BesideSteps == {"send", "drafts", "registries", "settle"}

\* The draft of an order, a request of one statement.
DraftedAlone ==
  /\ \E o \in Orders, d \in Days : CreateOrder(o, d)
  /\ pc' = pc /\ req' = req /\ paysFor' = paysFor
  /\ ~overlap' => ~overlap /\ \A d \in Clients : ~Busy(d)

BookForms ==
  \/ Aside
  \/ \E c \in Clients : Solo(c) /\ (Closing(c) \/ Cashing(c)) /\ paysFor' = paysFor
  \/ \E c \in Clients : Solo(c) /\ PayingByHand(c)
  \/ DraftedAlone

\* A request that waits at other steps afterwards.
LEMMA AsideSolo ==
  ASSUME NEW c \in Clients, Solo(c), pc'[c] \notin BookSteps,
         UNCHANGED ledgerVars, UNCHANGED cashVars, paysFor' = paysFor
  PROVE  Aside
BY DEF Solo, Aside, ledgerVars

\* One that uses some steps leaves the others alone.
LEMMA UsesSolo ==
  ASSUME RequestsOK, NEW c \in Clients, NEW steps, Uses(c, steps), "idle" \notin steps
  PROVE  Solo(c) /\ pc'[c] \in steps \cup {"idle"} /\ (pc[c] \in steps \/ pc[c] = "idle")
<1>1. PICK step, r : /\ step \in steps \cup {"idle"}
                     /\ Begin(c, step, r) \/ (pc[c] \in steps /\ Goto(c, step, r))
  BY DEF Uses
<1>2. CASE Begin(c, step, r)
  <2>1. Solo(c) /\ pc'[c] = step
    BY <1>2, BeginSolo
  <2>. QED
    BY <1>1, <1>2, <2>1 DEF Begin, Busy
<1>3. CASE pc[c] \in steps /\ Goto(c, step, r)
  <2>1. Busy(c)
    BY <1>3 DEF Busy
  <2>2. Solo(c) /\ pc'[c] = step
    BY <1>3, <2>1, GotoSolo
  <2>. QED
    BY <1>1, <1>3, <2>2
<1>. QED
  BY <1>1, <1>2, <1>3

\* A request of payroll or of the bank lines books nothing unless it pays by hand.
LEMMA PayingForms ==
  ASSUME RequestsOK, RequestsOK', NEW c \in Clients, Paying(c)
  PROVE  Solo(c) /\ (PayingByHand(c) \/ Aside)
<1>1. Uses(c, PaySteps) /\ "idle" \notin PaySteps
  BY PayingUses DEF PaySteps
<1>2. Solo(c)
  BY <1>1, UsesSolo
<1>3. CASE \E g \in Registries, m \in Months : CreateRegistry(c, g, m)
  <2>1. Begin(c, "send", req'[c]) /\ ~Busy(c) /\ UNCHANGED ledgerVars /\ UNCHANGED cashVars
    BY <1>3 DEF CreateRegistry, Begin, Paying, RequestsOK
  <2>2. pc'[c] = "send"
    BY <2>1, BeginSolo
  <2>3. ASSUME NEW d \in Clients, pc'[d] \in BookSteps
        PROVE  pc'[d] = pc[d] /\ req'[d] = req[d] /\ overlap'
    <3>1. d # c /\ pc'[d] # "idle"
      BY <2>2, <2>3 DEF BookSteps, LedgerSteps, CashSteps, PaidSteps
    <3>2. pc'[d] = pc[d] /\ req'[d] = req[d] /\ Busy(d)
      BY <1>2, <3>1 DEF Solo, Busy
    <3>. QED
      BY <2>1, <3>2 DEF Begin
  <2>4. overlap' \/ ~overlap
    BY <1>2 DEF Solo
  <2>. QED
    BY <1>2, <2>1, <2>3, <2>4 DEF Aside, ledgerVars
<1>4. CASE \/ \E p \in Drafts : CreateDraft(c, p)
           \/ \E l \in Lines : ImportLine(c, l)
           \/ SendRegistry(c) \/ SendDraft(c) \/ ReadDrafts(c) \/ ReadRegistries(c) \/ Settle(c)
  <2>1. Uses(c, BesideSteps) /\ "idle" \notin BesideSteps
    <3>1. CASE \E p \in Drafts : CreateDraft(c, p)
      BY <3>1, UsesBegin DEF CreateDraft, BesideSteps
    <3>5. CASE \E l \in Lines : ImportLine(c, l)
      BY <3>5, UsesBegin DEF ImportLine, BesideSteps
    <3>2. CASE SendRegistry(c) \/ SendDraft(c) \/ Settle(c)
      BY <3>2, UsesFinish DEF SendRegistry, SendDraft, Settle, At, BesideSteps
    <3>3. CASE ReadDrafts(c)
      BY <3>3, UsesGoto DEF ReadDrafts, Choose, At, BesideSteps
    <3>4. CASE ReadRegistries(c)
      BY <3>4, UsesGoto, UsesFinish DEF ReadRegistries, Choose, At, BesideSteps
    <3>. QED
      BY <1>4, <3>1, <3>2, <3>3, <3>4, <3>5 DEF BesideSteps
  <2>6. pc'[c] \in BesideSteps \cup {"idle"}
    BY <2>1, UsesSolo
  <2>7. pc'[c] \notin BookSteps
    BY <2>6 DEF BesideSteps, BookSteps, LedgerSteps, CashSteps, PaidSteps
  <2>8. UNCHANGED ledgerVars /\ UNCHANGED cashVars /\ paysFor' = paysFor
    BY <1>4 DEF Paying, CreateDraft, ImportLine, SendRegistry, SendDraft, ReadDrafts, ReadRegistries, Settle, payVars
  <2>. QED
    BY <1>2, <2>7, <2>8, AsideSolo
<1>5. CASE TestPaid(c) \/ CommitPaid(c) \/ \E g \in Registries : StartPaid(c, g)
  BY <1>2, <1>5 DEF PayingByHand, Paying
<1>. QED
  BY <1>3, <1>4, <1>5 DEF Paying, PayStep

\* A request of staffing or of billing, and one that is given up.
LEMMA OtherForms ==
  ASSUME RequestsOK, NEW c \in Clients, Employing(c) \/ Billing(c) \/ Abort(c)
  PROVE  Aside
<1>1. UNCHANGED ledgerVars /\ UNCHANGED cashVars /\ paysFor' = paysFor
  BY DEF Employing, Billing, Abort, payVars
<1>2. Solo(c) /\ pc'[c] \in StaffSteps \cup BillSteps \cup {"idle"}
  <2>1. CASE Employing(c)
    <3>1. "idle" \notin StaffSteps
      BY DEF StaffSteps
    <3>. QED
      BY <2>1, <3>1, EmployingUses, UsesSolo
  <2>2. CASE Billing(c)
    <3>1. "idle" \notin BillSteps
      BY DEF BillSteps
    <3>. QED
      BY <2>2, <3>1, BillingUses, UsesSolo
  <2>3. CASE Abort(c)
    BY <2>3, FinishSolo DEF Abort
  <2>. QED
    BY <2>1, <2>2, <2>3
<1>3. pc'[c] \notin BookSteps
  BY <1>2 DEF BookSteps, LedgerSteps, CashSteps, PaidSteps, StaffSteps, BillSteps
<1>. QED
  BY <1>1, <1>2, <1>3, AsideSolo

\* A request of one statement elsewhere.
LEMMA InstantAside ==
  ASSUME RequestsOK, Instant, UNCHANGED ledgerVars, UNCHANGED cashVars, paysFor' = paysFor
  PROVE  Aside
<1>1. pc' = pc /\ req' = req /\ (overlap' \/ ~overlap)
  BY InstantSolo
<1>. QED
  BY <1>1 DEF Aside, ledgerVars

\* Every step of the office is one of the forms.
LEMMA Forms == RequestsOK /\ RequestsOK' /\ [Next]_officeVars => BookForms
<1>. SUFFICES ASSUME RequestsOK, RequestsOK', [Next]_officeVars PROVE BookForms
  OBVIOUS
<1>1. CASE UNCHANGED officeVars
  <2>1. Aside
    BY <1>1 DEF officeVars, ledgerVars, payVars, requestVars, Aside
  <2>. QED
    BY <2>1 DEF BookForms
<1>2. CASE Drafting
  <2>1. CASE NextDay /\ UNCHANGED cashVars
    <3>1. Aside
      BY <1>2, <2>1 DEF NextDay, requestVars, payVars, Drafting, Aside
    <3>. QED
      BY <3>1 DEF BookForms
  <2>2. ASSUME NEW o \in Orders, NEW d \in DraftDays, CreateOrder(o, d) PROVE BookForms
    <3>1. d \in Days /\ paysFor' = paysFor /\ Instant
      BY <1>2, <2>2, ScenesAssumption DEF Drafting, payVars, CreateOrder
    <3>2. pc' = pc /\ req' = req /\ (~overlap' => ~overlap /\ \A x \in Clients : ~Busy(x))
      BY <3>1, InstantSolo
    <3>3. DraftedAlone
      BY <2>2, <3>1, <3>2 DEF DraftedAlone
    <3>. QED
      BY <3>3 DEF BookForms
  <2>. QED
    BY <1>2, <2>1, <2>2 DEF Drafting
<1>3. CASE PayInstant /\ UNCHANGED cashVars
  <2>1. Instant /\ UNCHANGED ledgerVars /\ paysFor' = paysFor
    BY <1>3 DEF PayInstant, CreateRun, PostRun
  <2>. QED
    BY <1>3, <2>1, InstantAside DEF BookForms
<1>4. CASE StaffInstant /\ UNCHANGED <<ledgerVars, cashVars, payVars, billVars>>
  <2>1. Instant /\ UNCHANGED ledgerVars /\ UNCHANGED cashVars /\ paysFor' = paysFor
    BY <1>4 DEF StaffInstant, Leave, Detach, payVars
  <2>. QED
    BY <2>1, InstantAside DEF BookForms
<1>5. CASE BillInstant /\ UNCHANGED <<ledgerVars, cashVars, payVars, staffVars>>
  <2>1. Instant /\ UNCHANGED ledgerVars /\ UNCHANGED cashVars /\ paysFor' = paysFor
    BY <1>5 DEF BillInstant, NextBillDay, PayInvoice, PayOrder, payVars
  <2>. QED
    BY <2>1, InstantAside DEF BookForms
<1>6. ASSUME NEW c \in Clients, Closing(c) PROVE BookForms
  <2>1. "idle" \notin LedgerSteps /\ paysFor' = paysFor
    BY <1>6 DEF LedgerSteps, Closing, payVars
  <2>. QED
    BY <1>6, <2>1, ClosingUses, UsesSolo DEF BookForms
<1>7. ASSUME NEW c \in Clients, Cashing(c) PROVE BookForms
  <2>1. "idle" \notin CashSteps /\ paysFor' = paysFor
    BY <1>7 DEF CashSteps, Cashing, payVars
  <2>. QED
    BY <1>7, <2>1, CashingUses, UsesSolo DEF BookForms
<1>. QED
  BY <1>1, <1>2, <1>3, <1>4, <1>5, <1>6, <1>7, PayingForms, OtherForms DEF Next, BookForms

-----------------------------------------------------------------------------
(* What the steps add to the journal *)

FreshEntry(e) ==
  /\ e.account \in Accounts /\ e.day \in Days /\ e.amount \in Int
  /\ e.nr = Cardinality(Postings(e.doc)) + 1

Adds(e) == FreshEntry(e) /\ journal' = journal \cup {e}

\* A new entry is not yet in the journal, and the entries stay numbered.
LEMMA JournalGrows ==
  ASSUME TablesOK, NEW e, Adds(e)
  PROVE  Amounts(journal) /\ e \notin journal /\ IsFiniteSet(journal') /\ \A x \in journal' : EntryOK(x)'
<1>1. Amounts(journal) /\ IsFiniteSet(journal')
  BY FS_Singleton, FS_Union DEF TablesOK, EntryOK, Amounts, Adds
<1>2. \A doc : IsFiniteSet(Postings(doc)) /\ IsFiniteSet(Postings(doc)') /\ Postings(doc) \subseteq Postings(doc)'
  BY <1>1, FS_Subset DEF Postings, Adds, Amounts
<1>3. \A doc : Cardinality(Postings(doc)) \in Nat /\ Cardinality(Postings(doc)') \in Nat
  BY <1>2, FS_CardinalityType
<1>4. e \notin journal
  <2>. SUFFICES ASSUME e \in journal PROVE FALSE
    OBVIOUS
  <2>1. e.nr \in 1 .. Cardinality(Postings(e.doc)) /\ e.nr = Cardinality(Postings(e.doc)) + 1
    BY DEF TablesOK, EntryOK, Adds, FreshEntry
  <2>. QED
    BY <1>3, <2>1
<1>5. \A doc : Cardinality(Postings(doc)) <= Cardinality(Postings(doc)')
  BY <1>2, FS_Subset
<1>6. Cardinality(Postings(e.doc)') = Cardinality(Postings(e.doc)) + 1
  <2>1. Postings(e.doc)' = Postings(e.doc) \cup {e} /\ e \notin Postings(e.doc)
    BY <1>4 DEF Postings, Adds
  <2>. QED
    BY <1>2, <2>1, FS_AddElement
<1>7. ASSUME NEW x \in journal' PROVE EntryOK(x)'
  <2>1. x.account \in Accounts /\ x.day \in Days /\ x.amount \in Int
    BY DEF Adds, FreshEntry, TablesOK, EntryOK
  <2>2. x.nr \in 1 .. Cardinality(Postings(x.doc)')
    <3>1. CASE x \in journal
      <4>1. x.nr \in 1 .. Cardinality(Postings(x.doc))
        BY <3>1 DEF TablesOK, EntryOK
      <4>. QED
        BY <1>3, <1>5, <4>1
    <3>2. CASE x = e
      <4>1. x.nr = Cardinality(Postings(e.doc)) + 1
        BY <3>2 DEF Adds, FreshEntry
      <4>. QED
        BY <1>3, <1>6, <3>2, <4>1
    <3>. QED
      BY <3>1, <3>2 DEF Adds
  <2>. QED
    BY <2>1, <2>2 DEF EntryOK
<1>. QED
  BY <1>1, <1>4, <1>7

\* The fields of an entry.
IsEntry(e, doc, a, d, n) ==
  /\ e = Entry(doc, a, d, n) /\ FreshEntry(e)
  /\ e.account = a /\ e.day = d /\ e.amount = n /\ e.final = TRUE

\* Every document can be given its next entry.
LEMMA EntryFields ==
  ASSUME NEW doc, NEW a \in Accounts, NEW d \in Days, NEW n \in Int
  PROVE  \E e : IsEntry(e, doc, a, d, n)
<1>1. PICK e : e = Entry(doc, a, d, n)
  OBVIOUS
<1>2. e.doc = doc /\ e.nr = Cardinality(Postings(doc)) + 1
      /\ e.account = a /\ e.day = d /\ e.amount = n /\ e.final = TRUE
  BY <1>1 DEF Entry
<1>3. FreshEntry(e)
  BY <1>2 DEF FreshEntry
<1>. QED
  BY <1>1, <1>2, <1>3 DEF IsEntry

\* The entry of the depreciation of a close.
LEMMA OwnEntry ==
  ASSUME NEW r, r.month \in Months, r.rows \in [Assets -> Nat]
  PROVE  /\ IsFiniteSet(Charged(r)) /\ SumOver(r.rows, Charged(r)) \in Int
         /\ Charged(r) = {} => Own(r) = {}
         /\ Charged(r) # {} =>
              \E e : /\ Own(r) = {e} /\ FreshEntry(e)
                     /\ e.account = Accumulated /\ e.day = MonthEnd(r.month) /\ e.final = TRUE
                     /\ e.amount = - SumOver(r.rows, Charged(r))
<1>1. IsFiniteSet(Charged(r)) /\ \A a \in Charged(r) : r.rows[a] \in Int
  BY LedgerAssumption, FS_Subset DEF Charged
<1>. DEFINE C == Charged(r)
            f == r.rows
<1>. HIDE DEF C, f
<1>2. SumOver(f, C) \in Int
  BY <1>1, SumType DEF C, f
<1>3. SumOver(r.rows, Charged(r)) \in Int
  BY <1>2 DEF C, f
<1>4. MonthEnd(r.month) \in Days /\ Accumulated \in Accounts
  BY MonthType DEF Accounts
<1>5. PICK n \in Int : n = - SumOver(r.rows, Charged(r))
  BY <1>3
<1>6. PICK e : IsEntry(e, <<"DEPR", r.month>>, Accumulated, MonthEnd(r.month), n)
  BY <1>4, EntryFields
<1>. QED
  BY <1>1, <1>3, <1>5, <1>6 DEF Own, IsEntry

\* The order that is booked.
LEMMA BookAdds ==
  ASSUME OrderInv, LedgerInv, NEW c \in Clients, BookOrder(c)
  PROVE  LET o == req[c].order
         IN  /\ o \in Orders /\ dated[o] \in Days /\ CashAmount[o] \in Nat
             /\ \/ journal' = journal /\ Kind[o] = "LINKED"
                \/ /\ pc[c] = "book" /\ Kind[o] # "LINKED"
                   /\ \E e : /\ Adds(e) /\ e.day = dated[o] /\ e.final = TRUE
                             /\ \/ Kind[o] = "KMO" /\ e.account = Cash /\ e.amount = CashAmount[o]
                                \/ Kind[o] = "KXO" /\ e.account = Cash /\ e.amount = - CashAmount[o]
                                \/ Kind[o] = "REPORT" /\ e.account = Accountable /\ e.amount = - CashAmount[o]
<1>1. PICK o : o = req[c].order
  OBVIOUS
<1>2. /\ pc[c] \in {"book", "mark"} /\ o \in Orders /\ order[o] # "NONE" /\ (pc[c] = "mark" => Kind[o] = "LINKED")
      /\ journal' = journal \cup Booking(o)
  BY <1>1 DEF BookOrder, OrderInv, Posting, LedgerInv, Carries, OrderSteps
<1>3. dated[o] \in Days /\ CashAmount[o] \in Nat /\ Kind[o] \in {"KMO", "KXO", "LINKED", "REPORT"}
  BY <1>2, CashAssumption DEF LedgerInv, TablesOK
<1>4. Cash \in Accounts /\ Accountable \in Accounts
  BY DEF Accounts
<1>5. CASE Kind[o] = "LINKED"
  BY <1>1, <1>2, <1>3, <1>5 DEF Booking
<1>6. ASSUME NEW a \in Accounts, NEW n \in Int, Booking(o) = {Entry(Order(o), a, dated[o], n)}
      PROVE  \E e : Adds(e) /\ e.day = dated[o] /\ e.final = TRUE /\ e.account = a /\ e.amount = n
  <2>1. PICK e : IsEntry(e, <<"ORDER", o>>, a, dated[o], n)
    BY <1>3, <1>6, EntryFields
  <2>. QED
    BY <1>2, <1>6, <2>1 DEF Adds, Order, IsEntry
<1>7. CASE Kind[o] = "KMO"
  <2>1. Booking(o) = {Entry(Order(o), Cash, dated[o], CashAmount[o])} /\ CashAmount[o] \in Int
    BY <1>3, <1>7 DEF Booking
  <2>2. \E e : Adds(e) /\ e.day = dated[o] /\ e.final = TRUE /\ e.account = Cash /\ e.amount = CashAmount[o]
    BY <1>4, <1>6, <2>1
  <2>. QED
    BY <1>1, <1>2, <1>3, <1>7, <2>2
<1>8. CASE Kind[o] = "KXO"
  <2>1. Booking(o) = {Entry(Order(o), Cash, dated[o], - CashAmount[o])} /\ - CashAmount[o] \in Int
    BY <1>3, <1>8 DEF Booking
  <2>2. \E e : Adds(e) /\ e.day = dated[o] /\ e.final = TRUE /\ e.account = Cash /\ e.amount = - CashAmount[o]
    BY <1>4, <1>6, <2>1
  <2>. QED
    BY <1>1, <1>2, <1>3, <1>8, <2>2
<1>9. CASE Kind[o] = "REPORT"
  <2>1. Booking(o) = {Entry(Order(o), Accountable, dated[o], - CashAmount[o])} /\ - CashAmount[o] \in Int
    BY <1>3, <1>9 DEF Booking
  <2>2. \E e : Adds(e) /\ e.day = dated[o] /\ e.final = TRUE /\ e.account = Accountable /\ e.amount = - CashAmount[o]
    BY <1>4, <1>6, <2>1
  <2>. QED
    BY <1>1, <1>2, <1>3, <1>9, <2>2
<1>. QED
  BY <1>3, <1>5, <1>7, <1>8, <1>9

\* The expense.
LEMMA SpendAdds ==
  ASSUME LedgerInv, NEW c \in Clients, Spend(c)
  PROVE  req[c].day \in Days
         /\ \E e : Adds(e) /\ e.day = req[c].day /\ e.account = Cash /\ e.amount = -1 /\ e.final = TRUE
<1>1. PICK d : d = req[c].day
  OBVIOUS
<1>2. d \in Days /\ journal' = journal \cup {Entry(<<"EXPENSE", d>>, Cash, d, -1)}
  BY <1>1 DEF Spend, At, LedgerInv, Carries
<1>3. Cash \in Accounts /\ -1 \in Int
  BY DEF Accounts
<1>4. PICK e : IsEntry(e, <<"EXPENSE", d>>, Cash, d, -1)
  BY <1>2, <1>3, EntryFields
<1>. QED
  BY <1>1, <1>2, <1>4 DEF Adds, IsEntry

\* The receipt of an invoice is not final.
LEMMA DraftAdds ==
  ASSUME NEW o \in Orders, NEW d \in Days, CreateOrder(o, d)
  PROVE  \/ journal' = journal /\ Kind[o] # "LINKED"
         \/ \E e : Adds(e) /\ e.day = d /\ e.account = Cash /\ e.amount = CashAmount[o] /\ e.final = FALSE
<1>1. CASE Kind[o] # "LINKED"
  BY <1>1 DEF CreateOrder
<1>2. CASE Kind[o] = "LINKED"
  <2>1. PICK e : e = [Entry(<<"PAYMENT", o>>, Cash, d, CashAmount[o]) EXCEPT !.final = FALSE]
    OBVIOUS
  <2>2. e.doc = <<"PAYMENT", o>> /\ e.nr = Cardinality(Postings(<<"PAYMENT", o>>)) + 1
        /\ e.account = Cash /\ e.day = d /\ e.amount = CashAmount[o] /\ e.final = FALSE
    BY <2>1 DEF Entry
  <2>3. Cash \in Accounts /\ CashAmount[o] \in Int
    BY CashAssumption DEF Accounts
  <2>4. journal' = journal \cup {e}
    BY <1>2, <2>1 DEF CreateOrder
  <2>. QED
    BY <2>2, <2>3, <2>4 DEF Adds, FreshEntry
<1>. QED
  BY <1>1, <1>2

\* The wages of a registry.
LEMMA PayAdds ==
  ASSUME PayInv, NEW c \in Clients, CommitPaid(c)
  PROVE  LET m == paysFor[req[c].registry]
         IN  /\ m \in Months
             /\ \/ journal' = journal
                \/ /\ Books(req[c])
                   /\ \E e : /\ Adds(e) /\ e.day = MonthEnd(m) /\ e.account = NetPay
                             /\ e.amount = - Wages[m] /\ e.final = TRUE
<1>1. PICK g : g = req[c].registry
  OBVIOUS
<1>2. PICK m : m = paysFor[g]
  OBVIOUS
<1>3. g \in Registries /\ registry[g] \in {"SENT", "PAID"}
  BY <1>1 DEF CommitPaid, At, PayInv, Waits
<1>4. m \in Months
  BY <1>2, <1>3 DEF PayInv, RegistriesFine
<1>5. journal' = journal \cup (IF Books(req[c]) THEN {Entry(Run(m), NetPay, MonthEnd(m), - Wages[m])} ELSE {})
  BY <1>1, <1>2 DEF CommitPaid
<1>6. MonthEnd(m) \in Days /\ NetPay \in Accounts /\ - Wages[m] \in Int
  BY <1>4, MonthType, PayrollAssumption DEF Accounts
<1>7. PICK e : IsEntry(e, <<"PAY", m>>, NetPay, MonthEnd(m), - Wages[m])
  BY <1>6, EntryFields
<1>8. CASE Books(req[c])
  <2>1. Adds(e)
    BY <1>5, <1>7, <1>8 DEF Adds, Run, IsEntry
  <2>. QED
    BY <1>1, <1>2, <1>4, <1>7, <1>8, <2>1 DEF IsEntry
<1>9. CASE ~Books(req[c])
  BY <1>1, <1>2, <1>4, <1>5, <1>9
<1>. QED
  BY <1>8, <1>9

-----------------------------------------------------------------------------
(* The types of the books and of what requests have read *)

\* A step of a client that leaves what the others have read.
LEMMA LedgerFrame ==
  ASSUME LedgerInv, OrderInv, NEW c \in Clients, Solo(c), TablesOK', Carries(c)',
         \A o \in Orders : order[o] # "NONE" => order'[o] # "NONE"
  PROVE  LedgerInv'
<1>1. ASSUME NEW d \in Clients, d # c PROVE Carries(d)'
  <2>1. Carries(d) /\ pc'[d] = pc[d] /\ req'[d] = req[d]
    BY <1>1 DEF LedgerInv, Solo
  <2>2. pc[d] \in OrderSteps => req[d].order \in Orders
    BY DEF OrderInv, Posting
  <2>. QED
    BY <2>1, <2>2 DEF Carries
<1>. QED
  BY <1>1 DEF LedgerInv

\* The tables are as they were.
LEMMA TablesKept == ASSUME TablesOK, UNCHANGED ledgerVars, UNCHANGED cashVars PROVE TablesOK'
BY DEF TablesOK, EntryOK, Postings, ledgerVars, cashVars

\* A step that only reads.
LEMMA LedgerReads ==
  ASSUME LedgerInv, OrderInv, NEW c \in Clients, Solo(c), UNCHANGED ledgerVars, UNCHANGED cashVars, Carries(c)'
  PROVE  LedgerInv'
<1>1. TablesOK'
  BY TablesKept DEF LedgerInv
<1>2. \A o \in Orders : order[o] # "NONE" => order'[o] # "NONE"
  BY DEF cashVars
<1>. QED
  BY <1>1, <1>2, LedgerFrame

\* A step beside the books.
LEMMA LedgerAside == ASSUME LedgerInv, Aside PROVE LedgerInv'
<1>1. TablesOK'
  <2>1. today' \in Days
    BY LedgerAssumption DEF LedgerInv, TablesOK, Aside, Days
  <2>. QED
    BY <2>1 DEF LedgerInv, TablesOK, EntryOK, Postings, Aside, cashVars
<1>2. ASSUME NEW d \in Clients PROVE Carries(d)'
  <2>1. CASE pc'[d] \in BookSteps
    <3>1. Carries(d) /\ pc'[d] = pc[d] /\ req'[d] = req[d] /\ order' = order
      BY <2>1 DEF LedgerInv, Aside, cashVars
    <3>. QED
      BY <3>1 DEF Carries
  <2>2. CASE pc'[d] \notin BookSteps
    BY <2>2 DEF Carries, BookSteps, LedgerSteps, CashSteps, PaidSteps, CloseSteps, OrderSteps
  <2>. QED
    BY <2>1, <2>2
<1>. QED
  BY <1>1, <1>2 DEF LedgerInv

\* The smaller of two numbers.
LEMMA MinOfTwo ==
  ASSUME NEW x \in Int, NEW y \in Int
  PROVE  \E k \in {x, y} : k = Min({x, y}) /\ k <= x /\ k <= y
<1>1. \E m \in {x, y} : \A n \in {x, y} : m <= n
  <2>1. CASE x <= y
    BY <2>1
  <2>2. CASE y <= x
    BY <2>2
  <2>. QED
    BY <2>1, <2>2
<1>. QED
  BY <1>1 DEF Min

\* What an asset is charged is within what remains.
LEMMA ChargeFits ==
  ASSUME TablesOK, NEW a \in Assets
  PROVE  Charge(a) \in Nat /\ (booked[a] <= MaxDep[a] => booked[a] + Charge(a) <= MaxDep[a])
<1>1. MaxDep[a] \in Nat /\ Monthly[a] \in Nat /\ booked[a] \in Nat
  BY LedgerAssumption DEF TablesOK
<1>2. CASE booked[a] < MaxDep[a]
  <2>1. Charge(a) = Min({Monthly[a], MaxDep[a] - booked[a]})
    BY <1>2 DEF Charge
  <2>2. PICK n \in Int : n = MaxDep[a] - booked[a]
    BY <1>1
  <2>3. Monthly[a] \in Int
    BY <1>1
  <2>4. PICK k \in {Monthly[a], n} : k = Min({Monthly[a], n}) /\ k <= Monthly[a] /\ k <= n
    BY <2>3, MinOfTwo
  <2>5. Charge(a) = k
    BY <2>1, <2>2, <2>4
  <2>6. k \in Nat
    BY <1>1, <1>2, <2>2, <2>4
  <2>7. booked[a] + k <= MaxDep[a]
    BY <1>1, <2>2, <2>4
  <2>. QED
    BY <2>5, <2>6, <2>7
<1>3. CASE ~(booked[a] < MaxDep[a])
  BY <1>1, <1>3 DEF Charge
<1>. QED
  BY <1>2, <1>3

\* The sums of a close are integers.
LEMMA SumsType ==
  ASSUME TablesOK, NEW r, r.month \in Months, r.rows \in [Assets -> Nat]
  PROVE  Sums(r.month, Own(r)) \in [Accounts -> Int \cup {None}]
<1>1. ASSUME NEW a \in Accounts
      PROVE  BalanceOf(Entries(a, MonthEnd(r.month)) \cup {e \in Own(r) : e.account = a}) \in Int
  <2>1. Amounts(Own(r))
    <3>1. CASE Charged(r) = {}
      BY <3>1, OwnEntry, FS_EmptySet DEF Amounts
    <3>2. CASE Charged(r) # {}
      <4>1. PICK e : Own(r) = {e} /\ FreshEntry(e)
        BY <3>2, OwnEntry
      <4>2. IsFiniteSet({e}) /\ e.amount \in Int
        BY <4>1, FS_Singleton DEF FreshEntry
      <4>. QED
        BY <4>1, <4>2 DEF Amounts
    <3>. QED
      BY <3>1, <3>2
  <2>2. Amounts(Entries(a, MonthEnd(r.month))) /\ Amounts({e \in Own(r) : e.account = a})
    BY <2>1, FS_Subset DEF TablesOK, EntryOK, Entries, Amounts
  <2>3. Amounts(Entries(a, MonthEnd(r.month)) \cup {e \in Own(r) : e.account = a})
    BY <2>2, FS_Union DEF Amounts
  <2>. QED
    BY <2>3, BalanceType
<1>. QED
  BY <1>1 DEF Sums

\* The rows that a close writes.
LEMMA RowsWritten ==
  ASSUME TablesOK, NEW r, r.month \in Months, r.rows \in [Assets -> Nat], WriteRows(r)
  PROVE  /\ IsFiniteSet(journal') /\ \A x \in journal' : EntryOK(x)'
         /\ accrued' \in [Assets -> [Months -> Nat]] /\ booked' \in [Assets -> Nat]
<1>1. IsFiniteSet(journal') /\ \A x \in journal' : EntryOK(x)'
  <2>1. CASE Charged(r) = {}
    <3>1. journal' = journal
      BY <2>1, OwnEntry DEF WriteRows
    <3>. QED
      BY <3>1 DEF TablesOK, EntryOK, Postings
  <2>2. CASE Charged(r) # {}
    <3>1. PICK e : Own(r) = {e} /\ FreshEntry(e)
      BY <2>2, OwnEntry
    <3>2. Adds(e)
      BY <3>1 DEF WriteRows, Adds
    <3>. QED
      BY <3>2, JournalGrows
  <2>. QED
    BY <2>1, <2>2
<1>2. booked' \in [Assets -> Nat]
  BY DEF WriteRows, TablesOK
<1>3. accrued' \in [Assets -> [Months -> Nat]]
  <2>1. ASSUME NEW a \in Assets PROVE [accrued[a] EXCEPT ![r.month] = @ + r.rows[a]] \in [Months -> Nat]
    BY DEF TablesOK
  <2>. QED
    BY <2>1 DEF WriteRows
<1>. QED
  BY <1>1, <1>2, <1>3

\* A close looks up the row of an asset: s is its request then.
Looks(c, s) ==
  LET r == req[c]
  IN  /\ pc[c] = "post" /\ UNCHANGED ledgerVars /\ Goto(c, "post", s)
      /\ s.op = r.op /\ s.month = r.month /\ s.left \subseteq r.left
      /\ \E a \in r.left : \E x \in {0, r.rows[a]} : s.rows = [r.rows EXCEPT ![a] = x]

LEMMA FoundRow == ASSUME NEW c \in Clients, FindRow(c) PROVE \E s : Looks(c, s)
<1>1. PICK r : r = req[c]
  OBVIOUS
<1>2. PICK a \in r.left :
        Goto(c, "post", [op |-> r.op, month |-> r.month, left |-> r.left \ {a},
                         rows |-> [r.rows EXCEPT ![a] = IF accrued[a][r.month] = 0 THEN r.rows[a] ELSE 0]])
  BY <1>1 DEF FindRow
<1>3. PICK f : f = [r.rows EXCEPT ![a] = IF accrued[a][r.month] = 0 THEN r.rows[a] ELSE 0]
  OBVIOUS
<1>4. PICK s : s = [op |-> r.op, month |-> r.month, left |-> r.left \ {a}, rows |-> f]
  OBVIOUS
<1>5. Goto(c, "post", s)
  BY <1>2, <1>3, <1>4
<1>6. s.op = r.op /\ s.month = r.month /\ s.left \subseteq r.left /\ s.rows = f
  BY <1>4
<1>7. \E x \in {0, r.rows[a]} : f = [r.rows EXCEPT ![a] = x]
  BY <1>3
<1>8. pc[c] = "post" /\ UNCHANGED ledgerVars
  BY DEF FindRow
<1>9. \E b \in r.left : \E x \in {0, r.rows[b]} : s.rows = [r.rows EXCEPT ![b] = x]
  BY <1>2, <1>6, <1>7
<1>10. /\ s.op = req[c].op /\ s.month = req[c].month /\ s.left \subseteq req[c].left
       /\ \E b \in req[c].left : \E x \in {0, req[c].rows[b]} : s.rows = [req[c].rows EXCEPT ![b] = x]
  BY <1>1, <1>6, <1>9
<1>. QED
  BY <1>5, <1>8, <1>10 DEF Looks

\* What it charges is at most what it charged before.
LEMMA LooksDown ==
  ASSUME NEW c \in Clients, NEW s, Looks(c, s), req[c].rows \in [Assets -> Nat], req[c].left \subseteq Assets
  PROVE  /\ s.op = req[c].op /\ s.month = req[c].month /\ s.left \subseteq Assets
         /\ s.rows \in [Assets -> Nat] /\ \A a \in Assets : s.rows[a] <= req[c].rows[a]
<1>1. PICK f : f = req[c].rows /\ f \in [Assets -> Nat]
  OBVIOUS
<1>2. PICK a \in Assets : \E x \in {0, f[a]} : s.rows = [f EXCEPT ![a] = x]
  BY <1>1 DEF Looks
<1>3. PICK x \in {0, f[a]} : s.rows = [f EXCEPT ![a] = x]
  BY <1>2
<1>4. x \in Nat /\ x <= f[a]
  BY <1>1, <1>3
<1>5. s.rows \in [Assets -> Nat] /\ \A b \in Assets : s.rows[b] <= f[b]
  BY <1>1, <1>3, <1>4
<1>. QED
  BY <1>1, <1>5 DEF Looks

\* The requests that close or depreciate.
LEMMA LedgerCloses ==
  ASSUME LedgerInv, OrderInv, NEW c \in Clients, Solo(c), Closing(c)
  PROVE  LedgerInv'
<1>. DEFINE r == req[c]
<1>0. TablesOK /\ Carries(c) /\ RequestsOK
  BY DEF LedgerInv, OrderInv
<1>1. ASSUME NEW m \in Months, NEW op \in {"CLOSE", "DEPRECIATE"}, StartClose(c, op, m) PROVE LedgerInv'
  <2>1. PICK s : s = [op |-> op, month |-> m, rows |-> [a \in Assets |-> Charge(a)], left |-> Assets]
    OBVIOUS
  <2>2. pc'[c] = "post" /\ req'[c] = s
    BY <1>0, <1>1, <2>1, BeginSolo DEF StartClose
  <2>3. s.op = op /\ s.month = m /\ s.rows \in [Assets -> Nat] /\ s.left = Assets
    BY <1>0, <2>1, ChargeFits
  <2>4. Carries(c)'
    BY <2>2, <2>3 DEF Carries, OrderSteps
  <2>. QED
    BY <1>1, <2>4, LedgerReads DEF StartClose, Closing
<1>2. ASSUME NEW u \in Locks, StartPatch(c, u) PROVE LedgerInv'
  <2>1. PICK doc : doc = IF u = None THEN settings ELSE [settings EXCEPT !.until = u]
    OBVIOUS
  <2>2. pc'[c] = "patch" /\ req'[c] = [op |-> "PATCH", doc |-> doc]
    BY <1>0, <1>2, <2>1, BeginSolo DEF StartPatch
  <2>3. doc \in SettingsDocs
    BY <1>0, <2>1, LedgerAssumption DEF TablesOK, SettingsDocs
  <2>4. Carries(c)'
    BY <2>2, <2>3 DEF Carries, OrderSteps, CloseSteps
  <2>. QED
    BY <1>2, <2>4, LedgerReads DEF StartPatch, Closing
<1>3. CASE (PostDepreciation(c) \/ Accrue(c)) /\ UNCHANGED cashVars
  <2>1. pc[c] \in {"post", "rows"} /\ Busy(c) /\ UNCHANGED ledgerVars
    BY <1>3 DEF PostDepreciation, Accrue, Busy
  <2>2. Finish(c) \/ \E step \in {"rows", "sums"} : Goto(c, step, r)
    BY <1>3 DEF PostDepreciation, Accrue, CheckOpen
  <2>3. pc'[c] = "idle" \/ (pc'[c] \in {"rows", "sums"} /\ req'[c] = r)
    BY <1>0, <2>1, <2>2, FinishSolo, GotoSolo
  <2>4. Carries(c)'
    BY <1>0, <2>1, <2>3 DEF Carries, OrderSteps, CloseSteps
  <2>. QED
    BY <1>3, <2>1, <2>4, LedgerReads
<1>4. CASE TakeSums(c) /\ UNCHANGED cashVars
  <2>1. pc[c] = "sums" /\ Busy(c)
    BY <1>4 DEF TakeSums, At, Busy
  <2>2. PICK s : s = [op |-> "CLOSE", month |-> r.month, rows |-> r.rows, sums |-> Sums(r.month, Own(r))]
    OBVIOUS
  <2>3. pc'[c] = "merge" /\ req'[c] = s
    BY <1>0, <1>4, <2>1, <2>2, GotoSolo DEF TakeSums
  <2>4. r.month \in Months /\ r.rows \in [Assets -> Nat]
    BY <1>0, <2>1 DEF Carries, CloseSteps
  <2>. HIDE DEF r
  <2>5. s.op = "CLOSE" /\ s.month \in Months /\ s.rows \in [Assets -> Nat] /\ s.sums \in [Accounts -> Int \cup {None}]
    BY <1>0, <2>2, <2>4, SumsType
  <2>6. Carries(c)'
    BY <2>3, <2>5 DEF Carries, OrderSteps, CloseSteps
  <2>. QED
    BY <1>4, <2>6, LedgerReads DEF TakeSums
<1>5. CASE MergeClosed(c) /\ UNCHANGED cashVars
  <2>1. pc[c] = "merge" /\ Busy(c)
    BY <1>5 DEF MergeClosed, At, Busy
  <2>2. PICK s : s = [op |-> "CLOSE", month |-> r.month, rows |-> r.rows, sums |-> r.sums,
                      doc |-> [settings EXCEPT !.closed = @ \cup {r.month}]]
    OBVIOUS
  <2>3. pc'[c] = "close" /\ req'[c] = s
    BY <1>0, <1>5, <2>1, <2>2, GotoSolo DEF MergeClosed
  <2>4. r.month \in Months /\ r.rows \in [Assets -> Nat] /\ r.sums \in [Accounts -> Int \cup {None}]
    BY <1>0, <2>1 DEF Carries, CloseSteps
  <2>5. [settings EXCEPT !.closed = @ \cup {r.month}] \in SettingsDocs
    BY <1>0, <2>4 DEF TablesOK, SettingsDocs
  <2>6. /\ s.op = "CLOSE" /\ s.month \in Months /\ s.rows \in [Assets -> Nat] /\ s.sums \in [Accounts -> Int \cup {None}]
        /\ s.doc \in SettingsDocs
    BY <2>2, <2>4, <2>5
  <2>7. Carries(c)'
    BY <2>3, <2>6 DEF Carries, OrderSteps, CloseSteps
  <2>. QED
    BY <1>5, <2>7, LedgerReads DEF MergeClosed
<1>6. CASE (CommitDepreciation(c) \/ CommitClose(c)) /\ UNCHANGED cashVars
  <2>1. pc[c] \in {"sums", "close"} /\ Busy(c) /\ WriteRows(r) /\ Finish(c)
    BY <1>6 DEF CommitDepreciation, CommitClose, At, Busy
  <2>2. r.month \in Months /\ r.rows \in [Assets -> Nat]
    BY <1>0, <2>1 DEF Carries, CloseSteps
  <2>3. pc'[c] = "idle"
    BY <1>0, <2>1, FinishSolo
  <2>4. Carries(c)'
    BY <2>3 DEF Carries, OrderSteps, CloseSteps
  <2>5. /\ IsFiniteSet(journal') /\ \A x \in journal' : EntryOK(x)'
        /\ accrued' \in [Assets -> [Months -> Nat]] /\ booked' \in [Assets -> Nat]
    <3>. HIDE DEF r
    <3>. QED
      BY <1>0, <2>1, <2>2, RowsWritten
  <2>6. /\ today' \in Days /\ settings' \in SettingsDocs /\ snap' \in [Months -> [Accounts -> Int \cup {None}]]
        /\ disorder' \in BOOLEAN
    <3>1. CASE CommitDepreciation(c)
      BY <1>0, <3>1 DEF CommitDepreciation, TablesOK
    <3>2. CASE CommitClose(c)
      <4>1. r.sums \in [Accounts -> Int \cup {None}] /\ r.doc \in SettingsDocs
        BY <1>0, <3>2 DEF CommitClose, At, Carries
      <4>. DEFINE f == [a \in Accounts |-> IF r.sums[a] = None THEN snap[r.month][a] ELSE r.sums[a]]
      <4>2. f \in [Accounts -> Int \cup {None}]
        BY <1>0, <2>2, <4>1 DEF TablesOK
      <4>3. snap' = [snap EXCEPT ![r.month] = f]
        BY <3>2 DEF CommitClose
      <4>4. settings' = r.doc /\ today' = today /\ disorder' \in BOOLEAN
        BY <3>2 DEF CommitClose
      <4>. QED
        BY <1>0, <2>2, <4>1, <4>2, <4>3, <4>4 DEF TablesOK
    <3>. QED
      BY <1>6, <3>1, <3>2
  <2>7. TablesOK' /\ order' = order
    BY <1>0, <1>6, <2>5, <2>6 DEF TablesOK, cashVars
  <2>. QED
    BY <2>4, <2>7, LedgerFrame
<1>7. CASE CommitPatch(c) /\ UNCHANGED cashVars
  <2>1. pc[c] = "patch" /\ Busy(c) /\ Finish(c) /\ settings' = r.doc
    BY <1>7 DEF CommitPatch, At, Busy
  <2>2. pc'[c] = "idle" /\ r.doc \in SettingsDocs
    BY <1>0, <2>1, FinishSolo DEF Carries
  <2>3. Carries(c)'
    BY <2>2 DEF Carries, OrderSteps, CloseSteps
  <2>4. TablesOK' /\ order' = order
    BY <1>0, <1>7, <2>1, <2>2 DEF TablesOK, CommitPatch, EntryOK, Postings, cashVars
  <2>. QED
    BY <2>3, <2>4, LedgerFrame
<1>8. CASE FindRow(c) /\ UNCHANGED cashVars
  <2>1. PICK s : Looks(c, s)
    BY <1>8, FoundRow
  <2>2. pc'[c] = "post" /\ req'[c] = s
    BY <1>0, <2>1, GotoSolo DEF Looks, Busy
  <2>3. r.op \in {"CLOSE", "DEPRECIATE"} /\ r.month \in Months /\ r.rows \in [Assets -> Nat] /\ r.left \subseteq Assets
    BY <1>0, <2>1 DEF Looks, Carries, CloseSteps
  <2>4. s.op = r.op /\ s.month = r.month /\ s.rows \in [Assets -> Nat] /\ s.left \subseteq Assets
    BY <2>1, <2>3, LooksDown
  <2>5. Carries(c)'
    BY <2>2, <2>3, <2>4 DEF Carries, OrderSteps
  <2>. QED
    BY <1>8, <2>1, <2>5, LedgerReads DEF Looks
<1>. QED
  BY <1>1, <1>2, <1>3, <1>4, <1>5, <1>6, <1>7, <1>8 DEF Closing, LedgerStep

\* The tables when the journal grows by an entry and nothing else changes.
LEMMA TablesGrow ==
  ASSUME TablesOK, NEW e, Adds(e), UNCHANGED <<today, settings, snap, accrued, booked, disorder, dated>>,
         unguarded' \in BOOLEAN, \A o \in Orders : order[o] = "NONE" => order'[o] = "NONE"
  PROVE  TablesOK'
<1>1. IsFiniteSet(journal') /\ \A x \in journal' : EntryOK(x)'
  BY JournalGrows
<1>2. \A o \in Orders : order'[o] # "NONE" => dated'[o] \in Days
  BY DEF TablesOK
<1>. QED
  BY <1>1, <1>2 DEF TablesOK

\* The requests of the cash desk.
LEMMA LedgerCashes ==
  ASSUME LedgerInv, OrderInv, NEW c \in Clients, Solo(c), Cashing(c)
  PROVE  LedgerInv'
<1>0. TablesOK /\ Carries(c) /\ RequestsOK
  BY DEF LedgerInv, OrderInv
<1>1. ASSUME NEW o \in Orders, StartPost(c, o) PROVE LedgerInv'
  <2>1. PICK step \in {"gap", "mark"} : /\ step = (IF Kind[o] = "LINKED" THEN "mark" ELSE "gap")
                                        /\ Begin(c, step, [op |-> "POST", order |-> o])
    BY <1>1 DEF StartPost
  <2>2. pc'[c] = step /\ req'[c] = [op |-> "POST", order |-> o] /\ order'[o] = "DRAFT"
    BY <1>0, <1>1, <2>1, BeginSolo DEF StartPost, cashVars
  <2>3. Carries(c)'
    BY <2>1, <2>2 DEF Carries, OrderSteps, CloseSteps
  <2>. QED
    BY <1>1, <2>3, LedgerReads DEF StartPost
<1>2. ASSUME NEW d \in Days, StartExpense(c, d) PROVE LedgerInv'
  <2>1. pc'[c] = "spend" /\ req'[c] = [op |-> "EXPENSE", day |-> d]
    BY <1>0, <1>2, BeginSolo DEF StartExpense
  <2>2. Carries(c)'
    BY <2>1 DEF Carries, OrderSteps, CloseSteps
  <2>. QED
    BY <1>2, <2>2, LedgerReads DEF StartExpense
<1>3. CASE TestGap(c)
  <2>1. PICK o : o = req[c].order
    OBVIOUS
  <2>2. pc[c] = "gap" /\ Busy(c) /\ order[o] # "NONE" /\ order' = order
    BY <1>0, <1>3, <2>1 DEF TestGap, At, Busy, Carries, OrderSteps, cashVars
  <2>3. Finish(c) \/ \E b : Goto(c, "open", [op |-> "POST", order |-> o, tested |-> b])
    BY <1>3, <2>1 DEF TestGap
  <2>4. pc'[c] = "idle" \/ (pc'[c] = "open" /\ req'[c].order = o)
    <3>1. CASE Finish(c)
      BY <1>0, <2>2, <3>1, FinishSolo
    <3>2. ASSUME NEW b, Goto(c, "open", [op |-> "POST", order |-> o, tested |-> b])
          PROVE  pc'[c] = "open" /\ req'[c].order = o
      <4>1. pc'[c] = "open" /\ req'[c] = [op |-> "POST", order |-> o, tested |-> b]
        BY <1>0, <2>2, <3>2, GotoSolo
      <4>. QED
        BY <4>1
    <3>. QED
      BY <2>3, <3>1, <3>2
  <2>5. Carries(c)'
    BY <2>2, <2>4 DEF Carries, OrderSteps, CloseSteps
  <2>. QED
    BY <1>3, <2>5, LedgerReads DEF TestGap
<1>4. CASE TestOpen(c)
  <2>1. PICK r : r = req[c]
    OBVIOUS
  <2>2. pc[c] = "open" /\ Busy(c) /\ order[r.order] # "NONE" /\ order' = order
    BY <1>0, <1>4, <2>1 DEF TestOpen, At, Busy, Carries, OrderSteps, cashVars
  <2>3. Finish(c) \/ Goto(c, "book", r)
    BY <1>4, <2>1 DEF TestOpen, CheckOpen
  <2>4. pc'[c] = "idle" \/ (pc'[c] = "book" /\ req'[c] = r)
    BY <1>0, <2>2, <2>3, FinishSolo, GotoSolo
  <2>5. Carries(c)'
    BY <2>2, <2>4 DEF Carries, OrderSteps, CloseSteps
  <2>. QED
    BY <1>4, <2>5, LedgerReads DEF TestOpen
<1>5. CASE BookOrder(c)
  <2>1. PICK o : o = req[c].order
    OBVIOUS
  <2>2. /\ Busy(c) /\ Finish(c) /\ o \in Orders /\ order[o] # "NONE" /\ order' = [order EXCEPT ![o] = "POSTED"]
        /\ UNCHANGED <<today, settings, snap, accrued, booked, disorder, dated>>
    BY <1>0, <1>5, <2>1 DEF BookOrder, Busy, Carries, OrderSteps, OrderInv, Posting
  <2>3. unguarded' \in BOOLEAN
    BY <1>5 DEF BookOrder
  <2>4. Carries(c)'
    <3>1. pc'[c] = "idle"
      BY <1>0, <2>2, FinishSolo
    <3>. QED
      BY <3>1 DEF Carries, OrderSteps, CloseSteps
  <2>5. \A p \in Orders : (order[p] = "NONE" => order'[p] = "NONE") /\ (order[p] # "NONE" => order'[p] # "NONE")
    BY <2>2 DEF OrderInv
  <2>6. TablesOK'
    <3>1. CASE journal' = journal
      BY <1>0, <2>2, <2>3, <2>5, <3>1 DEF TablesOK, EntryOK, Postings
    <3>2. CASE journal' # journal
      <4>1. PICK e : Adds(e)
        BY <1>5, <3>2, BookAdds
      <4>. QED
        BY <1>0, <2>2, <2>3, <2>5, <4>1, TablesGrow
    <3>. QED
      BY <3>1, <3>2
  <2>. QED
    BY <2>4, <2>5, <2>6, LedgerFrame
<1>6. CASE Spend(c)
  <2>1. /\ Busy(c) /\ Finish(c) /\ order' = order /\ unguarded' = TRUE
        /\ UNCHANGED <<today, settings, snap, accrued, booked, disorder, dated>>
    BY <1>6 DEF Spend, At, Busy
  <2>2. Carries(c)'
    <3>1. pc'[c] = "idle"
      BY <1>0, <2>1, FinishSolo
    <3>. QED
      BY <3>1 DEF Carries, OrderSteps, CloseSteps
  <2>3. PICK e : Adds(e)
    BY <1>6, SpendAdds
  <2>4. TablesOK'
    BY <1>0, <2>1, <2>3, TablesGrow
  <2>. QED
    BY <2>1, <2>2, <2>4, LedgerFrame
<1>. QED
  BY <1>1, <1>2, <1>3, <1>4, <1>5, <1>6 DEF Cashing, CashStep

\* The payment of a registry by hand.
LEMMA LedgerPays ==
  ASSUME LedgerInv, OrderInv, PayInv, NEW c \in Clients, Solo(c), PayingByHand(c)
  PROVE  LedgerInv'
<1>0. TablesOK /\ RequestsOK
  BY DEF LedgerInv, OrderInv
<1>1. pc'[c] \in {"idle", "paid", "pay"}
  <2>1. ASSUME NEW g \in Registries, StartPaid(c, g) PROVE pc'[c] = "paid"
    BY <1>0, <2>1, BeginSolo DEF StartPaid
  <2>2. CASE TestPaid(c)
    <3>1. Busy(c) /\ (Finish(c) \/ Goto(c, "pay", req[c]))
      BY <2>2 DEF TestPaid, At, Busy, CheckOpen
    <3>. QED
      BY <1>0, <3>1, FinishSolo, GotoSolo
  <2>3. CASE CommitPaid(c)
    <3>1. Busy(c) /\ Finish(c)
      BY <2>3 DEF CommitPaid, At, Busy
    <3>. QED
      BY <1>0, <3>1, FinishSolo
  <2>. QED
    BY <2>1, <2>2, <2>3 DEF PayingByHand
<1>2. Carries(c)'
  BY <1>1 DEF Carries, OrderSteps, CloseSteps
<1>3. UNCHANGED cashVars
  BY DEF PayingByHand
<1>4. CASE CommitPaid(c)
  <2>1. UNCHANGED <<today, settings, snap, accrued, booked, disorder>>
    BY <1>4 DEF CommitPaid
  <2>2. TablesOK'
    <3>1. CASE journal' = journal
      BY <1>0, <1>3, <2>1, <3>1 DEF TablesOK, EntryOK, Postings, cashVars
    <3>2. CASE journal' # journal
      <4>1. PICK e : Adds(e)
        BY <1>4, <3>2, PayAdds
      <4>2. unguarded' \in BOOLEAN /\ dated' = dated /\ \A o \in Orders : order[o] = "NONE" => order'[o] = "NONE"
        BY <1>0, <1>3 DEF TablesOK, cashVars
      <4>. QED
        BY <1>0, <2>1, <4>1, <4>2, TablesGrow
    <3>. QED
      BY <3>1, <3>2
  <2>3. \A o \in Orders : order[o] # "NONE" => order'[o] # "NONE"
    BY <1>3 DEF cashVars
  <2>. QED
    BY <1>2, <2>2, <2>3, LedgerFrame
<1>5. CASE ~CommitPaid(c)
  <2>1. UNCHANGED ledgerVars
    BY <1>5 DEF PayingByHand, TestPaid, StartPaid
  <2>. QED
    BY <1>2, <1>3, <2>1, LedgerReads
<1>. QED
  BY <1>4, <1>5

\* The draft of an order.
LEMMA LedgerDrafts == ASSUME LedgerInv, OrderInv, DraftedAlone PROVE LedgerInv'
<1>1. PICK o \in Orders, d \in Days : CreateOrder(o, d)
  BY DEF DraftedAlone
<1>2. /\ order' = [order EXCEPT ![o] = "DRAFT"] /\ dated' = [dated EXCEPT ![o] = d]
      /\ UNCHANGED <<today, settings, snap, accrued, booked, disorder, unguarded>>
      /\ pc' = pc /\ req' = req
  BY <1>1 DEF CreateOrder, DraftedAlone
<1>3. \A p \in Orders : /\ order'[p] = IF p = o THEN "DRAFT" ELSE order[p]
                        /\ dated'[p] = IF p = o THEN d ELSE dated[p]
  BY <1>2 DEF OrderInv, LedgerInv, TablesOK
<1>4. IsFiniteSet(journal') /\ \A x \in journal' : EntryOK(x)'
  <2>1. CASE journal' = journal
    BY <2>1 DEF LedgerInv, TablesOK, EntryOK, Postings
  <2>2. CASE journal' # journal
    <3>1. PICK e : Adds(e)
      BY <1>1, <2>2, DraftAdds
    <3>. QED
      BY <3>1, JournalGrows DEF LedgerInv
  <2>. QED
    BY <2>1, <2>2
<1>5. dated' = [p \in Orders |-> dated'[p]] /\ \A p \in Orders : order'[p] # "NONE" => dated'[p] \in Days
  BY <1>2, <1>3 DEF LedgerInv, TablesOK
<1>6. TablesOK'
  BY <1>2, <1>4, <1>5 DEF LedgerInv, TablesOK
<1>7. ASSUME NEW c \in Clients PROVE Carries(c)'
  <2>1. Carries(c) /\ (pc[c] \in OrderSteps => req[c].order \in Orders)
    BY DEF LedgerInv, OrderInv, Posting
  <2>. QED
    BY <1>2, <1>3, <2>1 DEF Carries
<1>. QED
  BY <1>6, <1>7 DEF LedgerInv

\* At first the books are empty.
LEMMA LedgerInitial == Init => LedgerInv
<1>. SUFFICES ASSUME Init PROVE LedgerInv
  OBVIOUS
<1>1. journal = {} /\ IsFiniteSet(journal)
  BY FS_EmptySet DEF Init, LedgerInit
<1>2. 1 \in Days
  <2>1. PICK n \in Nat : n = LastMonth * MonthDays /\ n >= 1
    BY LedgerAssumption
  <2>. QED
    BY <2>1 DEF Days
<1>3. /\ today = 1 /\ settings = [closed |-> {}, until |-> 0] /\ disorder = FALSE
      /\ snap = [m \in Months |-> [a \in Accounts |-> None]]
      /\ accrued = [a \in Assets |-> [m \in Months |-> 0]] /\ booked = [a \in Assets |-> 0]
  BY DEF Init, LedgerInit
<1>4. order = [o \in Orders |-> "NONE"] /\ dated = [o \in Orders |-> 0] /\ unguarded = FALSE
  BY DEF Init, CashInit
<1>5. snap \in [Months -> [Accounts -> Int \cup {None}]]
  BY <1>3
<1>6. TablesOK
  <2>1. settings \in SettingsDocs
    <3>1. PICK n \in Nat : n = LastMonth * MonthDays
      BY LedgerAssumption
    <3>2. 0 \in 0 .. n
      BY <3>1
    <3>. QED
      BY <1>3, <3>1, <3>2 DEF SettingsDocs
  <2>2. accrued \in [Assets -> [Months -> Nat]] /\ booked \in [Assets -> Nat]
    BY <1>3
  <2>. QED
    BY <1>1, <1>2, <1>3, <1>4, <1>5, <2>1, <2>2 DEF TablesOK
<1>7. \A c \in Clients : pc[c] = "idle"
  BY DEF Init, RequestInit
<1>8. \A c \in Clients : Carries(c)
  BY <1>7 DEF Carries, OrderSteps, CloseSteps
<1>. QED
  BY <1>6, <1>8 DEF LedgerInv

\* Every step keeps the tables of the books and what requests have read typed.
LEMMA LedgerStepKept == OrderInv /\ OrderInv' /\ PayInv /\ LedgerInv /\ [Next]_officeVars => LedgerInv'
<1>. SUFFICES ASSUME OrderInv, OrderInv', PayInv, LedgerInv, [Next]_officeVars PROVE LedgerInv'
  OBVIOUS
<1>1. BookForms
  BY Forms DEF OrderInv
<1>. QED
  BY <1>1, LedgerAside, LedgerCloses, LedgerCashes, LedgerPays, LedgerDrafts DEF BookForms

\* The orders, the wages and the books are typed in every reachable state: what the
\* theorems below build on.
LEMMA BooksTyped == Spec => [](OrderInv /\ PayInv /\ LedgerInv)
<1>1. Spec => []OrderInv
  BY OrderInitial, OrderStep, PTL DEF Spec
<1>2. Spec => []PayInv
  BY PayInitial, PayrollStep, PTL DEF Spec
<1>. QED
  BY <1>1, <1>2, LedgerInitial, LedgerStepKept, PTL DEF Spec

-----------------------------------------------------------------------------
(* Balances and depreciation *)

\* A balance when the journal grows by an entry.
LEMMA BalanceGrows ==
  ASSUME TablesOK, NEW e, Adds(e), NEW a, NEW d
  PROVE  /\ Balance(a, d) \in Int
         /\ Balance(a, d)' = Balance(a, d) + (IF e.account = a /\ e.day <= d /\ e.final THEN e.amount ELSE 0)
<1>1. Amounts(journal) /\ e \notin journal /\ e.amount \in Int /\ journal' = journal \cup {e}
  BY JournalGrows DEF Adds, FreshEntry
<1>2. Balance(a, d) = BalanceOf(EntriesIn(journal, a, d)) /\ Balance(a, d)' = BalanceOf(EntriesIn(journal', a, d))
  BY DEF Balance, Entries, EntriesIn, BalanceOf
<1>. QED
  BY <1>1, <1>2, EntriesAdded

\* A step that leaves the journal leaves the balances.
LEMMA BalanceKept == ASSUME journal' = journal, NEW a, NEW d PROVE Balance(a, d)' = Balance(a, d)
BY DEF Balance, Entries, BalanceOf

\* When nobody else is busy, the others are idle after the step of a client.
LEMMA OthersIdle ==
  ASSUME RequestsOK, NEW c \in Clients, Solo(c), ~overlap', NEW d \in Clients, d # c
  PROVE  pc[d] = "idle" /\ pc'[d] = "idle"
BY DEF RequestsOK, Solo, Busy

\* What is written of a close adds up.
LEMMA CommitSums ==
  ASSUME TablesOK, DepreciationInv, NEW r, r.month \in Months, r.rows \in [Assets -> Nat], WriteRows(r)
  PROVE  /\ \A a \in Assets : booked'[a] = SumOver(accrued'[a], Months)
         /\ Balance(Accumulated, LastMonth * MonthDays)' = - SumOver(booked', Assets)
<1>. DEFINE N == LastMonth * MonthDays
            C == Charged(r)
            B == Balance(Accumulated, N)
<1>1. IsFiniteSet(Assets) /\ IsFiniteSet(Months) /\ N \in Nat
  BY LedgerAssumption, FS_Interval DEF Months
<1>2. \A a \in Assets : booked[a] \in Nat /\ r.rows[a] \in Nat /\ booked'[a] = booked[a] + r.rows[a]
  BY DEF TablesOK, WriteRows
<1>3. ASSUME NEW a \in Assets PROVE booked'[a] = SumOver(accrued'[a], Months)
  <2>1. PICK f \in [Months -> Nat] : f = accrued[a]
    BY DEF TablesOK
  <2>2. PICK g \in [Months -> Nat] : g = accrued'[a] /\ g = [f EXCEPT ![r.month] = @ + r.rows[a]]
    BY <1>2, <2>1 DEF WriteRows
  <2>3. /\ r.month \in Months /\ \A m \in Months : f[m] \in Int /\ g[m] \in Int
        /\ \A m \in Months \ {r.month} : g[m] = f[m]
    BY <2>2
  <2>4. SumOver(g, Months) = SumOver(f, Months) + g[r.month] - f[r.month]
    BY <1>1, <2>3, SumChange
  <2>5. SumOver(f, Months) \in Int
    BY <1>1, <2>3, SumType
  <2>6. SumOver(f, Months) = booked[a]
    BY <2>1 DEF DepreciationInv
  <2>7. g[r.month] = f[r.month] + r.rows[a]
    BY <2>2
  <2>. QED
    BY <1>2, <2>2, <2>3, <2>4, <2>5, <2>6, <2>7
<1>4. SumOver(booked', Assets) = SumOver(booked, Assets) + SumOver(r.rows, Assets)
      /\ SumOver(booked, Assets) \in Int /\ SumOver(r.rows, Assets) \in Int
  <2>1. PICK f : f = booked
    OBVIOUS
  <2>2. PICK g : g = r.rows
    OBVIOUS
  <2>3. PICK h : h = booked'
    OBVIOUS
  <2>4. \A a \in Assets : f[a] \in Int /\ g[a] \in Int /\ h[a] = f[a] + g[a]
    BY <1>2, <2>1, <2>2, <2>3
  <2>5. SumOver(h, Assets) = SumOver(f, Assets) + SumOver(g, Assets)
    BY <1>1, <2>4, SumPlus
  <2>6. SumOver(f, Assets) \in Int /\ SumOver(g, Assets) \in Int
    BY <1>1, <2>4, SumType
  <2>. QED
    BY <2>1, <2>2, <2>3, <2>5, <2>6
<1>5. SumOver(r.rows, Assets) = SumOver(r.rows, C)
  <2>1. PICK g : g = r.rows
    OBVIOUS
  <2>. DEFINE R == Assets \ C
  <2>2. /\ IsFiniteSet(C) /\ IsFiniteSet(R) /\ C \cap R = {} /\ Assets = C \cup R
        /\ (\A a \in C \cup R : g[a] \in Int) /\ (\A a \in R : g[a] = 0) /\ \A a \in C : g[a] \in Int
    BY <1>1, <1>2, <2>1, FS_Subset DEF Charged
  <2>. HIDE DEF C, R
  <2>3. SumOver(g, C \cup R) = SumOver(g, C) + SumOver(g, R)
    BY <2>2, SumUnion
  <2>4. SumOver(g, R) = 0 /\ SumOver(g, C) \in Int
    BY <2>2, SumZero, SumType
  <2>. QED
    BY <2>1, <2>2, <2>3, <2>4
<1>6. B = - SumOver(booked, Assets)
  BY DEF DepreciationInv
<1>7. B' = B - SumOver(r.rows, C) /\ B \in Int
  <2>1. CASE C = {}
    <3>1. journal' = journal
      BY <2>1, OwnEntry DEF WriteRows
    <3>2. SumOver(r.rows, C) = 0
      BY <2>1, SumEmpty
    <3>3. B' = B
      BY <3>1, BalanceKept
    <3>4. B \in Int
      BY <1>4, <1>6
    <3>. QED
      BY <3>2, <3>3, <3>4
  <2>2. CASE C # {}
    <3>1. PICK e : /\ Own(r) = {e} /\ FreshEntry(e) /\ e.account = Accumulated /\ e.day = MonthEnd(r.month)
                   /\ e.final = TRUE /\ e.amount = - SumOver(r.rows, C)
      BY <2>2, OwnEntry
    <3>2. Adds(e) /\ e.day <= N /\ e.final
      BY <3>1, MonthType, <1>1 DEF Adds, WriteRows, Days
    <3>3. B \in Int /\ B' = B + (IF e.account = Accumulated /\ e.day <= N /\ e.final THEN e.amount ELSE 0)
      BY <3>2, BalanceGrows
    <3>4. e.amount \in Int /\ SumOver(r.rows, C) \in Int
      BY <1>4, <1>5, <3>1 DEF FreshEntry
    <3>5. B' = B + e.amount
      BY <3>1, <3>2, <3>3
    <3>. QED
      BY <3>1, <3>3, <3>4, <3>5
  <2>. QED
    BY <2>1, <2>2
<1>8. B' = - SumOver(booked', Assets)
  <2>. HIDE DEF B, C
  <2>. QED
    BY <1>4, <1>5, <1>6, <1>7
<1>. QED
  BY <1>3, <1>8

\* A step that does not depreciate.
LEMMA DepreciationFrame ==
  ASSUME DepreciationInv, accrued' = accrued, booked' = booked,
         Balance(Accumulated, LastMonth * MonthDays)' = Balance(Accumulated, LastMonth * MonthDays),
         overlap' \/ (~overlap /\ \A c \in Clients : Fits(c)')
  PROVE  DepreciationInv'
<1>1. \A a \in Assets : booked'[a] = SumOver(accrued'[a], Months)
  BY DEF DepreciationInv
<1>2. Balance(Accumulated, LastMonth * MonthDays)' = - SumOver(booked', Assets)
  BY DEF DepreciationInv
<1>3. overlap' \/ \A a \in Assets : booked'[a] <= MaxDep[a]
  BY DEF DepreciationInv
<1>. QED
  BY <1>1, <1>2, <1>3 DEF DepreciationInv

\* A step of a client that does not depreciate.
LEMMA DepreciationKept ==
  ASSUME DepreciationInv, NEW c \in Clients, Solo(c), accrued' = accrued, booked' = booked,
         Balance(Accumulated, LastMonth * MonthDays)' = Balance(Accumulated, LastMonth * MonthDays),
         overlap' \/ Fits(c)'
  PROVE  DepreciationInv'
<1>1. overlap' \/ (~overlap /\ \A d \in Clients : Fits(d)')
  <2>. SUFFICES ASSUME ~overlap', NEW d \in Clients PROVE ~overlap /\ Fits(d)'
    BY DEF Solo
  <2>1. ~overlap /\ (d # c => pc'[d] = pc[d] /\ req'[d] = req[d])
    BY DEF Solo
  <2>2. Fits(d)
    BY <2>1 DEF DepreciationInv
  <2>. QED
    BY <2>1, <2>2 DEF Fits
<1>. QED
  BY <1>1, DepreciationFrame

\* An entry on another account.
LEMMA OtherAccount ==
  ASSUME TablesOK, NEW e, Adds(e), e.account # Accumulated, NEW d
  PROVE  Balance(Accumulated, d)' = Balance(Accumulated, d)
<1>1. /\ Balance(Accumulated, d) \in Int
      /\ Balance(Accumulated, d)' = Balance(Accumulated, d)
           + (IF e.account = Accumulated /\ e.day <= d /\ e.final THEN e.amount ELSE 0)
  BY BalanceGrows
<1>. QED
  BY <1>1

\* A step beside the books.
LEMMA DepreciationAside == ASSUME DepreciationInv, Aside PROVE DepreciationInv'
<1>1. Balance(Accumulated, LastMonth * MonthDays)' = Balance(Accumulated, LastMonth * MonthDays)
  BY BalanceKept DEF Aside
<1>2. overlap' \/ (~overlap /\ \A c \in Clients : Fits(c)')
  <2>. SUFFICES ASSUME ~overlap', NEW c \in Clients PROVE ~overlap /\ Fits(c)'
    BY DEF Aside
  <2>1. ~overlap /\ (pc'[c] \in BookSteps => pc'[c] = pc[c] /\ req'[c] = req[c]) /\ booked' = booked
    BY DEF Aside
  <2>2. Fits(c) /\ (pc'[c] \in CloseSteps => pc'[c] \in BookSteps)
    BY <2>1 DEF DepreciationInv, BookSteps, LedgerSteps, CloseSteps
  <2>. QED
    BY <2>1, <2>2 DEF Fits
<1>. QED
  BY <1>1, <1>2, DepreciationFrame DEF Aside

\* The requests that close or depreciate.
LEMMA DepreciationCloses ==
  ASSUME LedgerInv, OrderInv, OrderInv', DepreciationInv, NEW c \in Clients, Solo(c), Closing(c)
  PROVE  DepreciationInv'
<1>. DEFINE r == req[c]
<1>0. TablesOK /\ Carries(c) /\ RequestsOK /\ (overlap \/ Fits(c))
  BY DEF LedgerInv, OrderInv, DepreciationInv
<1>1. ASSUME UNCHANGED ledgerVars, overlap' \/ Fits(c)' PROVE DepreciationInv'
  <2>1. Balance(Accumulated, LastMonth * MonthDays)' = Balance(Accumulated, LastMonth * MonthDays)
    BY <1>1, BalanceKept DEF ledgerVars
  <2>. QED
    BY <1>1, <2>1, DepreciationKept DEF ledgerVars
<1>2. ASSUME NEW m \in Months, NEW op \in {"CLOSE", "DEPRECIATE"}, StartClose(c, op, m) PROVE DepreciationInv'
  <2>1. PICK s : s = [op |-> op, month |-> m, rows |-> [a \in Assets |-> Charge(a)], left |-> Assets]
    OBVIOUS
  <2>2. pc'[c] = "post" /\ req'[c] = s /\ UNCHANGED ledgerVars
    BY <1>0, <1>2, <2>1, BeginSolo DEF StartClose
  <2>3. ASSUME ~overlap', NEW a \in Assets PROVE booked'[a] + req'[c].rows[a] <= MaxDep[a]
    <3>1. booked[a] <= MaxDep[a] /\ booked[a] \in Nat /\ booked' = booked
      BY <1>0, <2>2, <2>3 DEF Solo, DepreciationInv, TablesOK, ledgerVars
    <3>2. s.rows[a] = Charge(a)
      BY <2>1
    <3>. QED
      BY <1>0, <2>2, <3>1, <3>2, ChargeFits
  <2>4. overlap' \/ Fits(c)'
    BY <2>3 DEF Fits
  <2>. QED
    BY <1>1, <2>2, <2>4
<1>3. ASSUME NEW u \in Locks, StartPatch(c, u) PROVE DepreciationInv'
  <2>1. PICK s : Begin(c, "patch", s) /\ UNCHANGED ledgerVars
    BY <1>3 DEF StartPatch
  <2>2. pc'[c] = "patch"
    BY <1>0, <2>1, BeginSolo
  <2>. QED
    BY <1>1, <2>1, <2>2 DEF Fits, CloseSteps
<1>4. ASSUME pc[c] \in CloseSteps, pc'[c] = "idle" \/ req'[c].rows = r.rows, UNCHANGED ledgerVars
      PROVE  DepreciationInv'
  <2>1. overlap' \/ (Fits(c) /\ booked' = booked)
    BY <1>0, <1>4 DEF Solo, ledgerVars
  <2>2. overlap' \/ Fits(c)'
    BY <1>4, <2>1 DEF Fits, CloseSteps
  <2>. QED
    BY <1>1, <1>4, <2>2
<1>5. CASE PostDepreciation(c) \/ Accrue(c)
  <2>1. pc[c] \in {"post", "rows"} /\ Busy(c) /\ UNCHANGED ledgerVars
    BY <1>5 DEF PostDepreciation, Accrue, Busy
  <2>2. Finish(c) \/ \E step \in {"rows", "sums"} : Goto(c, step, r)
    BY <1>5 DEF PostDepreciation, Accrue, CheckOpen
  <2>3. pc'[c] = "idle" \/ req'[c] = r
    BY <1>0, <2>1, <2>2, FinishSolo, GotoSolo
  <2>. QED
    BY <1>4, <2>1, <2>3 DEF CloseSteps
<1>6. CASE TakeSums(c) \/ MergeClosed(c)
  <2>1. pc[c] \in CloseSteps /\ Busy(c) /\ UNCHANGED ledgerVars
    BY <1>6 DEF TakeSums, MergeClosed, At, Busy, CloseSteps
  <2>2. \E step, s : Goto(c, step, s) /\ s.rows = r.rows
    <3>1. CASE TakeSums(c)
      <4>1. PICK s : /\ s = [op |-> "CLOSE", month |-> r.month, rows |-> r.rows, sums |-> Sums(r.month, Own(r))]
                     /\ Goto(c, "merge", s)
        BY <3>1 DEF TakeSums
      <4>2. s.rows = r.rows
        BY <4>1
      <4>. QED
        BY <4>1, <4>2
    <3>2. CASE MergeClosed(c)
      <4>1. PICK s : /\ s = [op |-> "CLOSE", month |-> r.month, rows |-> r.rows, sums |-> r.sums,
                             doc |-> [settings EXCEPT !.closed = @ \cup {r.month}]]
                     /\ Goto(c, "close", s)
        BY <3>2 DEF MergeClosed
      <4>2. s.rows = r.rows
        BY <4>1
      <4>. QED
        BY <4>1, <4>2
    <3>. QED
      BY <1>6, <3>1, <3>2
  <2>3. PICK step, s : Goto(c, step, s) /\ s.rows = r.rows
    BY <2>2
  <2>4. req'[c] = s
    BY <1>0, <2>1, <2>3, GotoSolo
  <2>. QED
    BY <1>4, <2>1, <2>3, <2>4
<1>7. CASE CommitDepreciation(c) \/ CommitClose(c)
  <2>1. pc[c] \in CloseSteps /\ Busy(c) /\ WriteRows(r) /\ Finish(c)
    BY <1>7 DEF CommitDepreciation, CommitClose, At, Busy, CloseSteps
  <2>2. r.month \in Months /\ r.rows \in [Assets -> Nat]
    BY <1>0, <2>1 DEF Carries
  <2>3. pc'[c] = "idle"
    BY <1>0, <2>1, FinishSolo
  <2>4. /\ \A a \in Assets : booked'[a] = SumOver(accrued'[a], Months)
        /\ Balance(Accumulated, LastMonth * MonthDays)' = - SumOver(booked', Assets)
    <3>. HIDE DEF r
    <3>. QED
      BY <1>0, <2>1, <2>2, CommitSums
  <2>5. ASSUME ~overlap', NEW a \in Assets PROVE booked'[a] <= MaxDep[a]
    <3>1. booked[a] + r.rows[a] <= MaxDep[a]
      BY <1>0, <2>1, <2>5 DEF Solo, Fits
    <3>2. booked'[a] = booked[a] + r.rows[a]
      BY <2>1 DEF WriteRows
    <3>. QED
      BY <3>1, <3>2
  <2>6. ASSUME ~overlap', NEW d \in Clients PROVE Fits(d)'
    <3>1. pc'[d] = "idle"
      BY <1>0, <2>3, <2>6, OthersIdle
    <3>. QED
      BY <3>1 DEF Fits, CloseSteps
  <2>. QED
    BY <2>4, <2>5, <2>6 DEF DepreciationInv
<1>8. CASE CommitPatch(c)
  <2>1. Busy(c) /\ Finish(c) /\ UNCHANGED <<journal, accrued, booked>>
    BY <1>8 DEF CommitPatch, At, Busy
  <2>2. Fits(c)'
    <3>1. pc'[c] = "idle"
      BY <1>0, <2>1, FinishSolo
    <3>. QED
      BY <3>1 DEF Fits, CloseSteps
  <2>3. Balance(Accumulated, LastMonth * MonthDays)' = Balance(Accumulated, LastMonth * MonthDays)
    BY <2>1, BalanceKept
  <2>. QED
    BY <2>1, <2>2, <2>3, DepreciationKept
<1>9. CASE FindRow(c)
  <2>1. PICK s : Looks(c, s)
    BY <1>9, FoundRow
  <2>2. pc[c] \in CloseSteps /\ Busy(c) /\ UNCHANGED ledgerVars
    BY <2>1 DEF Looks, Busy, CloseSteps
  <2>3. req'[c] = s
    BY <1>0, <2>1, <2>2, GotoSolo DEF Looks
  <2>4. r.rows \in [Assets -> Nat] /\ r.left \subseteq Assets
    BY <1>0, <2>1 DEF Looks, Carries, CloseSteps
  <2>5. s.rows \in [Assets -> Nat] /\ \A a \in Assets : s.rows[a] <= r.rows[a]
    BY <2>1, <2>4, LooksDown
  <2>6. ASSUME ~overlap', NEW a \in Assets PROVE booked'[a] + req'[c].rows[a] <= MaxDep[a]
    <3>1. booked[a] + r.rows[a] <= MaxDep[a] /\ booked' = booked
      BY <1>0, <2>2, <2>6 DEF Solo, Fits, ledgerVars
    <3>2. booked[a] \in Nat /\ r.rows[a] \in Nat /\ s.rows[a] \in Nat /\ s.rows[a] <= r.rows[a] /\ MaxDep[a] \in Nat
      BY <1>0, <2>4, <2>5, LedgerAssumption DEF TablesOK
    <3>3. booked[a] + s.rows[a] <= MaxDep[a]
      BY <3>1, <3>2
    <3>. QED
      BY <2>3, <3>1, <3>3
  <2>7. overlap' \/ Fits(c)'
    BY <2>6 DEF Fits
  <2>. QED
    BY <1>1, <2>2, <2>7
<1>. QED
  BY <1>2, <1>3, <1>5, <1>6, <1>7, <1>8, <1>9 DEF Closing, LedgerStep

\* A request that books something else, or waits at other steps than those of a close.
LEMMA DepreciationOther ==
  ASSUME TablesOK, DepreciationInv, NEW c \in Clients, Solo(c), accrued' = accrued, booked' = booked,
         pc'[c] \notin CloseSteps,
         journal' = journal \/ \E e : Adds(e) /\ e.account # Accumulated
  PROVE  DepreciationInv'
<1>1. Balance(Accumulated, LastMonth * MonthDays)' = Balance(Accumulated, LastMonth * MonthDays)
  BY BalanceKept, OtherAccount
<1>. QED
  BY <1>1, DepreciationKept DEF Fits

\* The requests of the cash desk depreciate nothing.
LEMMA DepreciationCashes ==
  ASSUME LedgerInv, OrderInv, DepreciationInv, NEW c \in Clients, Solo(c), Cashing(c)
  PROVE  DepreciationInv'
<1>1. pc'[c] \notin CloseSteps
  <2>1. "idle" \notin CashSteps
    BY DEF CashSteps
  <2>2. pc'[c] \in CashSteps \cup {"idle"}
    BY <2>1, CashingUses, UsesSolo DEF OrderInv
  <2>. QED
    BY <2>2 DEF CashSteps, CloseSteps
<1>2. Cash # Accumulated /\ Accountable # Accumulated
  BY DEF Cash, Accumulated, Accountable
<1>3. journal' = journal \/ \E e : Adds(e) /\ e.account # Accumulated
  <2>1. CASE BookOrder(c)
    BY <1>2, <2>1, BookAdds
  <2>2. CASE Spend(c)
    BY <1>2, <2>2, SpendAdds
  <2>3. CASE ~BookOrder(c) /\ ~Spend(c)
    BY <2>3 DEF Cashing, CashStep, StartPost, StartExpense, TestGap, TestOpen, ledgerVars
  <2>. QED
    BY <2>1, <2>2, <2>3
<1>4. accrued' = accrued /\ booked' = booked
  BY DEF Cashing, CashStep, StartPost, StartExpense, TestGap, TestOpen, BookOrder, Spend, ledgerVars
<1>. QED
  BY <1>1, <1>3, <1>4, DepreciationOther DEF LedgerInv

\* Paying wages depreciates nothing.
LEMMA DepreciationPays ==
  ASSUME LedgerInv, OrderInv, PayInv, DepreciationInv, NEW c \in Clients, Solo(c), PayingByHand(c)
  PROVE  DepreciationInv'
<1>1. pc'[c] \notin CloseSteps
  <2>1. RequestsOK
    BY DEF OrderInv
  <2>2. ASSUME NEW g \in Registries, StartPaid(c, g) PROVE pc'[c] = "paid"
    BY <2>1, <2>2, BeginSolo DEF StartPaid
  <2>3. CASE TestPaid(c)
    <3>1. Busy(c) /\ (Finish(c) \/ Goto(c, "pay", req[c]))
      BY <2>3 DEF TestPaid, At, Busy, CheckOpen
    <3>2. pc'[c] = "idle" \/ pc'[c] = "pay"
      BY <2>1, <3>1, FinishSolo, GotoSolo
    <3>. QED
      BY <3>2 DEF CloseSteps
  <2>4. CASE CommitPaid(c)
    <3>1. Busy(c) /\ Finish(c)
      BY <2>4 DEF CommitPaid, At, Busy
    <3>2. pc'[c] = "idle"
      BY <2>1, <3>1, FinishSolo
    <3>. QED
      BY <3>2 DEF CloseSteps
  <2>. QED
    BY <2>2, <2>3, <2>4 DEF PayingByHand, CloseSteps
<1>2. journal' = journal \/ \E e : Adds(e) /\ e.account # Accumulated
  <2>1. CASE CommitPaid(c)
    BY <2>1, PayAdds DEF NetPay, Accumulated
  <2>2. CASE ~CommitPaid(c)
    BY <2>2 DEF PayingByHand, TestPaid, StartPaid, ledgerVars
  <2>. QED
    BY <2>1, <2>2
<1>3. accrued' = accrued /\ booked' = booked
  BY DEF PayingByHand, TestPaid, StartPaid, CommitPaid, ledgerVars
<1>. QED
  BY <1>1, <1>2, <1>3, DepreciationOther DEF LedgerInv

\* Drawing up an order depreciates nothing.
LEMMA DepreciationDrafts == ASSUME LedgerInv, DepreciationInv, DraftedAlone PROVE DepreciationInv'
<1>1. PICK o \in Orders, d \in Days : CreateOrder(o, d)
  BY DEF DraftedAlone
<1>2. journal' = journal \/ \E e : Adds(e) /\ e.account # Accumulated
  BY <1>1, DraftAdds DEF Cash, Accumulated
<1>3. Balance(Accumulated, LastMonth * MonthDays)' = Balance(Accumulated, LastMonth * MonthDays)
  BY <1>2, BalanceKept, OtherAccount DEF LedgerInv
<1>4. accrued' = accrued /\ booked' = booked
  BY <1>1 DEF CreateOrder
<1>5. overlap' \/ (~overlap /\ \A c \in Clients : Fits(c)')
  BY <1>4 DEF DraftedAlone, DepreciationInv, Fits
<1>. QED
  BY <1>3, <1>4, <1>5, DepreciationFrame

\* Nothing is depreciated at first.
LEMMA DepreciationInitial == Init => DepreciationInv
<1>. SUFFICES ASSUME Init PROVE DepreciationInv
  OBVIOUS
<1>1. /\ journal = {} /\ accrued = [a \in Assets |-> [m \in Months |-> 0]] /\ booked = [a \in Assets |-> 0]
      /\ \A c \in Clients : pc[c] = "idle"
  BY DEF Init, LedgerInit, RequestInit
<1>2. IsFiniteSet(Assets) /\ IsFiniteSet(Months)
  BY LedgerAssumption, FS_Interval DEF Months
<1>3. \A a \in Assets : booked[a] = SumOver(accrued[a], Months)
  <2>. SUFFICES ASSUME NEW a \in Assets PROVE SumOver(accrued[a], Months) = 0
    BY <1>1
  <2>1. PICK f : f = accrued[a] /\ \A m \in Months : f[m] = 0
    BY <1>1
  <2>2. SumOver(f, Months) = 0
    BY <1>2, <2>1, SumZero
  <2>. QED
    BY <2>1, <2>2
<1>4. Balance(Accumulated, LastMonth * MonthDays) = 0
  <2>1. Entries(Accumulated, LastMonth * MonthDays) = {}
    BY <1>1 DEF Entries
  <2>. QED
    BY <2>1, BalanceEmpty DEF Balance
<1>5. SumOver(booked, Assets) = 0
  <2>1. PICK f : f = booked /\ \A a \in Assets : f[a] = 0
    BY <1>1
  <2>2. SumOver(f, Assets) = 0
    BY <1>2, <2>1, SumZero
  <2>. QED
    BY <2>1, <2>2
<1>6. \A a \in Assets : booked[a] <= MaxDep[a]
  BY <1>1, LedgerAssumption
<1>7. \A c \in Clients : Fits(c)
  BY <1>1 DEF Fits, CloseSteps
<1>. QED
  BY <1>3, <1>4, <1>5, <1>6, <1>7 DEF DepreciationInv

\* Every step keeps the assets, the rows of the months and account 112 in agreement.
LEMMA DepreciationStep ==
  OrderInv /\ OrderInv' /\ PayInv /\ LedgerInv /\ DepreciationInv /\ [Next]_officeVars => DepreciationInv'
<1>. SUFFICES ASSUME OrderInv, OrderInv', PayInv, LedgerInv, DepreciationInv, [Next]_officeVars
              PROVE  DepreciationInv'
  OBVIOUS
<1>1. BookForms
  BY Forms DEF OrderInv
<1>. QED
  BY <1>1, DepreciationAside, DepreciationCloses, DepreciationCashes, DepreciationPays, DepreciationDrafts
     DEF BookForms

\* The property is a part of the inductive invariant.
LEMMA DepreciationFollows == DepreciationInv => DepreciationBounded
BY DEF DepreciationInv, DepreciationBounded

\* What the fixed assets carry is what the rows of the months and account 112 say,
\* and within the depreciable value unless requests overlap
\* (applyForClosedMonth, depreciation.service.ts).
THEOREM DepreciationHolds == Spec => []DepreciationBounded
BY BooksTyped, DepreciationInitial, DepreciationStep, DepreciationFollows, PTL DEF Spec

-----------------------------------------------------------------------------
(* The opening balances *)

\* A step of a client that keeps the snapshots; the others are idle if nothing overlaps.
LEMMA OpeningFrame ==
  ASSUME OrderInv, NEW c \in Clients, Solo(c),
         overlap' \/ disorder' \/ (SnapshotsHold' /\ Current(c)')
  PROVE  OpeningInv'
<1>. SUFFICES ASSUME ~overlap', ~disorder', NEW d \in Clients, d # c PROVE Current(d)'
  BY DEF OpeningInv
<1>1. pc'[d] = "idle"
  BY OthersIdle DEF OrderInv
<1>. QED
  BY <1>1 DEF Current

\* What depends on the journal only.
LEMMA SumsKept ==
  ASSUME journal' = journal
  PROVE  (\A r : Own(r)' = Own(r)) /\ (\A m, own : Sums(m, own)' = Sums(m, own))
<1>1. \A doc : Postings(doc)' = Postings(doc)
  BY DEF Postings
<1>2. \A doc, a, d, x : Entry(doc, a, d, x)' = Entry(doc, a, d, x)
  BY <1>1 DEF Entry
<1>3. \A a, d : Entries(a, d)' = Entries(a, d)
  BY DEF Entries
<1>. QED
  BY <1>2, <1>3 DEF Own, Sums

\* A day whose month is open is after every closed month.
LEMMA ClosedBefore ==
  ASSUME TablesOK, SnapshotsHold, NEW d \in Days, MonthOf(d) \notin settings.closed, NEW m \in settings.closed
  PROVE  ~(d <= MonthEnd(m))
<1>1. m \in Months /\ MonthOf(d) \in Months /\ (d <= MonthEnd(m) <=> MonthOf(d) <= m)
  BY MonthOfDay DEF TablesOK, SettingsDocs
<1>2. MonthOf(d) # m /\ (MonthOf(d) < m => MonthOf(d) \in settings.closed)
  BY <1>1 DEF SnapshotsHold
<1>. QED
  BY <1>1, <1>2 DEF Months

\* The snapshots stay what they are while the balances of closed months do.
LEMMA SnapshotsKept ==
  ASSUME TablesOK, SnapshotsHold, snap' = snap, settings'.closed = settings.closed,
         \A m \in settings.closed : \A a \in Accounts : Balance(a, MonthEnd(m))' = Balance(a, MonthEnd(m))
  PROVE  SnapshotsHold'
<1>1. \A m \in Months, a \in Accounts :
        snap'[m][a] = None \/ (m \in settings'.closed /\ snap'[m][a] = Balance(a, MonthEnd(m))')
  BY DEF SnapshotsHold
<1>2. \A m : MonthEnd(m)' = MonthEnd(m)
  BY DEF MonthEnd
<1>. QED
  BY <1>1, <1>2 DEF SnapshotsHold

\* The snapshots when journal, closed months and snapshots stay as they are.
LEMMA SnapshotsSame ==
  ASSUME TablesOK, SnapshotsHold, snap' = snap, settings'.closed = settings.closed, journal' = journal
  PROVE  SnapshotsHold'
BY SnapshotsKept, BalanceKept

\* A posting into an open month, or one that reports do not see, changes no balance
\* of a closed month.
LEMMA OpenPosting ==
  ASSUME TablesOK, SnapshotsHold, NEW e, Adds(e), e.final = FALSE \/ MonthOf(e.day) \notin settings.closed,
         NEW m \in settings.closed, NEW a
  PROVE  Balance(a, MonthEnd(m))' = Balance(a, MonthEnd(m))
<1>1. /\ Balance(a, MonthEnd(m)) \in Int
      /\ Balance(a, MonthEnd(m))' = Balance(a, MonthEnd(m))
           + (IF e.account = a /\ e.day <= MonthEnd(m) /\ e.final THEN e.amount ELSE 0)
  BY BalanceGrows
<1>2. e.day \in Days
  BY DEF Adds, FreshEntry
<1>3. ~(e.account = a /\ e.day <= MonthEnd(m) /\ e.final)
  BY <1>2, ClosedBefore
<1>. QED
  BY <1>1, <1>3

\* The snapshots when a step posts into an open month, or a draft.
LEMMA SnapshotsOpen ==
  ASSUME TablesOK, SnapshotsHold, snap' = snap, settings'.closed = settings.closed,
         NEW e, Adds(e), e.final = FALSE \/ MonthOf(e.day) \notin settings.closed
  PROVE  SnapshotsHold'
BY SnapshotsKept, OpenPosting

\* A step beside the books.
LEMMA OpeningAside == ASSUME LedgerInv, OpeningInv, Aside PROVE OpeningInv'
<1>. SUFFICES ASSUME ~overlap', ~disorder' PROVE SnapshotsHold' /\ \A c \in Clients : Current(c)'
  BY DEF OpeningInv
<1>1. SnapshotsHold /\ \A c \in Clients : Current(c)
  BY DEF OpeningInv, Aside
<1>2. UNCHANGED <<settings, journal, snap, dated>>
  BY DEF Aside, cashVars
<1>3. ASSUME NEW c \in Clients PROVE Current(c)'
  <2>1. CASE pc'[c] \in BookSteps
    <3>1. pc'[c] = pc[c] /\ req'[c] = req[c] /\ paysFor' = paysFor
      BY <2>1 DEF Aside
    <3>2. \A r : Charged(r)' = Charged(r) /\ Books(r)' = Books(r) /\ Own(r)' = Own(r)
      BY <1>2, SumsKept DEF Charged, Books
    <3>3. \A m, own : Sums(m, own)' = Sums(m, own)
      BY <1>2, SumsKept
    <3>. QED
      BY <1>1, <1>2, <3>1, <3>2, <3>3 DEF Current
  <2>2. CASE pc'[c] \notin BookSteps
    BY <2>2 DEF Current, BookSteps, LedgerSteps, CashSteps, PaidSteps
  <2>. QED
    BY <2>1, <2>2
<1>4. SnapshotsHold'
  BY <1>1, <1>2, SnapshotsSame DEF LedgerInv
<1>. QED
  BY <1>3, <1>4

\* The commit of a close.
LEMMA SnapshotTaken ==
  ASSUME LedgerInv, SnapshotsHold, NEW c \in Clients, Current(c), CommitClose(c), ~disorder'
  PROVE  SnapshotsHold'
<1>0. PICK r : r = req[c]
  OBVIOUS
<1>8. PICK m : m = r.month
  OBVIOUS
<1>1. /\ pc[c] = "close" /\ WriteRows(r) /\ settings' = r.doc
      /\ snap' = [snap EXCEPT ![m] = [a \in Accounts |-> IF r.sums[a] = None THEN snap[m][a] ELSE r.sums[a]]]
      /\ (1 .. m - 1) \subseteq settings.closed
  BY <1>0, <1>8 DEF CommitClose, At
<1>2. TablesOK /\ m \in Months /\ r.rows \in [Assets -> Nat]
  BY <1>0, <1>1, <1>8 DEF LedgerInv, Carries, CloseSteps
<1>3. /\ Charged(r) # {} => m \notin settings.closed
      /\ r.sums = Sums(m, Own(r)) /\ settings'.closed = settings.closed \cup {m}
  BY <1>0, <1>1, <1>8 DEF Current
<1>4. settings.closed \subseteq Months /\ MonthEnd(m) \in Days /\ m \in Nat
  BY <1>2, MonthType DEF TablesOK, SettingsDocs
<1>5. \A n \in settings'.closed : \A k \in Months : k < n => k \in settings'.closed
  <2>. SUFFICES ASSUME NEW n \in settings'.closed, NEW k \in Months, k < n PROVE k \in settings'.closed
    OBVIOUS
  <2>1. CASE n \in settings.closed
    BY <1>3, <2>1 DEF SnapshotsHold
  <2>2. CASE n = m
    BY <1>1, <1>3, <1>4, <2>2 DEF Months
  <2>. QED
    BY <1>3, <2>1, <2>2
<1>6. CASE Charged(r) = {}
  <2>1. Own(r) = {} /\ journal' = journal
    BY <1>1, <1>2, <1>6, <1>8, OwnEntry DEF WriteRows
  <2>2. \A a, d : Balance(a, d)' = Balance(a, d)
    BY <2>1, BalanceKept
  <2>3. ASSUME NEW n \in Months, NEW a \in Accounts
        PROVE  snap'[n][a] = None \/ (n \in settings'.closed /\ snap'[n][a] = Balance(a, MonthEnd(n)))
    <3>1. snap[n][a] = None \/ (n \in settings.closed /\ snap[n][a] = Balance(a, MonthEnd(n)))
      BY DEF SnapshotsHold
    <3>2. CASE n # m \/ r.sums[a] = None
      <4>1. snap'[n][a] = snap[n][a]
        BY <1>1, <1>2, <3>2 DEF TablesOK
      <4>. QED
        BY <1>3, <3>1, <4>1
    <3>3. CASE n = m /\ r.sums[a] # None
      <4>1. snap'[n][a] = r.sums[a]
        BY <1>1, <1>2, <3>3 DEF TablesOK
      <4>2. r.sums[a] = BalanceOf(Entries(a, MonthEnd(m)))
        BY <1>3, <2>1, <3>3 DEF Sums
      <4>. QED
        BY <1>3, <3>3, <4>1, <4>2 DEF Balance
    <3>. QED
      BY <3>2, <3>3
  <2>4. \A n : MonthEnd(n)' = MonthEnd(n)
    BY DEF MonthEnd
  <2>. QED
    BY <1>5, <2>2, <2>3, <2>4 DEF SnapshotsHold
<1>7. CASE Charged(r) # {}
  <2>1. PICK e : Own(r) = {e} /\ FreshEntry(e) /\ e.day = MonthEnd(m) /\ e.final = TRUE
    BY <1>2, <1>7, <1>8, OwnEntry
  <2>2. Adds(e) /\ MonthOf(e.day) \notin settings.closed
    BY <1>1, <1>2, <1>3, <1>7, <2>1, MonthOfEnd DEF Adds, WriteRows
  <2>3. \A n \in settings.closed, a \in Accounts : Balance(a, MonthEnd(n))' = Balance(a, MonthEnd(n))
    BY <1>2, <2>2, OpenPosting
  <2>4. ASSUME NEW a \in Accounts
        PROVE  Balance(a, MonthEnd(m))' = BalanceOf(Entries(a, MonthEnd(m)) \cup {x \in Own(r) : x.account = a})
    <3>1. e.day <= MonthEnd(m)
      BY <1>4, <2>1 DEF Days
    <3>2. {x \in journal' : x.account = a /\ x.day <= MonthEnd(m) /\ x.final}
            = Entries(a, MonthEnd(m)) \cup {x \in Own(r) : x.account = a}
      BY <2>1, <2>2, <3>1 DEF Adds, Entries
    <3>3. Balance(a, MonthEnd(m))' = BalanceOf({x \in journal' : x.account = a /\ x.day <= MonthEnd(m) /\ x.final})
      BY DEF Balance, Entries, MonthEnd
    <3>. QED
      BY <3>2, <3>3
  <2>5. ASSUME NEW n \in Months, NEW a \in Accounts
        PROVE  snap'[n][a] = None \/ (n \in settings'.closed /\ snap'[n][a] = Balance(a, MonthEnd(n))')
    <3>1. snap[n][a] = None \/ (n \in settings.closed /\ snap[n][a] = Balance(a, MonthEnd(n)))
      BY DEF SnapshotsHold
    <3>2. CASE n # m \/ r.sums[a] = None
      <4>1. snap'[n][a] = snap[n][a]
        BY <1>1, <1>2, <3>2 DEF TablesOK
      <4>. QED
        BY <1>3, <2>3, <3>1, <4>1
    <3>3. CASE n = m /\ r.sums[a] # None
      <4>1. snap'[n][a] = r.sums[a]
        BY <1>1, <1>2, <3>3 DEF TablesOK
      <4>2. r.sums[a] = BalanceOf(Entries(a, MonthEnd(m)) \cup {x \in Own(r) : x.account = a})
        BY <1>3, <3>3 DEF Sums
      <4>. QED
        BY <1>3, <2>4, <3>3, <4>1, <4>2
    <3>. QED
      BY <3>2, <3>3
  <2>6. \A n : MonthEnd(n)' = MonthEnd(n)
    BY DEF MonthEnd
  <2>. QED
    BY <1>5, <2>5, <2>6 DEF SnapshotsHold
<1>. QED
  BY <1>6, <1>7

\* The requests that close or depreciate.
LEMMA OpeningCloses ==
  ASSUME LedgerInv, OrderInv, OpeningInv, NEW c \in Clients, Solo(c), Closing(c)
  PROVE  OpeningInv'
<1>0. PICK r : r = req[c]
  OBVIOUS
<1>. SUFFICES ASSUME ~overlap', ~disorder' PROVE SnapshotsHold' /\ Current(c)'
  BY OpeningFrame
<1>1. ~disorder
  BY DEF Closing, StartClose, StartPatch, LedgerStep, FindRow, PostDepreciation, Accrue, TakeSums, MergeClosed, CommitClose,
         CommitDepreciation, CommitPatch, ledgerVars
<1>2. TablesOK /\ Carries(c) /\ RequestsOK /\ SnapshotsHold /\ Current(c)
  BY <1>1 DEF LedgerInv, OrderInv, OpeningInv, Solo
<1>3. ASSUME UNCHANGED ledgerVars, Current(c)' PROVE SnapshotsHold' /\ Current(c)'
  BY <1>2, <1>3, SnapshotsSame DEF ledgerVars
<1>4. ASSUME NEW m \in Months, NEW op \in {"CLOSE", "DEPRECIATE"}, StartClose(c, op, m)
      PROVE  SnapshotsHold' /\ Current(c)'
  <2>1. PICK s : Begin(c, "post", s) /\ UNCHANGED ledgerVars
    BY <1>4 DEF StartClose
  <2>2. pc'[c] = "post"
    BY <1>2, <2>1, BeginSolo
  <2>3. Current(c)'
    BY <2>2 DEF Current
  <2>. QED
    BY <1>3, <2>1, <2>3
<1>5. ASSUME NEW u \in Locks, StartPatch(c, u) PROVE SnapshotsHold' /\ Current(c)'
  <2>1. PICK doc : doc = IF u = None THEN settings ELSE [settings EXCEPT !.until = u]
    OBVIOUS
  <2>2. pc'[c] = "patch" /\ req'[c] = [op |-> "PATCH", doc |-> doc] /\ UNCHANGED ledgerVars
    BY <1>2, <1>5, <2>1, BeginSolo DEF StartPatch
  <2>3. doc.closed = settings.closed
    BY <1>2, <2>1 DEF TablesOK, SettingsDocs
  <2>4. req'[c].doc.closed = settings'.closed
    BY <2>2, <2>3 DEF ledgerVars
  <2>5. Current(c)'
    BY <2>2, <2>4 DEF Current
  <2>. QED
    BY <1>3, <2>2, <2>5
<1>6. CASE PostDepreciation(c)
  <2>1. pc[c] = "post" /\ Busy(c) /\ UNCHANGED ledgerVars
    BY <1>6 DEF PostDepreciation, Busy
  <2>2. r.month \in Months
    BY <1>0, <1>2, <2>1 DEF Carries, CloseSteps
  <2>3. \/ Finish(c)
        \/ Goto(c, "sums", r) /\ Charged(r) = {}
        \/ Goto(c, "rows", r) /\ MonthOf(MonthEnd(r.month)) \notin settings.closed
    BY <1>0, <1>6 DEF PostDepreciation, CheckOpen, Open
  <2>4. \/ pc'[c] = "idle"
        \/ pc'[c] \in {"rows", "sums"} /\ req'[c] = r /\ (Charged(r) # {} => r.month \notin settings.closed)
    BY <1>2, <2>1, <2>2, <2>3, FinishSolo, GotoSolo, MonthOfEnd
  <2>5. settings' = settings /\ Charged(r)' = Charged(r)
    BY <2>1 DEF ledgerVars, Charged
  <2>6. Current(c)'
    BY <2>4, <2>5 DEF Current
  <2>. QED
    BY <1>3, <2>1, <2>6
<1>7. CASE Accrue(c)
  <2>1. pc[c] = "rows" /\ Busy(c) /\ UNCHANGED ledgerVars
    BY <1>7 DEF Accrue, Busy
  <2>2. Finish(c) \/ Goto(c, "sums", r)
    BY <1>0, <1>7 DEF Accrue
  <2>3. pc'[c] = "idle" \/ (pc'[c] = "sums" /\ req'[c] = r)
    BY <1>2, <2>1, <2>2, FinishSolo, GotoSolo
  <2>4. Charged(r) # {} => r.month \notin settings.closed
    BY <1>0, <1>2, <2>1 DEF Current
  <2>5. settings' = settings /\ Charged(r)' = Charged(r)
    BY <2>1 DEF ledgerVars, Charged
  <2>6. Current(c)'
    BY <2>3, <2>4, <2>5 DEF Current
  <2>. QED
    BY <1>3, <2>1, <2>6
<1>8. CASE TakeSums(c)
  <2>1. pc[c] = "sums" /\ Busy(c) /\ UNCHANGED ledgerVars
    BY <1>8 DEF TakeSums, At, Busy
  <2>2. PICK s : s = [op |-> "CLOSE", month |-> r.month, rows |-> r.rows, sums |-> Sums(r.month, Own(r))]
    OBVIOUS
  <2>3. pc'[c] = "merge" /\ req'[c] = s
    BY <1>0, <1>2, <1>8, <2>1, <2>2, GotoSolo DEF TakeSums
  <2>4. s.month = r.month /\ s.rows = r.rows /\ s.sums = Sums(r.month, Own(r))
    BY <2>2
  <2>5. Charged(s) = Charged(r)
    BY <2>4 DEF Charged
  <2>6. Own(s) = Own(r)
    BY <2>4, <2>5 DEF Own
  <2>7. Charged(r) # {} => r.month \notin settings.closed
    BY <1>0, <1>2, <2>1 DEF Current
  <2>8. /\ settings' = settings /\ Charged(s)' = Charged(s) /\ Own(s)' = Own(s)
        /\ Sums(s.month, Own(s))' = Sums(s.month, Own(s))
    BY <2>1, SumsKept DEF ledgerVars, Charged
  <2>9. Current(c)'
    BY <2>3, <2>4, <2>5, <2>6, <2>7, <2>8 DEF Current
  <2>. QED
    BY <1>3, <2>1, <2>9
<1>9. CASE MergeClosed(c)
  <2>1. pc[c] = "merge" /\ Busy(c) /\ UNCHANGED ledgerVars
    BY <1>9 DEF MergeClosed, At, Busy
  <2>2. PICK s : s = [op |-> "CLOSE", month |-> r.month, rows |-> r.rows, sums |-> r.sums,
                      doc |-> [settings EXCEPT !.closed = @ \cup {r.month}]]
    OBVIOUS
  <2>3. pc'[c] = "close" /\ req'[c] = s
    BY <1>0, <1>2, <1>9, <2>1, <2>2, GotoSolo DEF MergeClosed
  <2>4. s.month = r.month /\ s.rows = r.rows /\ s.sums = r.sums /\ s.doc.closed = settings.closed \cup {r.month}
    BY <1>2, <2>2 DEF TablesOK, SettingsDocs
  <2>5. Charged(s) = Charged(r)
    BY <2>4 DEF Charged
  <2>6. Own(s) = Own(r)
    BY <2>4, <2>5 DEF Own
  <2>7. (Charged(r) # {} => r.month \notin settings.closed) /\ r.sums = Sums(r.month, Own(r))
    BY <1>0, <1>2, <2>1 DEF Current
  <2>8. /\ settings' = settings /\ Charged(s)' = Charged(s) /\ Own(s)' = Own(s)
        /\ Sums(s.month, Own(s))' = Sums(s.month, Own(s))
    BY <2>1, SumsKept DEF ledgerVars, Charged
  <2>9. Current(c)'
    BY <2>3, <2>4, <2>5, <2>6, <2>7, <2>8 DEF Current
  <2>. QED
    BY <1>3, <2>1, <2>9
<1>10. CASE CommitDepreciation(c)
  <2>1. pc[c] = "sums" /\ Busy(c) /\ Finish(c) /\ WriteRows(r) /\ UNCHANGED <<settings, snap>>
    BY <1>0, <1>10 DEF CommitDepreciation, At, Busy
  <2>2. pc'[c] = "idle"
    BY <1>2, <2>1, FinishSolo
  <2>3. Current(c)'
    BY <2>2 DEF Current
  <2>4. r.month \in Months /\ r.rows \in [Assets -> Nat] /\ (Charged(r) # {} => r.month \notin settings.closed)
    BY <1>0, <1>2, <2>1 DEF Carries, CloseSteps, Current
  <2>5. SnapshotsHold'
    <3>1. CASE Charged(r) = {}
      <4>1. journal' = journal
        BY <2>1, <2>4, <3>1, OwnEntry DEF WriteRows
      <4>. QED
        BY <1>2, <2>1, <4>1, SnapshotsSame
    <3>2. CASE Charged(r) # {}
      <4>1. PICK e : Own(r) = {e} /\ FreshEntry(e) /\ e.day = MonthEnd(r.month)
        BY <2>4, <3>2, OwnEntry
      <4>2. Adds(e) /\ MonthOf(e.day) \notin settings.closed
        BY <2>1, <2>4, <3>2, <4>1, MonthOfEnd DEF Adds, WriteRows
      <4>. QED
        BY <1>2, <2>1, <4>2, SnapshotsOpen
    <3>. QED
      BY <3>1, <3>2
  <2>. QED
    BY <2>3, <2>5
<1>11. CASE CommitClose(c)
  <2>1. Busy(c) /\ Finish(c)
    BY <1>11 DEF CommitClose, At, Busy
  <2>2. pc'[c] = "idle"
    BY <1>2, <2>1, FinishSolo
  <2>3. Current(c)'
    BY <2>2 DEF Current
  <2>. QED
    BY <1>2, <1>11, <2>3, SnapshotTaken
<1>12. CASE CommitPatch(c)
  <2>1. pc[c] = "patch" /\ Busy(c) /\ Finish(c) /\ settings' = r.doc /\ UNCHANGED <<journal, snap>>
    BY <1>0, <1>12 DEF CommitPatch, At, Busy
  <2>2. pc'[c] = "idle"
    BY <1>2, <2>1, FinishSolo
  <2>3. Current(c)'
    BY <2>2 DEF Current
  <2>4. settings'.closed = settings.closed
    BY <1>0, <1>2, <2>1 DEF Current
  <2>. QED
    BY <1>2, <2>1, <2>3, <2>4, SnapshotsSame
<1>13. CASE FindRow(c)
  <2>1. PICK s : Looks(c, s)
    BY <1>13, FoundRow
  <2>2. pc'[c] = "post" /\ UNCHANGED ledgerVars
    BY <1>2, <2>1, GotoSolo DEF Looks, Busy
  <2>3. Current(c)'
    BY <2>2 DEF Current
  <2>. QED
    BY <1>3, <2>2, <2>3
<1>. QED
  BY <1>4, <1>5, <1>6, <1>7, <1>8, <1>9, <1>10, <1>11, <1>12, <1>13 DEF Closing, LedgerStep

\* The requests of the cash desk.
LEMMA OpeningCashes ==
  ASSUME LedgerInv, OrderInv, OpeningInv, NEW c \in Clients, Solo(c), Cashing(c)
  PROVE  OpeningInv'
<1>0. PICK r : r = req[c]
  OBVIOUS
<1>. SUFFICES ASSUME ~overlap', ~disorder' PROVE SnapshotsHold' /\ Current(c)'
  BY OpeningFrame
<1>1. UNCHANGED <<settings, snap, disorder>>
  BY DEF Cashing, CashStep, StartPost, StartExpense, TestGap, TestOpen, BookOrder, Spend, ledgerVars
<1>2. TablesOK /\ Carries(c) /\ RequestsOK /\ SnapshotsHold /\ Current(c)
  BY <1>1 DEF LedgerInv, OrderInv, OpeningInv, Solo
<1>3. ASSUME UNCHANGED ledgerVars, Current(c)' PROVE SnapshotsHold' /\ Current(c)'
  BY <1>2, <1>3, SnapshotsSame DEF ledgerVars
<1>4. ASSUME NEW o \in Orders, StartPost(c, o) PROVE SnapshotsHold' /\ Current(c)'
  <2>1. PICK step, s : step \in {"gap", "mark"} /\ Begin(c, step, s) /\ UNCHANGED ledgerVars
    BY <1>4 DEF StartPost
  <2>2. pc'[c] \in {"gap", "mark"}
    BY <1>2, <2>1, BeginSolo
  <2>3. Current(c)'
    BY <2>2 DEF Current
  <2>. QED
    BY <1>3, <2>1, <2>3
<1>5. ASSUME NEW d \in Days, StartExpense(c, d) PROVE SnapshotsHold' /\ Current(c)'
  <2>1. UNCHANGED ledgerVars /\ MonthOf(d) \notin settings.closed
    BY <1>5 DEF StartExpense, Open, OpenTimed
  <2>2. pc'[c] = "spend" /\ req'[c] = [op |-> "EXPENSE", day |-> d]
    BY <1>2, <1>5, BeginSolo DEF StartExpense
  <2>3. Current(c)'
    BY <1>1, <2>1, <2>2 DEF Current
  <2>. QED
    BY <1>3, <2>1, <2>3
<1>6. CASE TestGap(c)
  <2>1. Busy(c) /\ UNCHANGED ledgerVars /\ (Finish(c) \/ \E s : Goto(c, "open", s))
    BY <1>6 DEF TestGap, At, Busy
  <2>2. pc'[c] = "idle" \/ pc'[c] = "open"
    BY <1>2, <2>1, FinishSolo, GotoSolo
  <2>3. Current(c)'
    BY <2>2 DEF Current
  <2>. QED
    BY <1>3, <2>1, <2>3
<1>7. CASE TestOpen(c)
  <2>1. Busy(c) /\ UNCHANGED ledgerVars /\ dated' = dated
    BY <1>7 DEF TestOpen, At, Busy, cashVars
  <2>2. Finish(c) \/ (Goto(c, "book", r) /\ MonthOf(dated[r.order]) \notin settings.closed)
    BY <1>0, <1>7 DEF TestOpen, CheckOpen, Open
  <2>3. pc'[c] = "idle" \/ (pc'[c] = "book" /\ req'[c] = r /\ MonthOf(dated[r.order]) \notin settings.closed)
    BY <1>2, <2>1, <2>2, FinishSolo, GotoSolo
  <2>4. Current(c)'
    BY <1>1, <2>1, <2>3 DEF Current
  <2>. QED
    BY <1>3, <2>1, <2>4
<1>8. CASE BookOrder(c) \/ Spend(c)
  <2>1. Busy(c) /\ Finish(c)
    BY <1>8 DEF BookOrder, Spend, At, Busy
  <2>2. pc'[c] = "idle"
    BY <1>2, <2>1, FinishSolo
  <2>3. Current(c)'
    BY <2>2 DEF Current
  <2>4. journal' = journal \/ \E e : Adds(e) /\ MonthOf(e.day) \notin settings.closed
    <3>1. CASE BookOrder(c)
      <4>1. CASE journal' # journal
        <5>1. PICK e : pc[c] = "book" /\ Adds(e) /\ e.day = dated[req[c].order]
          BY <3>1, <4>1, BookAdds
        <5>2. MonthOf(e.day) \notin settings.closed
          BY <1>2, <5>1 DEF Current
        <5>. QED
          BY <5>1, <5>2
      <4>. QED
        BY <4>1
    <3>2. CASE Spend(c)
      <4>1. PICK e : Adds(e) /\ e.day = req[c].day
        BY <3>2, SpendAdds
      <4>2. pc[c] = "spend"
        BY <3>2 DEF Spend, At
      <4>3. MonthOf(e.day) \notin settings.closed
        BY <1>2, <4>1, <4>2 DEF Current
      <4>. QED
        BY <4>1, <4>3
    <3>. QED
      BY <1>8, <3>1, <3>2
  <2>. QED
    BY <1>1, <1>2, <2>3, <2>4, SnapshotsSame, SnapshotsOpen
<1>. QED
  BY <1>4, <1>5, <1>6, <1>7, <1>8 DEF Cashing, CashStep

\* The payment of a registry by hand.
LEMMA OpeningPays ==
  ASSUME LedgerInv, OrderInv, PayInv, OpeningInv, NEW c \in Clients, Solo(c), PayingByHand(c)
  PROVE  OpeningInv'
<1>0. PICK r : r = req[c]
  OBVIOUS
<1>. SUFFICES ASSUME ~overlap', ~disorder' PROVE SnapshotsHold' /\ Current(c)'
  BY OpeningFrame
<1>1. UNCHANGED <<settings, snap, disorder>>
  BY DEF PayingByHand, TestPaid, StartPaid, CommitPaid, ledgerVars
<1>2. TablesOK /\ RequestsOK /\ SnapshotsHold /\ Current(c)
  BY <1>1 DEF LedgerInv, OrderInv, OpeningInv, Solo
<1>3. ASSUME UNCHANGED ledgerVars, Current(c)' PROVE SnapshotsHold' /\ Current(c)'
  BY <1>2, <1>3, SnapshotsSame DEF ledgerVars
<1>4. ASSUME NEW g \in Registries, StartPaid(c, g) PROVE SnapshotsHold' /\ Current(c)'
  <2>1. pc'[c] = "paid" /\ UNCHANGED ledgerVars
    BY <1>2, <1>4, BeginSolo DEF StartPaid
  <2>2. Current(c)'
    BY <2>1 DEF Current
  <2>. QED
    BY <1>3, <2>1, <2>2
<1>5. CASE TestPaid(c)
  <2>1. PICK m : m = paysFor[r.registry]
    OBVIOUS
  <2>2. m \in Months
    BY <1>0, <1>5, <2>1 DEF TestPaid, At, PayInv, Waits, RegistriesFine
  <2>3. Busy(c) /\ UNCHANGED ledgerVars /\ paysFor' = paysFor
    BY <1>5 DEF TestPaid, At, Busy, payVars
  <2>4. \/ Finish(c)
        \/ Goto(c, "pay", r) /\ (Books(r) => MonthOf(MonthEnd(m)) \notin settings.closed)
    BY <1>0, <1>5, <2>1 DEF TestPaid, CheckOpen, OpenTimed
  <2>5. pc'[c] = "idle" \/ (pc'[c] = "pay" /\ req'[c] = r /\ (Books(r) => m \notin settings.closed))
    BY <1>2, <2>2, <2>3, <2>4, FinishSolo, GotoSolo, MonthOfEnd
  <2>6. Books(r)' = Books(r)
    BY DEF Books
  <2>7. Current(c)'
    BY <1>1, <2>1, <2>3, <2>5, <2>6 DEF Current
  <2>. QED
    BY <1>3, <2>3, <2>7
<1>6. CASE CommitPaid(c)
  <2>1. pc[c] = "pay" /\ Busy(c) /\ Finish(c)
    BY <1>6 DEF CommitPaid, At, Busy
  <2>2. pc'[c] = "idle"
    BY <1>2, <2>1, FinishSolo
  <2>3. Current(c)'
    BY <2>2 DEF Current
  <2>4. CASE journal' = journal
    BY <1>1, <1>2, <2>3, <2>4, SnapshotsSame
  <2>5. CASE journal' # journal
    <3>1. PICK m : m = paysFor[req[c].registry]
      OBVIOUS
    <3>2. PICK e : m \in Months /\ Books(req[c]) /\ Adds(e) /\ e.day = MonthEnd(m)
      BY <1>6, <2>5, <3>1, PayAdds
    <3>3. m \notin settings.closed
      BY <1>2, <2>1, <3>1, <3>2 DEF Current
    <3>4. MonthOf(e.day) \notin settings.closed
      BY <3>2, <3>3, MonthOfEnd
    <3>. QED
      BY <1>1, <1>2, <2>3, <3>2, <3>4, SnapshotsOpen
  <2>. QED
    BY <2>4, <2>5
<1>. QED
  BY <1>4, <1>5, <1>6 DEF PayingByHand

\* The draft of an order.
LEMMA OpeningDrafts == ASSUME LedgerInv, OpeningInv, DraftedAlone PROVE OpeningInv'
<1>. SUFFICES ASSUME ~overlap', ~disorder' PROVE SnapshotsHold' /\ \A c \in Clients : Current(c)'
  BY DEF OpeningInv
<1>1. PICK o \in Orders, d \in Days : CreateOrder(o, d)
  BY DEF DraftedAlone
<1>2. UNCHANGED <<settings, snap, disorder>>
  BY <1>1 DEF CreateOrder
<1>3. ASSUME NEW c \in Clients PROVE Current(c)'
  <2>1. pc'[c] = "idle"
    BY DEF DraftedAlone, Busy
  <2>. QED
    BY <2>1 DEF Current
<1>4. TablesOK /\ SnapshotsHold
  BY <1>2 DEF DraftedAlone, OpeningInv, LedgerInv
<1>5. journal' = journal \/ \E e : Adds(e) /\ e.final = FALSE
  BY <1>1, DraftAdds
<1>. QED
  BY <1>2, <1>3, <1>4, <1>5, SnapshotsSame, SnapshotsOpen

\* No month is closed at first, and no snapshot taken.
LEMMA OpeningInitial == Init => OpeningInv
<1>. SUFFICES ASSUME Init PROVE OpeningInv
  OBVIOUS
<1>1. /\ snap = [m \in Months |-> [a \in Accounts |-> None]] /\ settings = [closed |-> {}, until |-> 0]
      /\ \A c \in Clients : pc[c] = "idle"
  BY DEF Init, LedgerInit, RequestInit
<1>2. SnapshotsHold
  BY <1>1 DEF SnapshotsHold
<1>3. \A c \in Clients : Current(c)
  BY <1>1 DEF Current
<1>. QED
  BY <1>2, <1>3 DEF OpeningInv

\* Every step keeps the snapshots of the closed months equal to their balances.
LEMMA OpeningStep ==
  OrderInv /\ OrderInv' /\ PayInv /\ LedgerInv /\ OpeningInv /\ [Next]_officeVars => OpeningInv'
<1>. SUFFICES ASSUME OrderInv, OrderInv', PayInv, LedgerInv, OpeningInv, [Next]_officeVars PROVE OpeningInv'
  OBVIOUS
<1>1. BookForms
  BY Forms DEF OrderInv
<1>. QED
  BY <1>1, OpeningAside, OpeningCloses, OpeningCashes, OpeningPays, OpeningDrafts DEF BookForms

\* The last closed month before a month that follows closed ones is the one before it.
LEMMA OpeningFollows == LedgerInv /\ OpeningInv => OpeningIsJournal
<1>. SUFFICES ASSUME LedgerInv, SnapshotsHold, NEW f \in Months \cup {LastMonth + 1}, NEW a \in Accounts,
                     (1 .. f - 1) \subseteq settings.closed
              PROVE  Opening(a, f) = Balance(a, MonthEnd(f - 1))
  BY DEF OpeningInv, OpeningIsJournal
<1>. DEFINE before == {m \in settings.closed : m < f}
<1>1. settings.closed \subseteq Months /\ f \in Nat /\ Months \subseteq Nat
  BY LedgerAssumption DEF LedgerInv, TablesOK, SettingsDocs, Months
<1>2. CASE before # {} /\ snap[Max(before)][a] # None
  <2>1. f - 1 \in before /\ \A m \in before : m \in Nat /\ m <= f - 1
    <3>1. PICK m \in before : m \in Months /\ m < f
      BY <1>1, <1>2
    <3>2. f - 1 \in 1 .. f - 1 /\ f - 1 < f
      BY <1>1, <3>1 DEF Months
    <3>3. f - 1 \in settings.closed
      BY <3>2
    <3>4. f - 1 \in before
      BY <3>2, <3>3
    <3>5. \A n \in before : n \in Nat /\ n < f
      BY <1>1
    <3>. HIDE DEF before
    <3>6. \A n \in before : n \in Nat /\ n <= f - 1
      BY <1>1, <3>5
    <3>. QED
      BY <3>4, <3>6
  <2>2. Max(before) = f - 1
    <3>. HIDE DEF before
    <3>1. \E m \in before : \A n \in before : m >= n
      BY <1>1, <2>1
    <3>2. Max(before) \in before /\ \A n \in before : Max(before) >= n
      BY <3>1 DEF Max
    <3>. QED
      BY <1>1, <2>1, <3>2
  <2>3. f - 1 \in Months /\ snap[f - 1][a] # None
    BY <1>1, <1>2, <2>1, <2>2
  <2>4. snap[f - 1][a] = Balance(a, MonthEnd(f - 1))
    BY <2>3 DEF SnapshotsHold
  <2>. QED
    BY <1>2, <2>2, <2>4 DEF Opening
<1>3. CASE ~(before # {} /\ snap[Max(before)][a] # None)
  BY <1>3 DEF Opening
<1>. QED
  BY <1>2, <1>3

\* The opening balances of a trial balance are those of the journal as long as months
\* are closed in order and requests do not overlap (closePeriod, trialBalance,
\* reporting.service.ts).
THEOREM OpeningHolds == Spec => []OpeningIsJournal
BY BooksTyped, OpeningInitial, OpeningStep, OpeningFollows, PTL DEF Spec

-----------------------------------------------------------------------------
(* Closed months *)

\* A step reopens no month, and changes no balance of a closed one.
MonthsStay ==
  /\ settings.closed \subseteq settings'.closed
  /\ \A m \in settings.closed, a \in Accounts : Balance(a, MonthEnd(m))' = Balance(a, MonthEnd(m))

\* A step that posts nothing.
LEMMA MonthsSame ==
  ASSUME settings.closed \subseteq settings'.closed, journal' = journal
  PROVE  MonthsStay
BY BalanceKept DEF MonthsStay

\* A step that posts into an open month, or a draft.
LEMMA MonthsOpen ==
  ASSUME TablesOK, SnapshotsHold, settings.closed \subseteq settings'.closed,
         NEW e, Adds(e), e.final = FALSE \/ MonthOf(e.day) \notin settings.closed
  PROVE  MonthsStay
BY OpenPosting DEF MonthsStay

\* The rows of a depreciation: its entry is of an open month.
LEMMA RowsStay ==
  ASSUME TablesOK, SnapshotsHold, NEW c \in Clients, Carries(c), Current(c), WriteRows(req[c]),
         pc[c] \in {"sums", "close"}, settings.closed \subseteq settings'.closed
  PROVE  MonthsStay
<1>1. PICK r : r = req[c]
  OBVIOUS
<1>2. r.month \in Months /\ r.rows \in [Assets -> Nat] /\ (Charged(r) # {} => r.month \notin settings.closed)
  BY <1>1 DEF Carries, CloseSteps, Current
<1>3. CASE Charged(r) = {}
  <2>1. journal' = journal
    BY <1>1, <1>2, <1>3, OwnEntry DEF WriteRows
  <2>. QED
    BY <2>1, MonthsSame
<1>4. CASE Charged(r) # {}
  <2>1. PICK e : Own(r) = {e} /\ FreshEntry(e) /\ e.day = MonthEnd(r.month)
    BY <1>2, <1>4, OwnEntry
  <2>2. Adds(e) /\ MonthOf(e.day) \notin settings.closed
    BY <1>1, <1>2, <1>4, <2>1, MonthOfEnd DEF Adds, WriteRows
  <2>. QED
    BY <2>2, MonthsOpen
<1>. QED
  BY <1>3, <1>4

\* A close adds its month to those it found closed; the other writers of the settings
\* keep them.
LEMMA MonthsCloses ==
  ASSUME TablesOK, SnapshotsHold, NEW c \in Clients, Carries(c), Current(c), Closing(c)
  PROVE  MonthsStay
<1>1. CASE UNCHANGED ledgerVars
  BY <1>1, MonthsSame DEF ledgerVars
<1>2. CASE CommitDepreciation(c)
  BY <1>2, RowsStay DEF CommitDepreciation, At
<1>3. CASE CommitClose(c)
  <2>1. pc[c] = "close" /\ WriteRows(req[c]) /\ settings' = req[c].doc
    BY <1>3 DEF CommitClose, At
  <2>2. settings'.closed = settings.closed \cup {req[c].month}
    BY <2>1 DEF Current
  <2>. QED
    BY <2>1, <2>2, RowsStay
<1>4. CASE CommitPatch(c)
  <2>1. pc[c] = "patch" /\ settings' = req[c].doc /\ journal' = journal
    BY <1>4 DEF CommitPatch, At
  <2>2. settings'.closed = settings.closed
    BY <2>1 DEF Current
  <2>. QED
    BY <2>1, <2>2, MonthsSame
<1>. QED
  BY <1>1, <1>2, <1>3, <1>4
  DEF Closing, StartClose, StartPatch, LedgerStep, FindRow, PostDepreciation, Accrue, TakeSums, MergeClosed

\* What the cash desk posts was found open.
LEMMA MonthsCashes ==
  ASSUME TablesOK, SnapshotsHold, NEW c \in Clients, LedgerInv, OrderInv, Current(c), Cashing(c)
  PROVE  MonthsStay
<1>1. CASE UNCHANGED ledgerVars
  BY <1>1, MonthsSame DEF ledgerVars
<1>2. CASE BookOrder(c)
  <2>1. settings' = settings
    BY <1>2 DEF BookOrder
  <2>2. CASE journal' = journal
    BY <2>1, <2>2, MonthsSame
  <2>3. CASE journal' # journal
    <3>1. PICK e : pc[c] = "book" /\ Adds(e) /\ e.day = dated[req[c].order]
      BY <1>2, <2>3, BookAdds
    <3>2. MonthOf(e.day) \notin settings.closed
      BY <3>1 DEF Current
    <3>. QED
      BY <2>1, <3>1, <3>2, MonthsOpen
  <2>. QED
    BY <2>2, <2>3
<1>3. CASE Spend(c)
  <2>1. settings' = settings /\ pc[c] = "spend"
    BY <1>3 DEF Spend, At
  <2>2. PICK e : Adds(e) /\ e.day = req[c].day
    BY <1>3, SpendAdds
  <2>3. MonthOf(e.day) \notin settings.closed
    BY <2>1, <2>2 DEF Current
  <2>. QED
    BY <2>1, <2>2, <2>3, MonthsOpen
<1>. QED
  BY <1>1, <1>2, <1>3 DEF Cashing, CashStep, StartPost, StartExpense, TestGap, TestOpen

\* The wages of a month are posted into an open one.
LEMMA MonthsPays ==
  ASSUME TablesOK, SnapshotsHold, NEW c \in Clients, LedgerInv, PayInv, Current(c), PayingByHand(c)
  PROVE  MonthsStay
<1>1. CASE UNCHANGED ledgerVars
  BY <1>1, MonthsSame DEF ledgerVars
<1>2. CASE CommitPaid(c)
  <2>1. settings' = settings /\ pc[c] = "pay"
    BY <1>2 DEF CommitPaid, At
  <2>2. CASE journal' = journal
    BY <2>1, <2>2, MonthsSame
  <2>3. CASE journal' # journal
    <3>1. PICK m : m = paysFor[req[c].registry]
      OBVIOUS
    <3>2. PICK e : m \in Months /\ Books(req[c]) /\ Adds(e) /\ e.day = MonthEnd(m)
      BY <1>2, <2>3, <3>1, PayAdds
    <3>3. m \notin settings.closed
      BY <2>1, <3>1, <3>2 DEF Current
    <3>4. MonthOf(e.day) \notin settings.closed
      BY <3>2, <3>3, MonthOfEnd
    <3>. QED
      BY <2>1, <3>2, <3>4, MonthsOpen
  <2>. QED
    BY <2>2, <2>3
<1>. QED
  BY <1>1, <1>2 DEF PayingByHand, TestPaid, StartPaid

\* Once a month is closed no step of the office reopens it or changes what an account
\* held at its end, as long as months are closed in order and requests do not overlap
\* (closePeriod, postJournalInTransaction, the writers of organization.settings).
THEOREM ClosedMonthsStay == Spec => [][overlap' \/ disorder \/ MonthsStay]_officeVars
<1>1. OrderInv /\ OrderInv' /\ PayInv /\ LedgerInv /\ OpeningInv /\ [Next]_officeVars
        => [overlap' \/ disorder \/ MonthsStay]_officeVars
  <2>. SUFFICES ASSUME OrderInv, OrderInv', PayInv, LedgerInv, OpeningInv, [Next]_officeVars, ~overlap', ~disorder
                PROVE  MonthsStay
    OBVIOUS
  <2>1. BookForms
    BY Forms DEF OrderInv
  <2>2. TablesOK /\ \A c \in Clients : Carries(c)
    BY DEF LedgerInv
  <2>3. CASE Aside
    BY <2>3, MonthsSame DEF Aside
  <2>4. ASSUME NEW c \in Clients, Solo(c), Closing(c) \/ Cashing(c) \/ PayingByHand(c) PROVE MonthsStay
    <3>1. SnapshotsHold /\ Current(c)
      BY <2>4 DEF Solo, OpeningInv
    <3>. QED
      BY <2>2, <2>4, <3>1, MonthsCloses, MonthsCashes, MonthsPays
  <2>5. CASE DraftedAlone
    <3>1. PICK o \in Orders, d \in Days : CreateOrder(o, d)
      BY <2>5 DEF DraftedAlone
    <3>2. SnapshotsHold /\ settings' = settings
      BY <2>5, <3>1 DEF DraftedAlone, OpeningInv, CreateOrder
    <3>3. journal' = journal \/ \E e : Adds(e) /\ e.final = FALSE
      BY <3>1, DraftAdds DEF LedgerInv
    <3>. QED
      BY <2>2, <3>2, <3>3, MonthsSame, MonthsOpen
  <2>. QED
    BY <2>1, <2>3, <2>4, <2>5 DEF BookForms
<1>2. Spec => []OpeningInv
  BY BooksTyped, OpeningInitial, OpeningStep, PTL DEF Spec
<1>. QED
  BY <1>1, <1>2, BooksTyped, PTL DEF Spec

-----------------------------------------------------------------------------
(* The cash *)

\* A step of a client that keeps the till; the others are idle if nothing overlaps.
LEMMA CashFrame ==
  ASSUME OrderInv, NEW c \in Clients, Solo(c),
         overlap' \/ unguarded' \/ (TillHolds' /\ Covered(c)')
  PROVE  CashInv'
<1>. SUFFICES ASSUME ~overlap', ~unguarded', NEW d \in Clients, d # c PROVE Covered(d)'
  BY DEF CashInv
<1>1. pc'[d] = "idle"
  BY OthersIdle DEF OrderInv
<1>. QED
  BY <1>1 DEF Covered

\* A step that leaves the journal leaves the cash.
LEMMA CashKept == ASSUME journal' = journal, NEW d PROVE CashOn(d)' = CashOn(d)
BY DEF CashOn

\* The cash of a day when the journal grows by an entry.
LEMMA CashGrows ==
  ASSUME TablesOK, NEW e, Adds(e), NEW d
  PROVE  /\ CashOn(d) \in Int
         /\ CashOn(d)' = CashOn(d) + (IF e.account = Cash /\ e.day <= d THEN e.amount ELSE 0)
<1>1. Amounts(journal) /\ e \notin journal /\ e.amount \in Int /\ journal' = journal \cup {e}
  BY JournalGrows DEF Adds, FreshEntry
<1>2. CashOn(d) = BalanceOf(CashIn(journal, d)) /\ CashOn(d)' = BalanceOf(CashIn(journal', d))
  BY DEF CashOn, CashIn
<1>. QED
  BY <1>1, <1>2, CashAdded

\* The till holds as long as nothing touches the cash.
LEMMA TillKept ==
  ASSUME TillHolds, today' = today, journal' = journal
  PROVE  TillHolds'
<1>1. \A d \in Days : CashOn(d)' >= 0
  BY CashKept DEF TillHolds
<1>2. \A e \in journal' : e.account = Cash /\ e.day > today' => e.amount >= 0
  BY DEF TillHolds
<1>. QED
  BY <1>1, <1>2 DEF TillHolds, Days

\* A receipt, and a payout of an earlier day that later days can bear.
LEMMA TillGrows ==
  ASSUME TablesOK, TillHolds, today' = today, NEW e, Adds(e),
         \/ e.account # Cash
         \/ e.amount >= 0
         \/ e.day <= today /\ \A d \in Days : d >= e.day => CashOn(d) + e.amount >= 0
  PROVE  TillHolds'
<1>1. ASSUME NEW d \in Days PROVE CashOn(d)' >= 0
  <2>1. CashOn(d) \in Int /\ CashOn(d)' = CashOn(d) + (IF e.account = Cash /\ e.day <= d THEN e.amount ELSE 0)
    BY CashGrows
  <2>2. CashOn(d) >= 0 /\ e.amount \in Int /\ e.day \in Int /\ d \in Int
    BY DEF TillHolds, Adds, FreshEntry, Days
  <2>3. CASE e.account = Cash /\ e.day <= d
    <3>1. CashOn(d)' = CashOn(d) + e.amount
      BY <2>1, <2>3
    <3>2. e.amount >= 0 \/ CashOn(d) + e.amount >= 0
      BY <2>2, <2>3
    <3>. QED
      BY <2>1, <2>2, <3>1, <3>2
  <2>4. CASE ~(e.account = Cash /\ e.day <= d)
    <3>1. CashOn(d)' = CashOn(d) + 0
      BY <2>1, <2>4
    <3>. QED
      BY <2>1, <2>2, <3>1
  <2>. QED
    BY <2>3, <2>4
<1>2. ASSUME NEW x \in journal', x.account = Cash, x.day > today' PROVE x.amount >= 0
  <2>1. CASE x \in journal
    BY <1>2, <2>1 DEF TillHolds
  <2>2. CASE x = e
    <3>1. e.day \in Int /\ today \in Int
      BY DEF Adds, FreshEntry, TablesOK, Days
    <3>. QED
      BY <1>2, <2>2, <3>1
  <2>. QED
    BY <2>1, <2>2 DEF Adds
<1>. QED
  BY <1>1, <1>2 DEF TillHolds, Days

\* A step beside the books; a day that passes makes no future entry past.
LEMMA CashAside == ASSUME LedgerInv, OrderInv, CashInv, Aside PROVE CashInv'
<1>. SUFFICES ASSUME ~overlap', ~unguarded' PROVE TillHolds' /\ \A c \in Clients : Covered(c)'
  BY DEF CashInv
<1>1. TillHolds /\ \A c \in Clients : Covered(c)
  BY DEF CashInv, Aside, cashVars
<1>2. journal' = journal /\ dated' = dated /\ today \in Int /\ (today' = today \/ today' = today + 1)
  BY DEF Aside, cashVars, LedgerInv, TablesOK, Days
<1>3. TillHolds'
  <2>1. \A d \in Days : CashOn(d)' >= 0
    BY <1>1, <1>2, CashKept DEF TillHolds
  <2>2. ASSUME NEW e \in journal', e.account = Cash, e.day > today' PROVE e.amount >= 0
    <3>1. e \in journal /\ e.day \in Int
      BY <1>2 DEF LedgerInv, TablesOK, EntryOK, Days
    <3>2. e.day > today
      BY <1>2, <2>2, <3>1
    <3>. QED
      BY <1>1, <2>2, <3>1, <3>2 DEF TillHolds
  <2>. QED
    BY <2>1, <2>2 DEF TillHolds, Days
<1>4. ASSUME NEW c \in Clients PROVE Covered(c)'
  <2>. DEFINE o == req'[c].order
  <2>. SUFFICES ASSUME pc'[c] \in {"open", "book"}, Kind[o] = "KXO", req'[c].tested
                PROVE  dated'[o] < today' /\ \A d \in Days : d >= dated'[o] => CashOn(d)' >= CashAmount[o]
    BY DEF Covered, Days
  <2>1. pc'[c] = pc[c] /\ req'[c] = req[c]
    BY DEF Aside, BookSteps, CashSteps
  <2>2. dated[o] < today /\ \A d \in Days : d >= dated[o] => CashOn(d) >= CashAmount[o]
    BY <1>1, <2>1 DEF Covered
  <2>3. dated[o] \in Int
    <3>1. order[o] # "NONE" /\ pc[c] \in OrderSteps
      BY <2>1 DEF LedgerInv, Carries, OrderSteps
    <3>2. o \in Orders
      BY <2>1, <3>1 DEF OrderInv, Posting
    <3>. QED
      BY <3>1, <3>2 DEF LedgerInv, TablesOK, Days
  <2>. QED
    BY <1>2, <2>2, <2>3, CashKept
<1>. QED
  BY <1>3, <1>4

\* A request that books on another account, or nothing, and does not post an order.
LEMMA CashOther ==
  ASSUME LedgerInv, OrderInv, CashInv, NEW c \in Clients, Solo(c), today' = today, unguarded' = unguarded,
         pc'[c] \notin {"open", "book"},
         journal' = journal \/ \E e : Adds(e) /\ e.account # Cash
  PROVE  CashInv'
<1>. SUFFICES ASSUME ~overlap', ~unguarded' PROVE TillHolds' /\ Covered(c)'
  BY CashFrame
<1>1. TillHolds
  BY DEF CashInv, Solo
<1>2. TillHolds'
  BY <1>1, TillKept, TillGrows DEF LedgerInv
<1>. QED
  BY <1>2 DEF Covered

\* A close.
LEMMA CashCloses ==
  ASSUME LedgerInv, OrderInv, CashInv, NEW c \in Clients, Solo(c), Closing(c)
  PROVE  CashInv'
<1>1. pc'[c] \notin {"open", "book"}
  <2>1. "idle" \notin LedgerSteps
    BY DEF LedgerSteps
  <2>2. pc'[c] \in LedgerSteps \cup {"idle"}
    BY <2>1, ClosingUses, UsesSolo DEF OrderInv
  <2>. QED
    BY <2>2 DEF LedgerSteps
<1>2. journal' = journal \/ \E e : Adds(e) /\ e.account # Cash
  <2>1. CASE CommitDepreciation(c) \/ CommitClose(c)
    <3>1. PICK r : r = req[c]
      OBVIOUS
    <3>2. r.month \in Months /\ r.rows \in [Assets -> Nat] /\ WriteRows(r)
      BY <2>1, <3>1 DEF CommitDepreciation, CommitClose, At, LedgerInv, Carries, CloseSteps
    <3>3. CASE Charged(r) = {}
      BY <3>2, <3>3, OwnEntry DEF WriteRows
    <3>4. CASE Charged(r) # {}
      <4>1. PICK e : Own(r) = {e} /\ FreshEntry(e) /\ e.account = Accumulated
        BY <3>2, <3>4, OwnEntry
      <4>. QED
        BY <3>2, <4>1 DEF Adds, WriteRows, Accumulated, Cash
    <3>. QED
      BY <3>3, <3>4
  <2>2. CASE ~(CommitDepreciation(c) \/ CommitClose(c))
    BY <2>2 DEF Closing, LedgerStep, StartClose, StartPatch, FindRow, PostDepreciation, Accrue, TakeSums, MergeClosed,
                CommitPatch, ledgerVars
  <2>. QED
    BY <2>1, <2>2
<1>3. today' = today /\ unguarded' = unguarded
  BY DEF Closing, LedgerStep, StartClose, StartPatch, FindRow, PostDepreciation, Accrue, TakeSums, MergeClosed,
         CommitPatch, CommitClose, CommitDepreciation, ledgerVars, cashVars
<1>. QED
  BY <1>1, <1>2, <1>3, CashOther

\* The payment of a registry by hand.
LEMMA CashPays ==
  ASSUME LedgerInv, OrderInv, PayInv, CashInv, NEW c \in Clients, Solo(c), PayingByHand(c)
  PROVE  CashInv'
<1>0. RequestsOK
  BY DEF OrderInv
<1>1. pc'[c] \in {"idle", "paid", "pay"}
  <2>2. ASSUME NEW g \in Registries, StartPaid(c, g) PROVE pc'[c] = "paid"
    BY <1>0, <2>2, BeginSolo DEF StartPaid
  <2>3. CASE TestPaid(c)
    <3>1. Busy(c) /\ (Finish(c) \/ Goto(c, "pay", req[c]))
      BY <2>3 DEF TestPaid, At, Busy, CheckOpen
    <3>. QED
      BY <1>0, <3>1, FinishSolo, GotoSolo
  <2>4. CASE CommitPaid(c)
    <3>1. Busy(c) /\ Finish(c)
      BY <2>4 DEF CommitPaid, At, Busy
    <3>. QED
      BY <1>0, <3>1, FinishSolo
  <2>. QED
    BY <2>2, <2>3, <2>4 DEF PayingByHand
<1>2. pc'[c] \notin {"open", "book"}
  BY <1>1
<1>3. journal' = journal \/ \E e : Adds(e) /\ e.account # Cash
  <2>1. CASE CommitPaid(c)
    BY <2>1, PayAdds DEF NetPay, Cash
  <2>2. CASE ~CommitPaid(c)
    BY <2>2 DEF PayingByHand, TestPaid, StartPaid, ledgerVars
  <2>. QED
    BY <2>1, <2>2
<1>4. today' = today /\ unguarded' = unguarded
  BY DEF PayingByHand, TestPaid, StartPaid, CommitPaid, ledgerVars, cashVars
<1>. QED
  BY <1>2, <1>3, <1>4, CashOther

\* What the test for a gap finds until today holds of the days after it too.
LEMMA GapTested ==
  ASSUME TablesOK, TillHolds, NEW o \in Orders, dated[o] \in Days, Kind[o] = "KXO", NoGap(o), Backdated(o)
  PROVE  dated[o] < today /\ \A d \in Days : d >= dated[o] => CashOn(d) >= CashAmount[o]
<1>1. dated[o] < today /\ \A d \in dated[o] .. today : CashOn(d) >= CashAmount[o]
  BY DEF NoGap, Backdated
<1>2. dated[o] \in Int /\ today \in Int /\ CashAmount[o] \in Int
  BY CashAssumption DEF TablesOK, Days
<1>3. ASSUME NEW d \in Days, d >= dated[o] PROVE CashOn(d) >= CashAmount[o]
  <2>1. d \in Int
    BY DEF Days
  <2>2. CASE d <= today
    <3>1. d \in dated[o] .. today
      BY <1>2, <1>3, <2>1, <2>2
    <3>. QED
      BY <1>1, <3>1
  <2>3. CASE today < d
    <3>1. /\ Amounts(journal) /\ (\A e \in journal : e.day \in Int)
          /\ (\A e \in journal : e.account = Cash /\ e.day > today => e.amount >= 0)
          /\ today <= d /\ CashIn(journal, d) \subseteq journal /\ CashIn(journal, today) \subseteq journal
      BY <1>2, <2>1, <2>3 DEF TablesOK, EntryOK, Amounts, TillHolds, Days, CashIn
    <3>2. BalanceOf(CashIn(journal, today)) <= BalanceOf(CashIn(journal, d))
      BY <1>2, <2>1, <3>1, CashLater
    <3>3. BalanceOf(CashIn(journal, today)) \in Int /\ BalanceOf(CashIn(journal, d)) \in Int
      BY <3>1, FS_Subset, BalanceType DEF Amounts
    <3>4. CashOn(today) >= CashAmount[o]
      <4>1. today \in dated[o] .. today
        BY <1>1, <1>2
      <4>. QED
        BY <1>1, <4>1
    <3>5. CashOn(today) = BalanceOf(CashIn(journal, today)) /\ CashOn(d) = BalanceOf(CashIn(journal, d))
      BY DEF CashOn, CashIn
    <3>. QED
      BY <1>2, <3>2, <3>3, <3>4, <3>5
  <2>. QED
    BY <1>2, <2>1, <2>2, <2>3
<1>. QED
  BY <1>1, <1>3

\* The requests of the cash desk.
LEMMA CashCashes ==
  ASSUME LedgerInv, OrderInv, CashInv, NEW c \in Clients, Solo(c), Cashing(c)
  PROVE  CashInv'
<1>. SUFFICES ASSUME ~overlap', ~unguarded' PROVE TillHolds' /\ Covered(c)'
  BY CashFrame
<1>0. today' = today /\ dated' = dated /\ ~unguarded
  <2>1. CASE \E o \in Orders : StartPost(c, o)
    BY <2>1 DEF StartPost, ledgerVars, cashVars
  <2>2. CASE \E d \in Days : StartExpense(c, d)
    BY <2>2 DEF StartExpense, ledgerVars, cashVars
  <2>3. CASE TestGap(c)
    BY <2>3 DEF TestGap, ledgerVars, cashVars
  <2>4. CASE TestOpen(c)
    BY <2>4 DEF TestOpen, ledgerVars, cashVars
  <2>5. CASE BookOrder(c)
    <3>1. today' = today /\ dated' = dated
      BY <2>5 DEF BookOrder
    <3>2. ~unguarded
      BY <2>5 DEF BookOrder
    <3>. QED
      BY <3>1, <3>2
  <2>6. CASE Spend(c)
    <3>1. today' = today /\ dated' = dated
      BY <2>6 DEF Spend
    <3>2. ~unguarded
      BY <2>6 DEF Spend
    <3>. QED
      BY <3>1, <3>2
  <2>. QED
    BY <2>1, <2>2, <2>3, <2>4, <2>5, <2>6 DEF Cashing, CashStep
<1>1. TablesOK /\ Carries(c) /\ RequestsOK /\ TillHolds /\ Covered(c)
  BY <1>0 DEF LedgerInv, OrderInv, CashInv, Solo
<1>2. PICK r : r = req[c]
  OBVIOUS
<1>3. ASSUME journal' = journal, pc'[c] \notin {"open", "book"} PROVE TillHolds' /\ Covered(c)'
  BY <1>0, <1>1, <1>3, TillKept DEF Covered
<1>4. ASSUME NEW o \in Orders, StartPost(c, o) PROVE TillHolds' /\ Covered(c)'
  <2>1. PICK step, s : step \in {"gap", "mark"} /\ Begin(c, step, s) /\ journal' = journal
    BY <1>4 DEF StartPost, ledgerVars
  <2>2. pc'[c] = step
    BY <1>1, <2>1, BeginSolo
  <2>. QED
    BY <1>3, <2>1, <2>2
<1>5. ASSUME NEW d \in Days, StartExpense(c, d) PROVE TillHolds' /\ Covered(c)'
  <2>1. PICK s : Begin(c, "spend", s) /\ journal' = journal
    BY <1>5 DEF StartExpense, ledgerVars
  <2>2. pc'[c] = "spend"
    BY <1>1, <2>1, BeginSolo
  <2>. QED
    BY <1>3, <2>1, <2>2
<1>6. CASE TestGap(c)
  <2>1. PICK o : o = r.order
    OBVIOUS
  <2>2. /\ pc[c] = "gap" /\ Busy(c) /\ journal' = journal /\ o \in Orders /\ dated[o] \in Days
        /\ Finish(c) \/ (NoGap(o) /\ Goto(c, "open", [op |-> "POST", order |-> o, tested |-> Backdated(o)]))
    BY <1>1, <1>2, <1>6, <2>1 DEF TestGap, At, Busy, ledgerVars, OrderInv, Posting, OrderSteps, Carries, TablesOK
  <2>3. CASE Finish(c)
    <3>1. pc'[c] = "idle"
      BY <1>1, <2>2, <2>3, FinishSolo
    <3>. QED
      BY <1>3, <2>2, <3>1
  <2>4. CASE NoGap(o) /\ Goto(c, "open", [op |-> "POST", order |-> o, tested |-> Backdated(o)])
    <3>1. PICK b \in BOOLEAN : b = Backdated(o)
      BY DEF Backdated
    <3>2. pc'[c] = "open" /\ req'[c] = [op |-> "POST", order |-> o, tested |-> b]
      BY <1>1, <2>2, <2>4, <3>1, GotoSolo
    <3>3. req'[c].order = o /\ req'[c].tested = b
      BY <3>2
    <3>4. ASSUME Kind[o] = "KXO", b
          PROVE  dated[o] < today /\ \A d \in Days : d >= dated[o] => CashOn(d) >= CashAmount[o]
      BY <1>1, <2>2, <2>4, <3>1, <3>4, GapTested
    <3>5. Covered(c)'
      BY <1>0, <2>2, <3>3, <3>4, CashKept DEF Covered, Days
    <3>. QED
      BY <1>0, <1>1, <2>2, <3>5, TillKept
  <2>. QED
    BY <2>2, <2>3, <2>4
<1>7. CASE TestOpen(c)
  <2>1. pc[c] = "open" /\ Busy(c) /\ journal' = journal /\ (Finish(c) \/ Goto(c, "book", r))
    BY <1>2, <1>7 DEF TestOpen, CheckOpen, At, Busy, ledgerVars
  <2>2. pc'[c] = "idle" \/ (pc'[c] = "book" /\ req'[c] = r)
    BY <1>1, <2>1, FinishSolo, GotoSolo
  <2>3. Covered(c)'
    BY <1>0, <1>1, <1>2, <2>1, <2>2, CashKept DEF Covered, Days
  <2>. QED
    BY <1>0, <1>1, <2>1, <2>3, TillKept
<1>8. CASE BookOrder(c)
  <2>1. PICK o : o = r.order
    OBVIOUS
  <2>2. Busy(c) /\ Finish(c) /\ (Kind[o] = "KXO" => r.tested)
    BY <1>2, <1>8, <2>1 DEF BookOrder, Busy
  <2>3. pc'[c] = "idle"
    BY <1>1, <2>2, FinishSolo
  <2>4. TillHolds'
    <3>1. CASE journal' = journal
      BY <1>0, <1>1, <3>1, TillKept
    <3>2. CASE journal' # journal
      <4>1. PICK e : /\ pc[c] = "book" /\ Adds(e) /\ e.day = dated[o] /\ CashAmount[o] \in Nat
                     /\ \/ Kind[o] = "KMO" /\ e.account = Cash /\ e.amount = CashAmount[o]
                        \/ Kind[o] = "KXO" /\ e.account = Cash /\ e.amount = - CashAmount[o]
                        \/ Kind[o] = "REPORT" /\ e.account = Accountable /\ e.amount = - CashAmount[o]
        BY <1>2, <1>8, <2>1, <3>2, BookAdds
      <4>2. CASE Kind[o] = "KMO" /\ e.amount = CashAmount[o]
        BY <1>0, <1>1, <4>1, <4>2, TillGrows
      <4>3. CASE Kind[o] = "KXO" /\ e.amount = - CashAmount[o]
        <5>1. dated[o] < today /\ \A d \in Days : d >= dated[o] => CashOn(d) >= CashAmount[o]
          BY <1>1, <1>2, <2>1, <2>2, <4>1, <4>3 DEF Covered
        <5>2. \A d \in Days : CashOn(d) \in Int
          BY <1>1, <4>1, CashGrows
        <5>3. e.day <= today /\ \A d \in Days : d >= e.day => CashOn(d) + e.amount >= 0
          <6>1. e.day \in Int /\ today \in Int
            BY <1>1, <4>1 DEF TablesOK, Adds, FreshEntry, Days
          <6>. QED
            BY <4>1, <4>3, <5>1, <5>2, <6>1
        <5>. QED
          BY <1>0, <1>1, <4>1, <5>3, TillGrows
      <4>4. CASE Kind[o] = "REPORT" /\ e.account = Accountable
        BY <1>0, <1>1, <4>1, <4>4, TillGrows DEF Accountable, Cash
      <4>. QED
        BY <4>1, <4>2, <4>3, <4>4
    <3>. QED
      BY <3>1, <3>2
  <2>. QED
    BY <2>3, <2>4 DEF Covered
<1>9. CASE Spend(c)
  BY <1>9 DEF Spend
<1>. QED
  BY <1>4, <1>5, <1>6, <1>7, <1>8, <1>9 DEF Cashing, CashStep

\* The draft of an order: the receipt of an invoice is in the till at once.
LEMMA CashDrafts == ASSUME LedgerInv, CashInv, DraftedAlone PROVE CashInv'
<1>. SUFFICES ASSUME ~overlap', ~unguarded' PROVE TillHolds' /\ \A c \in Clients : Covered(c)'
  BY DEF CashInv
<1>1. PICK o \in Orders, d \in Days : CreateOrder(o, d)
  BY DEF DraftedAlone
<1>2. today' = today /\ unguarded' = unguarded /\ CashAmount[o] >= 0
  BY <1>1, CashAssumption DEF CreateOrder
<1>3. ASSUME NEW c \in Clients PROVE Covered(c)'
  <2>1. pc'[c] = "idle"
    BY DEF DraftedAlone, Busy
  <2>. QED
    BY <2>1 DEF Covered
<1>4. TablesOK /\ TillHolds
  BY <1>2 DEF DraftedAlone, CashInv, LedgerInv
<1>5. CASE journal' = journal
  BY <1>2, <1>3, <1>4, <1>5, TillKept
<1>6. CASE journal' # journal
  <2>1. PICK e : Adds(e) /\ e.amount = CashAmount[o]
    BY <1>1, <1>6, DraftAdds
  <2>2. TillHolds'
    BY <1>2, <1>4, <2>1, TillGrows
  <2>. QED
    BY <1>3, <2>2
<1>. QED
  BY <1>5, <1>6

\* There is no cash at first.
LEMMA CashInitial == Init => CashInv
<1>. SUFFICES ASSUME Init PROVE CashInv
  OBVIOUS
<1>1. journal = {} /\ \A c \in Clients : pc[c] = "idle"
  BY DEF Init, LedgerInit, RequestInit
<1>2. \A d \in Days : CashOn(d) = 0
  <2>1. \A d \in Days : {e \in journal : e.account = Cash /\ e.day <= d} = {}
    BY <1>1
  <2>. QED
    BY <2>1, BalanceEmpty DEF CashOn
<1>3. TillHolds
  BY <1>1, <1>2 DEF TillHolds
<1>4. \A c \in Clients : Covered(c)
  BY <1>1 DEF Covered
<1>. QED
  BY <1>3, <1>4 DEF CashInv

\* Every step keeps the cash of every day, and what the tested payouts have found.
LEMMA CashStepKept ==
  OrderInv /\ OrderInv' /\ PayInv /\ LedgerInv /\ CashInv /\ [Next]_officeVars => CashInv'
<1>. SUFFICES ASSUME OrderInv, OrderInv', PayInv, LedgerInv, CashInv, [Next]_officeVars PROVE CashInv'
  OBVIOUS
<1>1. BookForms
  BY Forms DEF OrderInv
<1>. QED
  BY <1>1, CashAside, CashCloses, CashCashes, CashPays, CashDrafts DEF BookForms

\* The days the property speaks of are among those of the invariant.
LEMMA CashFollows == LedgerInv /\ CashInv => NoCashGap
BY LedgerAssumption DEF LedgerInv, TablesOK, CashInv, TillHolds, NoCashGap, Days

\* The cash is negative on no day up to today while payouts are tested for a gap and do
\* not overlap (assertBackdatedRkoNoCashGap, cash-order.service.ts).
THEOREM NoGapOfCash == Spec => []NoCashGap
BY BooksTyped, CashInitial, CashStepKept, CashFollows, PTL DEF Spec

-----------------------------------------------------------------------------
(* The types of the back office *)

\* A client has a request exactly while it is busy.
RequestsTyped ==
  /\ started \in 0 .. MaxRequests
  /\ \A c \in Clients : pc[c] = "idle" <=> req[c] = NoRequest

OrdersTyped ==
  /\ order \in [Orders -> {"NONE", "DRAFT", "POSTED"}]
  /\ dated \in [Orders -> Days \cup {0}]

WagesTyped ==
  /\ run \in [Months -> {"NONE", "DRAFT", "POSTED"}] /\ runPosted \in [Months -> BOOLEAN]
  /\ registry \in [Registries -> {"NONE", "DRAFT", "SENT", "PAID"}]
  /\ paysFor \in [Registries -> Months \cup {0}]

PayoutsTyped ==
  /\ draft \in [Drafts -> {"NONE", "PENDING", "SENT", "REJECTED", "COMPLETED"}]
  /\ line \in [Lines -> {"NONE", "NEW", "MATCHED"}]
  /\ settles \in [Lines -> Drafts \cup Registries \cup {None}]

ModulesTyped ==
  /\ month \in 1 .. LastBill
  /\ \A b \in Companies : row[b] # None => row[b].since \in Int /\ row[b].since <= LastBill /\ row[b].pending \in BOOLEAN

\* A request with another name is not the empty one.
LEMMA NamedRequest == ASSUME NEW r, r.op # "NONE" PROVE r # NoRequest
BY DEF NoRequest

\* A request that starts or goes on is one.
LEMMA RequestGoes ==
  ASSUME RequestsOK, RequestsTyped, NEW c \in Clients, NEW step, NEW r, step # "idle", r # NoRequest,
         Begin(c, step, r) \/ Goto(c, step, r)
  PROVE  RequestsTyped'
<1>1. /\ pc = [d \in Clients |-> pc[d]] /\ req = [d \in Clients |-> req[d]]
      /\ pc' = [pc EXCEPT ![c] = step] /\ req' = [req EXCEPT ![c] = r]
  BY DEF RequestsOK, Begin, Goto
<1>2. \A d \in Clients : pc'[d] = "idle" <=> req'[d] = NoRequest
  BY <1>1 DEF RequestsTyped
<1>3. started' \in 0 .. MaxRequests
  BY RequestsAssumption DEF RequestsTyped, Begin, Goto
<1>. QED
  BY <1>2, <1>3 DEF RequestsTyped

\* A request that goes on with what it has read.
LEMMA RequestKept ==
  ASSUME RequestsOK, RequestsTyped, NEW c \in Clients, NEW step, step # "idle", pc[c] # "idle", Goto(c, step, req[c])
  PROVE  RequestsTyped'
BY RequestGoes DEF RequestsTyped

\* A request that ends, or finds what it needs open.
LEMMA RequestEnds ==
  ASSUME RequestsOK, RequestsTyped, NEW c \in Clients, Finish(c)
  PROVE  RequestsTyped'
<1>1. /\ pc = [d \in Clients |-> pc[d]] /\ req = [d \in Clients |-> req[d]] /\ started' = started
      /\ pc' = [pc EXCEPT ![c] = "idle"] /\ req' = [req EXCEPT ![c] = NoRequest]
  BY DEF RequestsOK, Finish, Goto
<1>. QED
  BY <1>1 DEF RequestsTyped

\* A request that tests whether a day is open.
LEMMA RequestTests ==
  ASSUME RequestsOK, RequestsTyped, NEW c \in Clients, NEW open \in BOOLEAN, NEW step, step # "idle", pc[c] # "idle",
         CheckOpen(c, open, step)
  PROVE  RequestsTyped'
BY RequestKept, RequestEnds DEF CheckOpen

\* A step without requests.
LEMMA RequestsSame ==
  ASSUME RequestsTyped, pc' = pc, req' = req, started' = started
  PROVE  RequestsTyped'
BY DEF RequestsTyped

\* The requests of the ledger.
LEMMA ClosingTyped ==
  ASSUME RequestsOK, RequestsTyped, NEW c \in Clients, Closing(c)
  PROVE  RequestsTyped'
<1>1. ASSUME NEW op \in {"CLOSE", "DEPRECIATE"}, NEW m \in Months, StartClose(c, op, m) PROVE RequestsTyped'
  <2>1. PICK r : r.op = op /\ Begin(c, "post", r)
    BY <1>1 DEF StartClose
  <2>. QED
    BY <2>1, NamedRequest, RequestGoes
<1>2. ASSUME NEW u, StartPatch(c, u) PROVE RequestsTyped'
  <2>1. PICK r : r.op = "PATCH" /\ Begin(c, "patch", r)
    BY <1>2 DEF StartPatch
  <2>. QED
    BY <2>1, NamedRequest, RequestGoes
<1>3. CASE PostDepreciation(c)
  <2>1. pc[c] = "post" /\ (Goto(c, "sums", req[c]) \/ Goto(c, "rows", req[c]) \/ Finish(c))
    BY <1>3 DEF PostDepreciation, CheckOpen
  <2>. QED
    BY <2>1, RequestKept, RequestEnds
<1>4. CASE Accrue(c)
  <2>1. pc[c] = "rows" /\ (Goto(c, "sums", req[c]) \/ Finish(c))
    BY <1>4 DEF Accrue
  <2>. QED
    BY <2>1, RequestKept, RequestEnds
<1>5. CASE TakeSums(c)
  <2>1. PICK r : r.op = "CLOSE" /\ Goto(c, "merge", r)
    BY <1>5 DEF TakeSums
  <2>. QED
    BY <2>1, NamedRequest, RequestGoes
<1>6. CASE MergeClosed(c)
  <2>1. PICK r : r.op = "CLOSE" /\ Goto(c, "close", r)
    BY <1>6 DEF MergeClosed
  <2>. QED
    BY <2>1, NamedRequest, RequestGoes
<1>7. CASE CommitClose(c) \/ CommitDepreciation(c) \/ CommitPatch(c)
  BY <1>7, RequestEnds DEF CommitClose, CommitDepreciation, CommitPatch
<1>8. CASE FindRow(c)
  <2>1. \E op, m, l, f : Goto(c, "post", [op |-> op, month |-> m, left |-> l, rows |-> f])
    BY <1>8 DEF FindRow
  <2>2. PICK op, m, l, f : Goto(c, "post", [op |-> op, month |-> m, left |-> l, rows |-> f])
    BY <2>1
  <2>3. [op |-> op, month |-> m, left |-> l, rows |-> f] # NoRequest
    <3>1. "month" \in DOMAIN [op |-> op, month |-> m, left |-> l, rows |-> f]
      OBVIOUS
    <3>2. "month" \notin DOMAIN NoRequest
      BY DEF NoRequest
    <3>. QED
      BY <3>1, <3>2
  <2>. QED
    BY <2>2, <2>3, RequestGoes
<1>. QED
  BY <1>1, <1>2, <1>3, <1>4, <1>5, <1>6, <1>7, <1>8 DEF Closing, LedgerStep

\* The requests of the cash desk.
LEMMA CashingTyped ==
  ASSUME RequestsOK, RequestsTyped, NEW c \in Clients, Cashing(c)
  PROVE  RequestsTyped'
<1>1. ASSUME NEW o \in Orders, StartPost(c, o) PROVE RequestsTyped'
  <2>1. PICK step, r : step \in {"mark", "gap"} /\ r.op = "POST" /\ Begin(c, step, r)
    BY <1>1 DEF StartPost
  <2>. QED
    BY <2>1, NamedRequest, RequestGoes
<1>2. ASSUME NEW d \in Days, StartExpense(c, d) PROVE RequestsTyped'
  <2>1. PICK r : r.op = "EXPENSE" /\ Begin(c, "spend", r)
    BY <1>2 DEF StartExpense
  <2>. QED
    BY <2>1, NamedRequest, RequestGoes
<1>3. CASE TestGap(c)
  <2>1. Finish(c) \/ \E r : r.op = "POST" /\ Goto(c, "open", r)
    BY <1>3 DEF TestGap
  <2>. QED
    BY <2>1, NamedRequest, RequestGoes, RequestEnds
<1>4. CASE TestOpen(c)
  <2>1. pc[c] = "open" /\ (Goto(c, "book", req[c]) \/ Finish(c))
    BY <1>4 DEF TestOpen, At, CheckOpen
  <2>. QED
    BY <2>1, RequestKept, RequestEnds
<1>5. CASE BookOrder(c) \/ Spend(c)
  BY <1>5, RequestEnds DEF BookOrder, Spend
<1>. QED
  BY <1>1, <1>2, <1>3, <1>4, <1>5 DEF Cashing, CashStep

\* The requests of payroll and bank.
LEMMA PayingTyped ==
  ASSUME RequestsOK, RequestsTyped, NEW c \in Clients, Paying(c)
  PROVE  RequestsTyped'
<1>1. ASSUME NEW g \in Registries, NEW m \in Months, CreateRegistry(c, g, m) PROVE RequestsTyped'
  <2>1. PICK r : r.op = "REGISTRY" /\ Begin(c, "send", r)
    BY <1>1 DEF CreateRegistry
  <2>. QED
    BY <2>1, NamedRequest, RequestGoes
<1>2. ASSUME NEW g \in Registries, StartPaid(c, g) PROVE RequestsTyped'
  <2>1. PICK r : r.op = "PAID" /\ Begin(c, "paid", r)
    BY <1>2 DEF StartPaid
  <2>. QED
    BY <2>1, NamedRequest, RequestGoes
<1>3. ASSUME NEW p \in Drafts, CreateDraft(c, p) PROVE RequestsTyped'
  <2>1. PICK r : r.op = "DRAFT" /\ Begin(c, "send", r)
    BY <1>3 DEF CreateDraft
  <2>. QED
    BY <2>1, NamedRequest, RequestGoes
<1>4. ASSUME NEW l \in Lines, ImportLine(c, l) PROVE RequestsTyped'
  <2>1. PICK r : r.op = "IMPORT" /\ Begin(c, "drafts", r)
    BY <1>4 DEF ImportLine
  <2>. QED
    BY <2>1, NamedRequest, RequestGoes
<1>5. CASE TestPaid(c)
  <2>1. pc[c] = "paid" /\ (Goto(c, "pay", req[c]) \/ Finish(c))
    BY <1>5 DEF TestPaid, At, CheckOpen
  <2>. QED
    BY <2>1, RequestKept, RequestEnds
<1>6. CASE ReadDrafts(c)
  <2>1. pc[c] = "drafts" /\ (Goto(c, "registries", req[c]) \/ \E r : r.op = "IMPORT" /\ Goto(c, "settle", r))
    BY <1>6 DEF ReadDrafts, At, Choose
  <2>. QED
    BY <2>1, NamedRequest, RequestKept, RequestGoes
<1>7. CASE ReadRegistries(c)
  <2>1. Finish(c) \/ \E r : r.op = "IMPORT" /\ Goto(c, "settle", r)
    BY <1>7 DEF ReadRegistries, Choose
  <2>. QED
    BY <2>1, NamedRequest, RequestGoes, RequestEnds
<1>8. CASE SendRegistry(c) \/ SendDraft(c) \/ CommitPaid(c) \/ Settle(c)
  BY <1>8, RequestEnds DEF SendRegistry, SendDraft, CommitPaid, Settle
<1>. QED
  BY <1>1, <1>2, <1>3, <1>4, <1>5, <1>6, <1>7, <1>8 DEF Paying, PayStep

\* The requests about employees and departments.
LEMMA EmployingTyped ==
  ASSUME RequestsOK, RequestsTyped, NEW c \in Clients, Employing(c)
  PROVE  RequestsTyped'
<1>1. ASSUME NEW e \in Employees, NEW p \in Positions, StartHire(c, e, p) PROVE RequestsTyped'
  <2>1. PICK r : r.op = "HIRE" /\ Begin(c, "hire", r)
    BY <1>1 DEF StartHire
  <2>. QED
    BY <2>1, NamedRequest, RequestGoes
<1>2. ASSUME NEW p \in Positions, NEW n \in 0 .. MaxSlots, StartResize(c, p, n) PROVE RequestsTyped'
  <2>1. PICK r : r.op = "RESIZE" /\ Begin(c, "resize", r)
    BY <1>2 DEF StartResize
  <2>. QED
    BY <2>1, NamedRequest, RequestGoes
<1>3. ASSUME NEW d \in Departments, NEW p \in Departments, StartMove(c, d, p) PROVE RequestsTyped'
  <2>1. PICK r : r.op = "MOVE" /\ Begin(c, "walk", r)
    BY <1>3 DEF StartMove
  <2>. QED
    BY <2>1, NamedRequest, RequestGoes
<1>4. CASE Walk(c)
  <2>1. pc[c] = "walk" /\ (Finish(c) \/ Goto(c, "move", req[c]) \/ \E r : r.op = "MOVE" /\ Goto(c, "walk", r))
    BY <1>4 DEF Walk
  <2>. QED
    BY <2>1, NamedRequest, RequestKept, RequestGoes, RequestEnds
<1>5. CASE WalkEnd(c)
  BY <1>5, RequestKept DEF WalkEnd
<1>6. CASE CommitHire(c) \/ CommitResize(c) \/ CommitMove(c)
  BY <1>6, RequestEnds DEF CommitHire, CommitResize, CommitMove
<1>. QED
  BY <1>1, <1>2, <1>3, <1>4, <1>5, <1>6 DEF Employing, StaffStep

\* A request of the monthly run whose companies or items change is one.
LEMMA RunNamed ==
  ASSUME BillInv, NEW c \in Clients, pc[c] \in RunSteps, NEW left, NEW items
  PROVE  /\ [req[c] EXCEPT !.left = left] # NoRequest
         /\ [req[c] EXCEPT !.left = left, !.items = items] # NoRequest
<1>1. PICK r : r = req[c]
  OBVIOUS
<1>2. r = [op |-> "RUN", period |-> r.period, left |-> r.left, items |-> r.items]
  BY <1>1 DEF BillInv, Shaped, RunShape
<1>3. [r EXCEPT !.left = left].op = "RUN" /\ [r EXCEPT !.left = left, !.items = items].op = "RUN"
  BY <1>2
<1>. QED
  BY <1>1, <1>3, NamedRequest

\* The requests of billing.
LEMMA BillingTyped ==
  ASSUME BillInv, RequestsTyped, NEW c \in Clients, Billing(c)
  PROVE  RequestsTyped'
<1>. RequestsOK
  BY DEF BillInv
<1>1. ASSUME NEW b \in Companies, NEW on \in BOOLEAN, StartToggle(c, b, on) PROVE RequestsTyped'
  <2>1. PICK r : r.op = "TOGGLE" /\ Begin(c, "toggle", r)
    BY <1>1 DEF StartToggle
  <2>. QED
    BY <2>1, NamedRequest, RequestGoes
<1>2. CASE StartRun(c)
  <2>1. PICK r : r.op = "RUN" /\ Begin(c, "expired", r)
    BY <1>2 DEF StartRun
  <2>. QED
    BY <2>1, NamedRequest, RequestGoes
<1>3. CASE StartEscalation(c)
  <2>1. PICK r : r.op = "ESCALATE" /\ Begin(c, "unpaid", r)
    BY <1>3 DEF StartEscalation
  <2>. QED
    BY <2>1, NamedRequest, RequestGoes
<1>4. CASE Remove(c)
  <2>1. /\ pc[c] \in {"expired", "pending"}
        /\ Finish(c) \/ \E left : Goto(c, pc[c], [req[c] EXCEPT !.left = left])
    BY <1>4 DEF Remove
  <2>2. CASE Finish(c)
    BY <2>2, RequestEnds
  <2>3. ASSUME NEW left, Goto(c, pc[c], [req[c] EXCEPT !.left = left]) PROVE RequestsTyped'
    <3>1. [req[c] EXCEPT !.left = left] # NoRequest
      BY <2>1, RunNamed DEF RunSteps
    <3>2. pc[c] # "idle"
      BY <2>1
    <3>. QED
      BY <2>3, <3>1, <3>2, RequestGoes
  <2>. QED
    BY <2>1, <2>2, <2>3
<1>5. CASE SeekInvoice(c)
  <2>1. pc[c] = "expired" /\ (Goto(c, "deactivate", req[c]) \/ Goto(c, "estimate", [req[c] EXCEPT !.left = Companies]))
    BY <1>5 DEF SeekInvoice
  <2>2. [req[c] EXCEPT !.left = Companies] # NoRequest
    BY <2>1, RunNamed DEF RunSteps
  <2>. QED
    BY <2>1, <2>2, RequestKept, RequestGoes
<1>6. CASE Estimate(c)
  <2>1. PICK left, items : pc[c] = "estimate" /\ Goto(c, "estimate", [req[c] EXCEPT !.left = left, !.items = items])
    BY <1>6 DEF Estimate
  <2>2. [req[c] EXCEPT !.left = left, !.items = items] # NoRequest
    BY <2>1, RunNamed DEF RunSteps
  <2>. QED
    BY <2>1, <2>2, RequestGoes
<1>7. CASE CreateInvoice(c) \/ BlockBilled(c)
  <2>1. pc[c] # "idle" /\ (Goto(c, "deactivate", req[c]) \/ Goto(c, "block", req[c]))
    BY <1>7 DEF CreateInvoice, BlockBilled
  <2>. QED
    BY <2>1, RequestKept
<1>8. CASE ReadPending(c)
  <2>1. PICK left : pc[c] = "deactivate" /\ Goto(c, "pending", [req[c] EXCEPT !.left = left])
    BY <1>8 DEF ReadPending
  <2>2. [req[c] EXCEPT !.left = left] # NoRequest
    BY <2>1, RunNamed DEF RunSteps
  <2>. QED
    BY <2>1, <2>2, RequestGoes
<1>9. CASE ReadUnpaid(c)
  <2>1. PICK hard : pc[c] = "unpaid" /\ (Finish(c) \/ Goto(c, "hard", [req[c] EXCEPT !.hard = hard]))
    BY <1>9 DEF ReadUnpaid
  <2>2. PICK r : r = req[c]
    OBVIOUS
  <2>3. r = [op |-> "ESCALATE", period |-> r.period, hard |-> r.hard]
    BY <2>1, <2>2 DEF BillInv, Shaped
  <2>4. [r EXCEPT !.hard = hard].op = "ESCALATE"
    BY <2>3
  <2>. QED
    BY <2>1, <2>2, <2>4, NamedRequest, RequestGoes, RequestEnds
<1>10. CASE CommitToggle(c) \/ EndRun(c) \/ BlockHard(c)
  BY <1>10, RequestEnds DEF CommitToggle, EndRun, BlockHard
<1>. QED
  BY <1>1, <1>2, <1>3, <1>4, <1>5, <1>6, <1>7, <1>8, <1>9, <1>10 DEF Billing, BillStart, BillStep

\* Every step keeps the requests typed.
LEMMA RequestsTypedKept ==
  BillInv /\ RequestsTyped /\ [Next]_officeVars => RequestsTyped'
<1>. SUFFICES ASSUME BillInv, RequestsTyped, [Next]_officeVars PROVE RequestsTyped'
  OBVIOUS
<1>. RequestsOK
  BY DEF BillInv
<1>1. CASE UNCHANGED officeVars
  BY <1>1, RequestsSame DEF officeVars, requestVars
<1>2. CASE Drafting
  BY <1>2, RequestsSame DEF Drafting, NextDay, CreateOrder, Instant, requestVars
<1>3. CASE PayInstant
  BY <1>3, RequestsSame DEF PayInstant, CreateRun, PostRun, Instant
<1>4. CASE StaffInstant
  BY <1>4, RequestsSame DEF StaffInstant, Leave, Detach, Instant
<1>5. CASE BillInstant
  BY <1>5, RequestsSame DEF BillInstant, NextBillDay, PayInvoice, PayOrder, Instant
<1>6. ASSUME NEW c \in Clients, Closing(c) \/ Cashing(c) \/ Paying(c) \/ Employing(c) \/ Billing(c)
      PROVE  RequestsTyped'
  BY <1>6, ClosingTyped, CashingTyped, PayingTyped, EmployingTyped, BillingTyped
<1>7. ASSUME NEW c \in Clients, Abort(c) PROVE RequestsTyped'
  BY <1>7, RequestEnds DEF Abort
<1>. QED
  BY <1>1, <1>2, <1>3, <1>4, <1>5, <1>6, <1>7 DEF Next

\* Drafting and posting keep the orders typed.
LEMMA OrdersTypedKept ==
  OrdersTyped /\ [Next]_officeVars => OrdersTyped'
<1>. SUFFICES ASSUME OrdersTyped, [Next]_officeVars PROVE OrdersTyped'
  OBVIOUS
<1>1. ASSUME NEW o \in Orders, NEW d \in DraftDays, CreateOrder(o, d) PROVE OrdersTyped'
  <2>1. d \in Days
    BY ScenesAssumption
  <2>. QED
    BY <1>1, <2>1 DEF OrdersTyped, CreateOrder
<1>2. ASSUME NEW c \in Clients, BookOrder(c) PROVE OrdersTyped'
  BY <1>2 DEF OrdersTyped, BookOrder
<1>3. ASSUME order' = order, dated' = dated PROVE OrdersTyped'
  BY <1>3 DEF OrdersTyped
<1>4. CASE UNCHANGED officeVars
  BY <1>3, <1>4 DEF officeVars, cashVars
<1>5. CASE Drafting
  <2>1. UNCHANGED cashVars \/ \E o \in Orders, d \in DraftDays : CreateOrder(o, d)
    BY <1>5 DEF Drafting
  <2>. QED
    BY <1>1, <1>3, <2>1 DEF cashVars
<1>6. ASSUME NEW c \in Clients, Cashing(c) PROVE OrdersTyped'
  <2>1. CASE BookOrder(c)
    BY <1>2, <2>1
  <2>2. CASE Spend(c)
    BY <1>3, <2>2 DEF Spend
  <2>3. CASE UNCHANGED cashVars
    BY <1>3, <2>3 DEF cashVars
  <2>. QED
    BY <1>6, <2>1, <2>2, <2>3 DEF Cashing, CashStep, StartPost, StartExpense, TestGap, TestOpen
<1>7. ASSUME NEW c \in Clients, Closing(c) \/ Paying(c) \/ Employing(c) \/ Billing(c) \/ Abort(c) PROVE OrdersTyped'
  BY <1>3, <1>7 DEF Closing, Paying, Employing, Billing, Abort, cashVars
<1>8. CASE UNCHANGED cashVars
  BY <1>3, <1>8 DEF cashVars
<1>. QED
  BY <1>4, <1>5, <1>6, <1>7, <1>8 DEF Next

\* The payroll tables after a step of payroll or bank.
LEMMA PayTablesKept ==
  ASSUME PayInv, WagesTyped, PayoutsTyped, NEW c \in Clients, Paying(c)
  PROVE  WagesTyped' /\ PayoutsTyped'
<1>1. CASE UNCHANGED payVars
  BY <1>1 DEF WagesTyped, PayoutsTyped, payVars
<1>2. ASSUME NEW g \in Registries, NEW m \in Months, CreateRegistry(c, g, m) PROVE WagesTyped' /\ PayoutsTyped'
  BY <1>2 DEF CreateRegistry, WagesTyped, PayoutsTyped
<1>3. ASSUME NEW p \in Drafts, CreateDraft(c, p) PROVE WagesTyped' /\ PayoutsTyped'
  BY <1>3 DEF CreateDraft, WagesTyped, PayoutsTyped
<1>4. ASSUME NEW l \in Lines, ImportLine(c, l) PROVE WagesTyped' /\ PayoutsTyped'
  BY <1>4 DEF ImportLine, WagesTyped, PayoutsTyped
<1>5. CASE SendRegistry(c)
  BY <1>5 DEF SendRegistry, WagesTyped, PayoutsTyped
<1>6. CASE SendDraft(c)
  BY <1>6 DEF SendDraft, WagesTyped, PayoutsTyped
<1>7. CASE CommitPaid(c)
  BY <1>7 DEF CommitPaid, WagesTyped, PayoutsTyped
<1>8. CASE Settle(c)
  <2>1. req[c].hit \in Drafts \cup Registries
    BY <1>8 DEF PayInv, Waits, Settle, At
  <2>2. WagesTyped'
    BY <1>8 DEF Settle, WagesTyped
  <2>3. PayoutsTyped'
    BY <1>8, <2>1 DEF Settle, PayoutsTyped
  <2>. QED
    BY <2>2, <2>3
<1>. QED
  BY <1>1, <1>2, <1>3, <1>4, <1>5, <1>6, <1>7, <1>8
  DEF Paying, PayStep, StartPaid, TestPaid, ReadDrafts, ReadRegistries

\* Every step keeps the tables of payroll and bank typed.
LEMMA PayTypedKept ==
  PayInv /\ WagesTyped /\ PayoutsTyped /\ [Next]_officeVars => WagesTyped' /\ PayoutsTyped'
<1>. SUFFICES ASSUME PayInv, WagesTyped, PayoutsTyped, [Next]_officeVars PROVE WagesTyped' /\ PayoutsTyped'
  OBVIOUS
<1>1. CASE UNCHANGED payVars
  BY <1>1 DEF WagesTyped, PayoutsTyped, payVars
<1>2. ASSUME NEW m \in Months, CreateRun(m) \/ PostRun(m) PROVE WagesTyped' /\ PayoutsTyped'
  BY <1>2 DEF CreateRun, PostRun, WagesTyped, PayoutsTyped
<1>3. UNCHANGED payVars \/ PayInstant \/ \E c \in Clients : Paying(c)
  BY DEF Next, officeVars, Drafting, Closing, Cashing, Employing, Billing, Abort
<1>. QED
  BY <1>1, <1>2, <1>3, PayTablesKept DEF PayInstant

\* The rows after a toggle.
LEMMA ToggleTyped ==
  ASSUME RowsOK, ModulesTyped, NEW c \in Clients, CommitToggle(c)
  PROVE  ModulesTyped'
<1>. DEFINE Typed(w) == w # None => w.since \in Int /\ w.since <= LastBill /\ w.pending \in BOOLEAN
<1>1. LastBill \in Int /\ month \in 1 .. LastBill /\ month' = month
  BY BillingAssumption DEF ModulesTyped, CommitToggle
<1>2. \A b \in Companies : Typed(row[b])
  BY DEF ModulesTyped
<1>3. PICK b : b = req[c].company
  OBVIOUS
<1>4. row' = row \/ \E w : row' = [row EXCEPT ![b] = w] /\ (b \in Companies => Typed(w))
  <2>1. CASE row' = row
    BY <2>1
  <2>2. CASE row' = [row EXCEPT ![b] = Row(row[b].since, None, row[b].pending)] /\ row[b] # None
    <3>1. b \in Companies => Typed(Row(row[b].since, None, row[b].pending))
      BY <1>2, <2>2 DEF Row
    <3>. QED
      BY <2>2, <3>1
  <2>3. CASE row' = [row EXCEPT ![b] = Row(month, None, FALSE)]
    <3>1. Typed(Row(month, None, FALSE))
      BY <1>1 DEF Row
    <3>. QED
      BY <2>3, <3>1
  <2>4. CASE row' = [row EXCEPT ![b] = Row(IF row[b] = None THEN month ELSE row[b].since, month, TRUE)]
    <3>1. PICK s : s = IF row[b] = None THEN month ELSE row[b].since
      OBVIOUS
    <3>2. b \in Companies => s \in Int /\ s <= LastBill
      BY <1>1, <1>2, <3>1
    <3>3. b \in Companies => Typed(Row(s, month, TRUE))
      BY <3>2 DEF Row
    <3>. QED
      BY <2>4, <3>1, <3>3
  <2>. QED
    BY <1>3, <2>1, <2>2, <2>3, <2>4 DEF CommitToggle, TurnOn, TurnOff
<1>5. row = [a \in Companies |-> row[a]]
  BY DEF RowsOK
<1>6. \A a \in Companies : Typed(row'[a])
  <2>. HIDE DEF Typed
  <2>. QED
    BY <1>2, <1>4, <1>5
<1>. QED
  BY <1>1, <1>6 DEF ModulesTyped

\* Every step keeps the rows of the modules typed.
LEMMA ModulesTypedKept ==
  BillInv /\ ModulesTyped /\ [Next]_officeVars => ModulesTyped'
<1>. SUFFICES ASSUME BillInv, ModulesTyped, [Next]_officeVars PROVE ModulesTyped'
  OBVIOUS
<1>1. ASSUME month' = month, row' = row PROVE ModulesTyped'
  BY <1>1 DEF ModulesTyped
<1>2. ASSUME NEW c \in Clients, Remove(c) PROVE ModulesTyped'
  <2>1. month' = month /\ (row' = row \/ \E b : row' = [row EXCEPT ![b] = None])
    BY <1>2 DEF Remove
  <2>2. row = [b \in Companies |-> row[b]]
    BY DEF BillInv, RowsOK
  <2>. QED
    BY <2>1, <2>2 DEF ModulesTyped
<1>3. CASE NextBillDay
  <2>1. row' = row /\ month' \in 1 .. LastBill
    BY <1>3, BillingAssumption DEF NextBillDay, ModulesTyped
  <2>. QED
    BY <2>1 DEF ModulesTyped
<1>4. CASE BillInstant
  BY <1>1, <1>3, <1>4 DEF BillInstant, PayInvoice, PayOrder
<1>5. ASSUME NEW c \in Clients, Billing(c) PROVE ModulesTyped'
  <2>1. CASE CommitToggle(c)
    BY <2>1, ToggleTyped DEF BillInv
  <2>2. CASE Remove(c)
    BY <1>2, <2>2
  <2>3. CASE month' = month /\ row' = row
    BY <1>1, <2>3
  <2>. QED
    BY <1>5, <2>1, <2>2, <2>3
    DEF Billing, BillStart, BillStep, StartToggle, StartRun, StartEscalation, SeekInvoice, Estimate, CreateInvoice,
        BlockBilled, ReadPending, EndRun, ReadUnpaid, BlockHard, billVars
<1>6. UNCHANGED billVars \/ BillInstant \/ \E c \in Clients : Billing(c)
  BY DEF Next, officeVars, Drafting, Closing, Cashing, Paying, Employing, Abort
<1>. QED
  BY <1>1, <1>4, <1>5, <1>6 DEF billVars

\* The tables are typed at first.
LEMMA TypedInitial == Init => RequestsTyped /\ OrdersTyped /\ WagesTyped /\ PayoutsTyped /\ ModulesTyped
<1>. SUFFICES ASSUME Init PROVE RequestsTyped /\ OrdersTyped /\ WagesTyped /\ PayoutsTyped /\ ModulesTyped
  OBVIOUS
<1>1. RequestsTyped
  BY RequestsAssumption DEF Init, RequestInit, RequestsTyped
<1>2. OrdersTyped
  BY DEF Init, CashInit, OrdersTyped
<1>3. WagesTyped /\ PayoutsTyped
  BY DEF Init, PayInit, WagesTyped, PayoutsTyped
<1>4. ModulesTyped
  <2>1. month \in 1 .. LastBill
    BY BillingAssumption DEF Init, BillInit
  <2>2. ASSUME NEW b \in Companies, row[b] # None
        PROVE  row[b].since \in Int /\ row[b].since <= LastBill /\ row[b].pending \in BOOLEAN
    <3>1. row[b] = Row(-1, None, FALSE)
      BY <2>2 DEF Init, BillInit
    <3>2. -1 \in Int /\ -1 <= LastBill
      BY BillingAssumption
    <3>3. row[b].since = -1 /\ row[b].pending = FALSE
      BY <3>1 DEF Row
    <3>4. row[b].since \in Int /\ row[b].since <= LastBill
      BY <3>2, <3>3
    <3>. QED
      BY <3>3, <3>4
  <2>. QED
    BY <2>1, <2>2 DEF ModulesTyped
<1>. QED
  BY <1>1, <1>2, <1>3, <1>4

\* Together with what was proved of each table, this is the type invariant.
LEMMA TypesFollow ==
  /\ LedgerInv /\ TreeInv /\ SlotInv /\ BillInv
  /\ RequestsTyped /\ OrdersTyped /\ WagesTyped /\ PayoutsTyped /\ ModulesTyped
  => BackOfficeTypeOK
<1>. SUFFICES ASSUME LedgerInv, TreeInv, SlotInv, BillInv,
                     RequestsTyped, OrdersTyped, WagesTyped, PayoutsTyped, ModulesTyped
              PROVE  BackOfficeTypeOK
  OBVIOUS
<1>1. LedgerTypeOK
  <2>1. /\ today \in Days /\ settings \in SettingsDocs
        /\ \A e \in journal : e.account \in Accounts /\ e.day \in Days /\ e.amount \in Int
        /\ snap \in [Months -> [Accounts -> Int \cup {None}]]
    BY DEF LedgerInv, TablesOK, EntryOK
  <2>2. accrued \in [Assets -> [Months -> Int]] /\ booked \in [Assets -> Int]
    BY DEF LedgerInv, TablesOK
  <2>3. started \in 0 .. MaxRequests /\ \A c \in Clients : pc[c] = "idle" <=> req[c] = NoRequest
    BY DEF RequestsTyped
  <2>4. disorder \in BOOLEAN /\ overlap \in BOOLEAN
    BY DEF LedgerInv, TablesOK, BillInv, RequestsOK
  <2>5. settings.closed \subseteq Months /\ settings.until \in 0 .. LastMonth * MonthDays
    BY <2>1 DEF SettingsDocs
  <2>. QED
    BY <2>1, <2>2, <2>3, <2>4, <2>5 DEF LedgerTypeOK
<1>2. unguarded \in BOOLEAN
  BY DEF LedgerInv, TablesOK
<1>3. /\ place \in [Employees -> Positions \cup {None}] /\ slots \in [Positions -> Nat]
      /\ parent \in [Departments -> Departments \cup {None}] /\ resized \in BOOLEAN
  BY DEF SlotInv, PlaceOK, TreeInv, ParentOK
<1>4. plan \subseteq Companies /\ standing \in [Companies -> {"ACTIVE", "SOFT_BLOCK", "HARD_BLOCK"}]
  BY DEF BillInv, RowsOK, Standings
<1>5. \A b \in Companies : row[b] # None => row[b].since < LastBill + 1 /\ row[b].pending \in BOOLEAN
  <2>. SUFFICES ASSUME NEW b \in Companies, row[b] # None
                PROVE  row[b].since < LastBill + 1 /\ row[b].pending \in BOOLEAN
    OBVIOUS
  <2>1. row[b].since \in Int /\ row[b].since <= LastBill /\ row[b].pending \in BOOLEAN
    BY DEF ModulesTyped
  <2>2. row[b].since < LastBill + 1
    BY <2>1, BillingAssumption
  <2>. QED
    BY <2>1, <2>2
<1>. QED
  BY <1>1, <1>2, <1>3, <1>4, <1>5 DEF OrdersTyped, WagesTyped, PayoutsTyped, BackOfficeTypeOK

\* Every variable of the back office keeps its type, whatever requests are in use
\* and however they overlap.
THEOREM OfficeTyped == Spec => []BackOfficeTypeOK
<1>1. Spec => [](TreeInv /\ SlotInv)
  BY OfficeStaffs, TreeInit, TreeStep, SlotInit, SlotStep, PTL DEF StaffSpec, staffAll
<1>2. Spec => []BillInv
  BY OfficeBills, BillingInvariant, PTL
<1>3. Spec => [](RequestsTyped /\ OrdersTyped /\ WagesTyped /\ PayoutsTyped /\ ModulesTyped)
  BY <1>2, BooksTyped, TypedInitial, RequestsTypedKept, OrdersTypedKept, PayTypedKept, ModulesTypedKept, PTL DEF Spec
<1>. QED
  BY <1>1, <1>2, <1>3, BooksTyped, TypesFollow, PTL
=============================================================================
