-------------------------- MODULE Providers_proofs --------------------------
(***************************************************************************)
(* Theorems about PaymentOrders, for every number of handlers, orders and  *)
(* repeated notifications, proved under OrdersAssumption:                  *)
(*   TypeCorrect   the type invariant,                                     *)
(*   OnceOnly      a payment is applied and invoiced once,                 *)
(*   FinalOutcome  a paid or failed order stays so;                        *)
(* about BankCalls, for any callers, instructions and numbers of attempts: *)
(*   OnceInstructed  a bank takes an instruction no more often than the    *)
(*                   loops try it, and a confirmed one is not sent again;  *)
(* and about their composition Providers.                                  *)
(***************************************************************************)
EXTENDS Providers, TLAPS

\* A handler under way works on an order.
Working == \A h \in Handlers : pc[h] # "idle" => job[h] \in Orders

\* Two handlers never hold one order, and a held order is still pending for the others.
Exclusive ==
  \A h \in Handlers, o \in Orders :
    Holds(h, o) => /\ order[o] = "PENDING"
                   /\ ~\E g \in Handlers \ {h} : Holds(g, o)

\* A handler only adds a missing invoice to an order that was paid.
RecordsPaid == \A h \in Handlers : pc[h] = "record" => order[job[h]] = "PAID"

Inv == TypeOK /\ Working /\ Exclusive /\ RecordsPaid /\ AppliedOnce

-----------------------------------------------------------------------------
\* Ending a request leaves the handlers well typed, and idle.
LEMMA EndFacts ==
  ASSUME TypeOK, NEW h \in Handlers, End(h)
  PROVE  /\ pc' \in [Handlers -> Steps] /\ job' \in [Handlers -> Orders \cup {None}]
         /\ base' \in [Handlers -> Nat]
         /\ pc'[h] = "idle"
         /\ \A g \in Handlers \ {h} : pc'[g] = pc[g] /\ job'[g] = job[g]
BY DEF TypeOK, End, Goto, Steps

\* Moving on leaves the handlers well typed, and the others where they are.
LEMMA GotoFacts ==
  ASSUME TypeOK, NEW h \in Handlers, NEW step \in Steps, Goto(h, step)
  PROVE  /\ pc' \in [Handlers -> Steps]
         /\ pc'[h] = step
         /\ \A g \in Handlers \ {h} : pc'[g] = pc[g]
BY DEF TypeOK, Goto

-----------------------------------------------------------------------------
\* The initial states satisfy the invariant.
LEMMA InitInv == Init => Inv
<1> SUFFICES ASSUME Init PROVE Inv
  OBVIOUS
<1>1. TypeOK
  BY DEF Init, TypeOK, Statuses, Steps
<1>2. Working /\ Exclusive /\ RecordsPaid
  BY DEF Init, Working, Exclusive, RecordsPaid, Holds
<1>3. AppliedOnce
  BY DEF Init, AppliedOnce
<1>4. QED
  BY <1>1, <1>2, <1>3 DEF Inv

\* The checkout, the bank, the clock and the monthly billing preserve it.
LEMMA OutsideInv ==
  ASSUME Inv,
         \/ \E o \in Orders : Checkout(o) \/ Decline(o) \/ Collect(o) \/ FailOrder(o)
         \/ Block \/ NextMonth
  PROVE  Inv'
<1>1. CASE \E o \in Orders : Checkout(o)
  BY <1>1 DEF Checkout, Inv, TypeOK, Working, Exclusive, RecordsPaid, AppliedOnce, Holds, Statuses
<1>2. CASE \E o \in Orders : Decline(o) \/ Collect(o)
  BY <1>2 DEF Decline, Collect, Inv, TypeOK, Working, Exclusive, RecordsPaid, AppliedOnce, Holds
<1>3. ASSUME NEW o \in Orders, FailOrder(o) PROVE Inv'
  <2>1. order[o] = "PENDING" /\ order' \in [Orders -> Statuses]
    BY <1>3 DEF FailOrder, MayFail, Inv, TypeOK, Statuses
  <2>2. \A x \in Orders \ {o} : order'[x] = order[x]
    BY <1>3 DEF FailOrder, Inv, TypeOK
  <2>3. order'[o] = "FAILED"
    BY <1>3 DEF FailOrder, Inv, TypeOK
  <2>4. TypeOK'
    BY <1>3, <2>1 DEF FailOrder, Inv, TypeOK
  <2>5. Working' /\ RecordsPaid'
    BY <1>3, <2>1, <2>2 DEF FailOrder, Inv, Working, RecordsPaid
  <2>6. Exclusive'
    BY <1>3, <2>2 DEF FailOrder, Inv, Exclusive, Holds
  <2>7. AppliedOnce'
    BY <1>3, <2>1, <2>2, <2>3 DEF FailOrder, Inv, AppliedOnce
  <2>8. QED
    BY <2>4, <2>5, <2>6, <2>7 DEF Inv
<1>4. CASE Block \/ NextMonth
  <2>1. clock' \in Nat
    BY <1>4 DEF Block, NextMonth, Inv, TypeOK
  <2>2. blocked' \in BOOLEAN
    BY <1>4 DEF Block, NextMonth, Inv, TypeOK
  <2>3. UNCHANGED <<order, expires, trial, invoices, granted, wire, pc, job, base, aborts>>
    BY <1>4 DEF Block, NextMonth
  <2>4. QED
    BY <2>1, <2>2, <2>3
       DEF Inv, TypeOK, Working, Exclusive, RecordsPaid, AppliedOnce, Holds
<1>5. QED
  BY <1>1, <1>2, <1>3, <1>4

\* Receiving a notification preserves it.
LEMMA ReceiveInv ==
  ASSUME Inv, NEW h \in Handlers, NEW o \in Orders, Receive(h, o)
  PROVE  Inv'
<1>1. /\ pc' \in [Handlers -> Steps] /\ pc'[h] = "begin"
      /\ \A g \in Handlers \ {h} : pc'[g] = pc[g]
  BY GotoFacts DEF Receive, Inv, Steps
<1>2. /\ job' \in [Handlers -> Orders \cup {None}] /\ job'[h] = o
      /\ \A g \in Handlers \ {h} : job'[g] = job[g]
  BY DEF Receive, Inv, TypeOK
<1>3. QED
  BY <1>1, <1>2 DEF Receive, Inv, TypeOK, Working, Exclusive, RecordsPaid, AppliedOnce, Holds

\* A step that ends the request and leaves the orders alone preserves it.
LEMMA QuietEnd ==
  ASSUME Inv, NEW h \in Handlers, End(h), aborts' \in Nat,
         UNCHANGED <<clock, order, expires, trial, blocked, invoices, granted, wire>>
  PROVE  Inv'
<1>1. /\ pc' \in [Handlers -> Steps] /\ job' \in [Handlers -> Orders \cup {None}]
      /\ base' \in [Handlers -> Nat]
      /\ pc'[h] = "idle"
      /\ \A g \in Handlers \ {h} : pc'[g] = pc[g] /\ job'[g] = job[g]
  BY EndFacts DEF Inv
<1>2. QED
  BY <1>1 DEF Inv, TypeOK, Working, Exclusive, RecordsPaid, AppliedOnce, Holds

\* A step that only moves on, to a place where nothing is held, preserves it.
LEMMA QuietGoto ==
  ASSUME Inv, NEW h \in Handlers, NEW step \in {"mark", "record"}, Goto(h, step),
         pc[h] # "idle", step = "record" => order[job[h]] = "PAID",
         UNCHANGED <<clock, order, expires, trial, blocked, invoices, granted, wire, job, base, aborts>>
  PROVE  Inv'
<1>1. /\ pc' \in [Handlers -> Steps] /\ pc'[h] = step
      /\ \A g \in Handlers \ {h} : pc'[g] = pc[g]
  BY GotoFacts DEF Inv, Steps
<1>2. QED
  BY <1>1 DEF Inv, TypeOK, Working, Exclusive, RecordsPaid, AppliedOnce, Holds

\* Marking the order excludes the other handlers.
LEMMA MarkInv ==
  ASSUME Inv, NEW h \in Handlers, Mark(h)
  PROVE  Inv'
<1>1. /\ pc' \in [Handlers -> Steps] /\ pc'[h] = "marked"
      /\ \A g \in Handlers \ {h} : pc'[g] = pc[g]
  BY GotoFacts DEF Mark, Inv, Steps
<1>2. Exclusive'
  BY <1>1 DEF Mark, Markable, Held, Inv, TypeOK, Exclusive, Holds
<1>3. QED
  BY <1>1, <1>2 DEF Mark, Inv, TypeOK, Working, RecordsPaid, AppliedOnce

\* Reading the subscription keeps the order held.
LEMMA ReadSubscriptionInv ==
  ASSUME Inv, NEW h \in Handlers, ReadSubscription(h)
  PROVE  Inv'
<1>1. /\ pc' \in [Handlers -> Steps] /\ pc'[h] = "extend"
      /\ \A g \in Handlers \ {h} : pc'[g] = pc[g]
  BY GotoFacts DEF ReadSubscription, Inv, Steps
<1>2. base' \in [Handlers -> Nat]
  BY DEF ReadSubscription, Later, Inv, TypeOK
<1>3. QED
  BY <1>1, <1>2 DEF ReadSubscription, Inv, TypeOK, Working, Exclusive, RecordsPaid, AppliedOnce, Holds

\* The commit applies an order that nobody else holds, for the first time.
LEMMA CommitInv ==
  ASSUME Inv, NEW h \in Handlers, Commit(h)
  PROVE  Inv'
<1> DEFINE o == job[h]
<1>1. /\ pc' \in [Handlers -> Steps] /\ job' \in [Handlers -> Orders \cup {None}]
      /\ base' \in [Handlers -> Nat]
      /\ pc'[h] = "idle"
      /\ \A g \in Handlers \ {h} : pc'[g] = pc[g] /\ job'[g] = job[g]
  BY EndFacts DEF Commit, Inv
<1>2. /\ o \in Orders /\ Holds(h, o) /\ order[o] = "PENDING"
      /\ ~\E g \in Handlers \ {h} : Holds(g, o)
  BY DEF Commit, Inv, Working, Exclusive, Holds
<1>3. granted[o] = 0 /\ invoices[o] = 0
  BY <1>2 DEF Inv, AppliedOnce
<1>4. /\ order' = [order EXCEPT ![o] = "PAID"]
      /\ granted' = [granted EXCEPT ![o] = 1]
      /\ invoices' = [invoices EXCEPT ![o] = 1]
  BY <1>2, <1>3 DEF Commit, Invoice, Recorded, Inv, TypeOK
<1>5. TypeOK'
  <2>1. base[h] + Months[o] \in Nat
    BY <1>2, OrdersAssumption DEF Inv, TypeOK
  <2>2. blocked' \in BOOLEAN /\ trial' \in BOOLEAN
    BY DEF Commit, Invoice
  <2>3. QED
    BY <1>1, <1>2, <1>4, <2>1, <2>2 DEF Commit, Inv, TypeOK, Statuses
<1> HIDE DEF o
<1>6. Working' /\ RecordsPaid'
  BY <1>1, <1>2, <1>4 DEF Inv, Working, RecordsPaid, TypeOK
<1>7. Exclusive'
  BY <1>1, <1>2, <1>4 DEF Inv, Exclusive, Holds, TypeOK
<1>8. AppliedOnce'
  BY <1>2, <1>4 DEF Inv, AppliedOnce, TypeOK
<1>9. QED
  BY <1>5, <1>6, <1>7, <1>8 DEF Inv

\* The invoice of a paid order exists already.
LEMMA RecordInvoiceInv ==
  ASSUME Inv, NEW h \in Handlers, RecordInvoice(h)
  PROVE  Inv'
<1>1. job[h] \in Orders /\ order[job[h]] = "PAID"
  BY DEF RecordInvoice, Inv, Working, RecordsPaid
<1>2. invoices[job[h]] = 1
  BY <1>1 DEF Inv, AppliedOnce
<1>3. UNCHANGED <<invoices, blocked>>
  <2>1. Recorded(invoices[job[h]]) = invoices[job[h]]
    BY <1>2 DEF Recorded
  <2>2. invoices' = [invoices EXCEPT ![job[h]] = Recorded(invoices[job[h]])]
    BY <1>1 DEF RecordInvoice, Invoice, Inv, TypeOK
  <2>3. blocked' = blocked
    BY <2>1 DEF RecordInvoice, Invoice, Inv, TypeOK
  <2>4. QED
    BY <2>1, <2>2, <2>3, <1>1 DEF Inv, TypeOK
<1>4. QED
  BY <1>3, QuietEnd DEF RecordInvoice, Inv, TypeOK

-----------------------------------------------------------------------------
\* Every step preserves the invariant.
LEMMA StepInv == Inv /\ [Next]_vars => Inv'
<1> SUFFICES ASSUME Inv, [Next]_vars PROVE Inv'
  OBVIOUS
<1>1. CASE \/ \E o \in Orders : Checkout(o) \/ Decline(o) \/ Collect(o) \/ FailOrder(o)
           \/ Block \/ NextMonth
  BY <1>1, OutsideInv
<1>2. ASSUME NEW h \in Handlers, NEW o \in Orders, Receive(h, o) PROVE Inv'
  BY <1>2, ReceiveInv
<1>3. ASSUME NEW h \in Handlers, ReadOrder(h) PROVE Inv'
  <2>1. CASE End(h)
    BY <1>3, <2>1, QuietEnd DEF ReadOrder, Inv, TypeOK
  <2>2. CASE ~End(h)
    BY <1>3, <2>2, QuietGoto DEF ReadOrder
  <2>3. QED BY <2>1, <2>2
<1>4. ASSUME NEW h \in Handlers, MarkNothing(h) PROVE Inv'
  <2>1. CASE End(h)
    BY <1>4, <2>1, QuietEnd DEF MarkNothing, Inv, TypeOK
  <2>2. CASE ~End(h)
    BY <1>4, <2>2, QuietGoto DEF MarkNothing
  <2>3. QED BY <2>1, <2>2
<1>5. ASSUME NEW h \in Handlers, Mark(h) \/ ReadSubscription(h) \/ Commit(h) \/ RecordInvoice(h) PROVE Inv'
  BY <1>5, MarkInv, ReadSubscriptionInv, CommitInv, RecordInvoiceInv
<1>6. ASSUME NEW h \in Handlers, Abort(h) PROVE Inv'
  BY <1>6, QuietEnd DEF Abort, Inv, TypeOK
<1>7. CASE UNCHANGED vars
  BY <1>7 DEF vars, Inv, TypeOK, Working, Exclusive, RecordsPaid, AppliedOnce, Holds
<1>8. QED
  BY <1>1, <1>2, <1>3, <1>4, <1>5, <1>6, <1>7 DEF Next, Finalize

\* A step changes the outcome of no paid or failed order.
LEMMA StepFinal ==
  Inv /\ [Next]_vars => \A o \in Orders : order[o] \in {"PAID", "FAILED"} => order'[o] = order[o]
<1> SUFFICES ASSUME Inv, [Next]_vars, NEW o \in Orders, order[o] \in {"PAID", "FAILED"}
             PROVE  order'[o] = order[o]
  OBVIOUS
<1>1. CASE \E x \in Orders : Checkout(x) \/ FailOrder(x)
  BY <1>1 DEF Checkout, FailOrder, MayFail, Inv, TypeOK
<1>2. CASE \E h \in Handlers : Commit(h)
  <2> PICK h \in Handlers : Commit(h)
    BY <1>2
  <2>1. job[h] \in Orders /\ Holds(h, job[h])
    BY DEF Commit, Inv, Working, Holds
  <2>2. order[job[h]] = "PENDING"
    BY <2>1 DEF Inv, Exclusive
  <2>3. QED
    BY <2>1, <2>2 DEF Commit, Inv, TypeOK
<1>3. CASE UNCHANGED order
  BY <1>3
<1>4. QED
  BY <1>1, <1>2, <1>3
     DEF Next, Finalize, Decline, Collect, Receive, ReadOrder, Mark, MarkNothing, ReadSubscription,
         RecordInvoice, Abort, Block, NextMonth, vars

-----------------------------------------------------------------------------
\* The invariant holds in every reachable state.
LEMMA Invariance == Spec => []Inv
BY InitInv, StepInv, PTL DEF Spec

\* Every variable keeps its type, whatever the handlers interleave.
THEOREM TypeCorrect == Spec => []TypeOK
<1>1. Inv => TypeOK
  BY DEF Inv
<1>2. QED
  BY <1>1, Invariance, PTL

\* However often, in whatever order and by however many handlers payments are reported
\* and finalized, and whatever transactions are rolled back: finalizePaidOrder extends
\* the subscription and records the invoice exactly once for each paid order.
THEOREM OnceOnly == Spec => []AppliedOnce
<1>1. Inv => AppliedOnce
  BY DEF Inv
<1>2. QED
  BY <1>1, Invariance, PTL

\* The conditional updates of handleWebhook and finalizePaidOrder never take back an
\* outcome: a paid or failed order stays so.
THEOREM FinalOutcome == Spec => OutcomeIsFinal
<1>1. Inv /\ [Next]_vars
      => [\A o \in Orders : order[o] \in {"PAID", "FAILED"} => order'[o] = order[o]]_vars
  BY StepFinal
<1>2. QED
  BY <1>1, Invariance, PTL DEF Spec, OutcomeIsFinal

-----------------------------------------------------------------------------
(* BankCalls *)

CallSteps == {"idle", "enter", "claim", "token", "ensure", "http", "count", "trip", "again"}
Records ==
  [step : CallSteps, of : Instructions \cup {Balances}, outer : 1 .. MaxTries, inner : 1 .. MaxTries,
   renewed : BOOLEAN, loop : {"outer", "inner", "token"}, answer : Answers]

\* The adapter loops around the call r.
Outer(r) == use.bank = "birbank" /\ r.of # Balances

\* The steps at which r may be in which loop.
Shape(r) ==
  /\ r.step = "idle" => r.of = Balances
  /\ r.step # "http" => r.inner = 1
  /\ ~Outer(r) => r.outer = 1 /\ r.loop # "outer"
  /\ r.loop = "outer" => r.step \in {"count", "trip"}
  /\ r.loop = "token" => r.step \in {"ensure", "http", "count", "trip"}
  /\ r.step = "again" => r.renewed
  /\ r.renewed => r.loop = "token" \/ r.step \in {"token", "again"}

\* The attempts of the loops of r that came before the current outer one.
Used(n) == (n - 1) * MaxTries

\* The attempts within the current one.
Spent(r) ==
  IF r.loop = "outer" THEN MaxTries
  ELSE IF r.loop = "inner" /\ r.step \in {"count", "trip"}
    THEN IF r.answer \in {"401", "4xx"} THEN MaxTries - 1 ELSE MaxTries
  ELSE IF r.renewed THEN MaxTries - 1
  ELSE IF r.loop = "inner" /\ r.step = "http" THEN r.inner - 1 ELSE 0

\* The bank has answered that it took the instruction.
Confirmed(r) == r.step \in {"count", "trip"} /\ r.loop # "token" /\ r.answer = "ok"

\* The key has been claimed.
Through(r) ==
  IF Outer(r) THEN r.step \notin {"enter", "claim"}
  ELSE r.renewed \/ (r.loop = "inner" /\ r.step \in {"http", "count", "trip"})

Past(o) == taken[o] > 0 \/ \E c \in Callers : call[c].of = o /\ Through(call[c])

\* What a caller knows of its instruction.
Knows(r) ==
  r.of \in Instructions =>
    /\ status[r.of] = "PENDING"
    /\ taken[r.of] <= Used(r.outer) + Spent(r)
    /\ heard[r.of] = IF Confirmed(r) THEN 1 ELSE 0

Single ==
  \A c, d \in Callers : c # d /\ call[c].of = call[d].of => call[c].of = Balances

Outcome(o) ==
  /\ taken[o] <= Tries /\ heard[o] <= 1 /\ heard[o] <= taken[o]
  /\ status[o] = "NONE" => taken[o] = 0 /\ heard[o] = 0
  /\ status[o] = "SENT" => heard[o] = 1
  /\ status[o] = "REJECTED" => heard[o] = 0 \/ o \in unlogged

KeysClaimed ==
  \A o \in Instructions :
    Past(o) => /\ claim[KeyOf[o]] > 0 \/ KeyOf[o] \in expired
               /\ \A p \in Instructions \ {o} : KeyOf[p] = KeyOf[o] /\ Past(p) => KeyOf[o] \in expired

CallInv ==
  /\ CallTypeOK
  /\ \A c \in Callers : Shape(call[c]) /\ Knows(call[c])
  /\ Single
  /\ \A o \in Instructions : Outcome(o)
  /\ KeysClaimed

-----------------------------------------------------------------------------
LEMMA UsedFacts ==
  /\ Used(1) = 0
  /\ \A n \in 1 .. MaxTries : /\ Used(n) \in Nat /\ Used(n) + MaxTries <= MaxTries * MaxTries
                              /\ Used(n + 1) = Used(n) + MaxTries
<1>1. MaxTries \in Nat \ {0} BY BankCallsAssumption
<1>2. Used(1) = 0 BY <1>1 DEF Used
<1>3. ASSUME NEW n \in 1 .. MaxTries
      PROVE  Used(n) \in Nat /\ Used(n) + MaxTries <= MaxTries * MaxTries /\ Used(n + 1) = Used(n) + MaxTries
  <2>1. Used(n) \in Nat BY <1>1 DEF Used
  <2>2. Used(n) + MaxTries = n * MaxTries BY <1>1 DEF Used
  <2>3. n * MaxTries <= MaxTries * MaxTries BY <1>1
  <2>4. Used(n + 1) = n * MaxTries BY <1>1 DEF Used
  <2> QED BY <2>1, <2>2, <2>3, <2>4
<1> QED BY <1>2, <1>3

LEMMA SpentFacts ==
  ASSUME NEW r \in Records
  PROVE  Spent(r) \in 0 .. MaxTries
BY BankCallsAssumption DEF Spent, Records

LEMMA CallTypes ==
  ASSUME CallTypeOK, NEW c \in Callers
  PROVE  /\ call[c] \in Records /\ call \in [Callers -> Records]
         /\ Rest \in Records /\ Shape(Rest)
BY BankCallsAssumption DEF CallTypeOK, Records, CallSteps, Rest, Shape, Outer, Answers

\* r goes on as s: at least n attempts of the current outer one are spent, b tells
\* whether the bank has confirmed.
Follows(r, s, n, b) ==
  /\ s \in Records /\ Shape(s)
  /\ s.of = r.of /\ s.step # "idle"
  /\ Used(s.outer) + Spent(s) >= Used(r.outer) + n
  /\ Confirmed(s) = b
  /\ r.of \in Instructions => Through(s) = Through(r)

Onward(c, n, b) ==
  \/ Ended(c, b)
  \/ /\ \E s \in Records : Follows(call[c], s, n, b) /\ Go(c, s)
     /\ UNCHANGED <<gate, status>>

-----------------------------------------------------------------------------
(* Where a call goes *)

LEMMA Raised ==
  ASSUME CallTypeOK, NEW c \in Callers, Shape(call[c]), NEW a \in Answers \ {"ok"},
         Step(c) \in {"ensure", "count", "trip", "again"}, Raise(c, a)
  PROVE  Onward(c, MaxTries, FALSE)
<1> DEFINE r == call[c]
           again == [Rest EXCEPT !.step = "token", !.of = r.of, !.outer = r.outer + 1]
           over == [Rest EXCEPT !.step = "count", !.of = r.of, !.outer = r.outer, !.loop = "outer", !.answer = a]
<1>1. CASE ~Looped(c)
  BY <1>1 DEF Raise, Onward
<1>2. CASE Looped(c)
  <2>1. r \in Records BY CallTypes
  <2>2. Outer(r) BY <1>2 DEF Looped, Outer
  <2>3. CASE Transient(a) /\ Retries(r.outer)
    <3>1. again \in Records
      <4>1. 1 \in 1 .. MaxTries /\ r.outer + 1 \in 1 .. MaxTries BY <2>1, <2>3, BankCallsAssumption DEF Records, Retries
      <4> QED BY <2>1, <4>1 DEF Records, CallSteps, Rest, Answers
    <3>2. Follows(r, again, MaxTries, FALSE)
      <4>1. Used(again.outer) = Used(r.outer) + MaxTries BY <2>1, UsedFacts DEF Records, Rest
      <4>2. Spent(again) = 0 BY DEF Spent, Rest
      <4>3. Used(r.outer) \in Nat /\ MaxTries \in Nat BY <2>1, UsedFacts, BankCallsAssumption DEF Records
      <4>4. Shape(again) /\ Through(again) /\ Through(r) BY <2>2 DEF Shape, Through, Outer, Rest, Step
      <4> QED BY <3>1, <4>1, <4>2, <4>3, <4>4 DEF Follows, Confirmed, Rest
    <3>3. Go(c, again) /\ UNCHANGED <<gate, status>> BY <1>2, <2>3 DEF Raise
    <3> QED BY <3>1, <3>2, <3>3 DEF Onward
  <2>4. CASE ~(Transient(a) /\ Retries(r.outer))
    <3>1. over \in Records
      <4>1. 1 \in 1 .. MaxTries BY BankCallsAssumption
      <4> QED BY <2>1, <4>1 DEF Records, CallSteps, Rest
    <3>2. Follows(r, over, MaxTries, FALSE)
      <4>1. Used(over.outer) = Used(r.outer) BY DEF Rest
      <4>2. Spent(over) = MaxTries BY DEF Spent, Rest
      <4>3. Used(r.outer) \in Nat /\ MaxTries \in Nat BY <2>1, UsedFacts, BankCallsAssumption DEF Records
      <4>4. Shape(over) /\ Through(over) /\ Through(r) BY <2>2 DEF Shape, Through, Outer, Rest, Step
      <4> QED BY <3>1, <4>1, <4>2, <4>3, <4>4 DEF Follows, Confirmed, Rest
    <3>3. Go(c, over) /\ UNCHANGED <<gate, status>> BY <1>2, <2>4 DEF Raise
    <3> QED BY <3>1, <3>2, <3>3 DEF Onward
  <2> QED BY <2>3, <2>4
<1> QED BY <1>1, <1>2

LEMMA Replied ==
  ASSUME CallTypeOK, NEW c \in Callers, Shape(call[c]), Step(c) \in {"count", "trip", "again"}, Answered(c)
  PROVE  Onward(c, MaxTries, TRUE)
<1> DEFINE r == call[c]
           over == [Rest EXCEPT !.step = "count", !.of = r.of, !.outer = r.outer, !.loop = "outer"]
<1>1. CASE ~Looped(c)
  BY <1>1 DEF Answered, Onward
<1>2. CASE Looped(c)
  <2>1. r \in Records BY CallTypes
  <2>2. Outer(r) BY <1>2 DEF Looped, Outer
  <2>3. over \in Records
    <3>1. 1 \in 1 .. MaxTries /\ "ok" \in Answers BY BankCallsAssumption DEF Answers
    <3> QED BY <2>1, <3>1 DEF Records, CallSteps, Rest
  <2>4. Used(over.outer) = Used(r.outer) BY DEF Rest
  <2>5. Spent(over) = MaxTries BY DEF Spent, Rest
  <2>6. Used(r.outer) \in Nat /\ MaxTries \in Nat BY <2>1, UsedFacts, BankCallsAssumption DEF Records
  <2>7. Shape(over) /\ Through(over) /\ Through(r) BY <2>2 DEF Shape, Through, Outer, Rest, Step
  <2>8. Follows(r, over, MaxTries, TRUE) BY <2>3, <2>4, <2>5, <2>6, <2>7 DEF Follows, Confirmed, Rest
  <2>9. Go(c, over) /\ UNCHANGED <<gate, status>> BY <1>2 DEF Answered
  <2> QED BY <2>3, <2>8, <2>9 DEF Onward
<1> QED BY <1>1, <1>2

\* Less than all attempts of a loop are spent if they were.
LEMMA Weaker ==
  ASSUME CallTypeOK, NEW c \in Callers, NEW b, Onward(c, MaxTries, b)
  PROVE  Onward(c, Spent(call[c]), b)
<1>1. call[c] \in Records BY CallTypes
<1>2. Spent(call[c]) \in 0 .. MaxTries BY <1>1, SpentFacts
<1>3. Used(call[c].outer) \in Nat BY <1>1, UsedFacts DEF Records
<1>4. \A s \in Records : Used(s.outer) \in Nat /\ Spent(s) \in 0 .. MaxTries BY UsedFacts, SpentFacts DEF Records
<1>5. ASSUME NEW s \in Records, Follows(call[c], s, MaxTries, b) PROVE Follows(call[c], s, Spent(call[c]), b)
  <2>1. Used(s.outer) + Spent(s) >= Used(call[c].outer) + Spent(call[c])
    BY <1>2, <1>3, <1>4, <1>5, BankCallsAssumption DEF Follows
  <2> QED BY <1>5, <2>1 DEF Follows
<1> QED BY <1>5 DEF Onward

LEMMA Left ==
  ASSUME CallTypeOK, NEW c \in Callers, Shape(call[c]), Step(c) \in {"count", "trip"}, Leave(c)
  PROVE  Onward(c, Spent(call[c]), Confirmed(call[c]))
<1> DEFINE r == call[c]
<1>1. r \in Records BY CallTypes
<1>2. r.loop \in {"outer", "inner", "token"} /\ r.answer \in Answers BY <1>1 DEF Records
<1>3. CASE r.loop = "outer"
  <2>1. Ended(c, r.answer = "ok") BY <1>3 DEF Leave
  <2>2. (r.answer = "ok") = Confirmed(r) BY <1>3 DEF Confirmed, Step
  <2> QED BY <2>1, <2>2 DEF Onward
<1>4. CASE r.loop = "token" /\ r.answer = "ok"
  <2>1. Confirmed(r) = FALSE BY <1>4 DEF Confirmed
  <2>2. UNCHANGED <<gate, status>> BY <1>4 DEF Leave
  <2>3. CASE r.renewed
    <3> DEFINE s == [r EXCEPT !.step = "again", !.loop = "inner"]
    <3>1. Go(c, s) BY <1>4, <2>3 DEF Leave
    <3>2. s \in Records BY <1>1 DEF Records, CallSteps
    <3>3. Spent(s) = Spent(r) BY <1>4, <2>3, <1>1 DEF Spent, Records
    <3>4. Used(r.outer) \in Nat /\ Spent(r) \in 0 .. MaxTries BY <1>1, UsedFacts, SpentFacts DEF Records
    <3>5. Shape(s) BY <1>1, <2>3, <1>4 DEF Shape, Outer, Step, Records
    <3>6. Through(s) = Through(r) BY <1>1, <2>3, <1>4 DEF Through, Outer, Step, Records
    <3>7. s.outer = r.outer /\ s.of = r.of /\ s.step = "again" BY <1>1 DEF Records
    <3>8. Follows(r, s, Spent(r), FALSE)
      BY <3>2, <3>3, <3>4, <3>5, <3>6, <3>7 DEF Follows, Confirmed
    <3> QED BY <2>1, <2>2, <3>1, <3>2, <3>8 DEF Onward
  <2>4. CASE ~r.renewed
    <3> DEFINE s == [r EXCEPT !.step = "ensure", !.loop = "inner", !.inner = 1, !.answer = "ok"]
    <3>1. Go(c, s) BY <1>4, <2>4 DEF Leave, ToFirst
    <3>2. s \in Records
      <4>1. 1 \in 1 .. MaxTries BY BankCallsAssumption
      <4> QED BY <1>1, <4>1 DEF Records, CallSteps, Answers
    <3>3. Spent(s) = Spent(r) BY <1>4, <2>4, <1>1 DEF Spent, Records, Step
    <3>4. Used(r.outer) \in Nat /\ Spent(r) \in 0 .. MaxTries BY <1>1, UsedFacts, SpentFacts DEF Records
    <3>5. Shape(s) BY <1>1, <2>4, <1>4 DEF Shape, Outer, Step, Records
    <3>6. Through(s) = Through(r) BY <1>1, <2>4, <1>4 DEF Through, Outer, Step, Records
    <3>7. s.outer = r.outer /\ s.of = r.of /\ s.step = "ensure" BY <1>1 DEF Records
    <3>8. Follows(r, s, Spent(r), FALSE)
      BY <3>2, <3>3, <3>4, <3>5, <3>6, <3>7 DEF Follows, Confirmed
    <3> QED BY <2>1, <2>2, <3>1, <3>2, <3>8 DEF Onward
  <2> QED BY <2>3, <2>4
<1>5. CASE r.loop = "inner" /\ r.answer = "ok"
  <2>1. Confirmed(r) BY <1>5 DEF Confirmed, Step
  <2>2. Answered(c) BY <1>5 DEF Leave
  <2>3. Onward(c, MaxTries, TRUE) BY <2>2, Replied
  <2> QED BY <2>1, <2>3, Weaker DEF Confirmed, Step
<1>6. CASE r.loop = "inner" /\ r.answer = "401"
  <2> DEFINE s == [r EXCEPT !.step = "token", !.renewed = TRUE, !.answer = "ok"]
  <2>1. Confirmed(r) = FALSE BY <1>6 DEF Confirmed
  <2>2. Go(c, s) /\ UNCHANGED <<gate, status>> BY <1>6 DEF Leave
  <2>3. s \in Records BY <1>1 DEF Records, CallSteps, Answers
  <2>4. Spent(s) = Spent(r) BY <1>6, <1>1 DEF Spent, Records, Step
  <2>5. Used(r.outer) \in Nat /\ Spent(r) \in 0 .. MaxTries BY <1>1, UsedFacts, SpentFacts DEF Records
  <2>6. Shape(s) BY <1>1, <1>6 DEF Shape, Outer, Step, Records
  <2>7. Through(s) = Through(r) BY <1>1, <1>6 DEF Through, Outer, Step, Records
  <2>8. s.outer = r.outer /\ s.of = r.of /\ s.step = "token" BY <1>1 DEF Records
  <2>9. Follows(r, s, Spent(r), FALSE)
    BY <2>3, <2>4, <2>5, <2>6, <2>7, <2>8 DEF Follows, Confirmed
  <2> QED BY <2>1, <2>2, <2>3, <2>9 DEF Onward
<1>7. CASE /\ r.loop # "outer" /\ r.answer # "ok" /\ ~(r.loop = "inner" /\ r.answer = "401")
  <2>1. Raise(c, r.answer) BY <1>7 DEF Leave
  <2>2. ~Confirmed(r) BY <1>7 DEF Confirmed
  <2>3. Onward(c, MaxTries, FALSE) BY <1>2, <1>7, <2>1, Raised
  <2> QED BY <2>2, <2>3, Weaker DEF Confirmed
<1> QED BY <1>2, <1>3, <1>4, <1>5, <1>6, <1>7

-----------------------------------------------------------------------------
(* What a step of one call does to the invariant *)

\* A claimed key stays claimed until it has run out, and no instruction gets past its
\* claim.
LEMMA KeysKept ==
  ASSUME CallInv,
         \A o \in Instructions : Past(o)' => Past(o),
         \A k \in Keys : claim[k] > 0 \/ k \in expired => claim'[k] > 0 \/ k \in expired',
         expired \subseteq expired'
  PROVE  KeysClaimed'
<1>1. \A o \in Instructions : KeyOf[o] \in Keys BY DEF Keys
<1> QED BY <1>1 DEF CallInv, KeysClaimed

\* Only the call of c changes, and what it sends.
LEMMA Moved ==
  ASSUME CallInv, NEW c \in Callers, NEW s \in Records, Go(c, s), s.of = call[c].of,
         UNCHANGED <<use, claim, expired, taken>>,
         s.of \in Instructions => Through(s) = Through(call[c])
  PROVE  KeysClaimed'
<1>1. call \in [Callers -> Records] BY CallTypes DEF CallInv
<1>2. \A d \in Callers : call'[d] = IF d = c THEN s ELSE call[d] BY <1>1 DEF Go
<1>3. ASSUME NEW o \in Instructions, Past(o)' PROVE Past(o)
  <2>1. CASE taken'[o] > 0 BY <2>1 DEF Past
  <2>2. CASE \E d \in Callers : (call[d].of = o /\ Through(call[d]))'
    <3>1. PICK d \in Callers : (call[d].of = o /\ Through(call[d]))' BY <2>2
    <3>2. Through(call'[d]) BY <3>1 DEF Through, Outer
    <3> QED BY <1>2, <3>1, <3>2 DEF Past
  <2> QED BY <1>3, <2>1, <2>2 DEF Past
<1>4. \A k \in Keys : claim[k] > 0 \/ k \in expired => claim'[k] > 0 \/ k \in expired' OBVIOUS
<1> QED BY <1>3, <1>4, KeysKept

\* The call goes on.
LEMMA Advanced ==
  ASSUME CallInv, NEW c \in Callers, NEW s \in Records, Go(c, s), Shape(s), s.step # "idle",
         UNCHANGED <<use, gate, status, unlogged>>,
         circuit' \in [fives : 0 .. Threshold, left : 0 .. OpenTime],
         claim' \in [Keys -> 0 .. KeyTime], expired' \subseteq Keys,
         taken' \in [Instructions -> Nat], heard' \in [Instructions -> Nat],
         s.of = call[c].of,
         \A o \in Instructions \ {s.of} : taken'[o] = taken[o] /\ heard'[o] = heard[o],
         s.of \in Instructions =>
           /\ taken'[s.of] <= Used(s.outer) + Spent(s)
           /\ heard'[s.of] = IF Confirmed(s) THEN 1 ELSE 0
           /\ heard'[s.of] <= taken'[s.of],
         KeysClaimed'
  PROVE  CallInv'
<1>0. call \in [Callers -> Records] /\ call[c] \in Records BY CallTypes DEF CallInv
<1>1. \A d \in Callers : call'[d] = IF d = c THEN s ELSE call[d] BY <1>0 DEF Go
<1>2. CallTypeOK'
  <2>1. call' \in [Callers -> Records] BY <1>0 DEF Go
  <2> QED BY <2>1 DEF CallInv, CallTypeOK, Records, CallSteps
<1>3. ASSUME NEW d \in Callers PROVE (Shape(call[d]) /\ Knows(call[d]))'
  <2>1. CASE d = c
    <3>1. call'[d] = s BY <1>1, <2>1
    <3>2. Shape(s)' BY DEF Shape, Outer
    <3>3. s.of \in Instructions => status[s.of] = "PENDING" BY DEF CallInv, Knows
    <3>4. Knows(s)' BY <3>3 DEF Knows, Used, Spent, Confirmed
    <3> QED BY <3>1, <3>2, <3>4 DEF Shape, Knows, Outer, Used, Spent, Confirmed
  <2>2. CASE d # c
    <3>1. call'[d] = call[d] BY <1>1, <2>2
    <3>2. Shape(call[d]) /\ Knows(call[d]) BY DEF CallInv
    <3>3. call[d].of \in Instructions => call[d].of # s.of
      BY <2>2, BankCallsAssumption DEF CallInv, Single
    <3> QED BY <3>1, <3>2, <3>3 DEF Shape, Knows, Outer, Used, Spent, Confirmed
  <2> QED BY <2>1, <2>2
<1>4. Single' BY <1>1 DEF CallInv, Single
<1>5. ASSUME NEW o \in Instructions PROVE Outcome(o)'
  <2>1. Outcome(o) BY DEF CallInv
  <2>2. Tries' = Tries BY DEF Tries
  <2>3. CASE o # s.of
    BY <2>1, <2>2, <2>3 DEF Outcome
  <2>4. CASE o = s.of
    <3>1. status[o] = "PENDING" BY <2>4 DEF CallInv, Knows
    <3>2. heard'[o] <= 1 /\ heard'[o] <= taken'[o] BY <2>4
    <3>3. taken'[o] <= Used(s.outer) + Spent(s) BY <2>4
    <3>4. Used(s.outer) \in Nat /\ Spent(s) \in 0 .. MaxTries /\ MaxTries \in Nat /\ Used(s.outer) + MaxTries <= MaxTries * MaxTries
      BY UsedFacts, SpentFacts, BankCallsAssumption DEF Records
    <3>5. use.bank # "birbank" => Used(s.outer) = 0 BY UsedFacts DEF Shape, Outer
    <3>6. taken'[o] <= Tries
      <4>1. taken'[o] \in Nat /\ MaxTries * MaxTries \in Nat BY BankCallsAssumption
      <4>2. CASE use.bank = "birbank" BY <3>3, <3>4, <4>1, <4>2 DEF Tries
      <4>3. CASE use.bank # "birbank" BY <3>3, <3>4, <3>5, <4>1, <4>3 DEF Tries
      <4> QED BY <4>2, <4>3
    <3> QED BY <2>2, <3>1, <3>2, <3>6 DEF Outcome
  <2> QED BY <2>3, <2>4
<1> QED BY <1>2, <1>3, <1>4, <1>5 DEF CallInv

\* The types of the gateway's breaker and of the statuses.
LEMMA EndedTypes ==
  ASSUME CallTypeOK, NEW c \in Callers, NEW good \in BOOLEAN, Ended(c, good)
  PROVE  /\ gate' \in [errors : 0 .. Threshold, opened : BOOLEAN, left : 0 .. OpenTime]
         /\ status' \in [Instructions -> {"NONE", "PENDING", "SENT", "REJECTED"}]
<1> DEFINE Gates == [errors : 0 .. Threshold, opened : BOOLEAN, left : 0 .. OpenTime]
<1>1. gate \in Gates BY DEF CallTypeOK
<1>2. Closed \in Gates BY BankCallsAssumption DEF Closed
<1>3. Failed(gate) \in Gates
  <2>1. CASE gate.errors + 1 >= Threshold BY <2>1, BankCallsAssumption DEF Failed
  <2>2. CASE ~(gate.errors + 1 >= Threshold) BY <1>1, <2>2, BankCallsAssumption DEF Failed
  <2> QED BY <2>1, <2>2
<1>4. gate' \in Gates BY <1>1, <1>2, <1>3 DEF Ended
<1>5. status' \in [Instructions -> {"NONE", "PENDING", "SENT", "REJECTED"}] BY DEF Ended, CallTypeOK
<1> QED BY <1>4, <1>5

\* The call ends: its instruction has an outcome.
LEMMA Over ==
  ASSUME CallInv, NEW c \in Callers, Step(c) # "idle", NEW good \in BOOLEAN, Ended(c, good),
         UNCHANGED <<use, claim, expired>>,
         circuit' \in [fives : 0 .. Threshold, left : 0 .. OpenTime],
         unlogged \subseteq unlogged', unlogged' \subseteq Instructions,
         taken' \in [Instructions -> Nat], heard' \in [Instructions -> Nat],
         \A o \in Instructions : taken'[o] > 0 => Past(o),
         \A o \in Instructions \ {call[c].of} : taken'[o] = taken[o] /\ heard'[o] = heard[o],
         call[c].of \in Instructions =>
           /\ taken'[call[c].of] <= Tries /\ heard'[call[c].of] <= 1
           /\ heard'[call[c].of] <= taken'[call[c].of]
           /\ IF good THEN heard'[call[c].of] = 1 ELSE heard'[call[c].of] = 0 \/ call[c].of \in unlogged'
  PROVE  CallInv'
<1> DEFINE p == call[c].of
<1>0. call \in [Callers -> Records] /\ Rest \in Records /\ Shape(Rest) BY CallTypes DEF CallInv
<1>1. \A d \in Callers : call'[d] = IF d = c THEN Rest ELSE call[d] BY <1>0 DEF Ended, Go
<1>2. Rest.of \notin Instructions /\ Rest.of = Balances BY BankCallsAssumption DEF Rest
<1>3. CallTypeOK'
  <2>1. call' \in [Callers -> Records] BY <1>0 DEF Ended, Go
  <2> QED BY <2>1, EndedTypes DEF CallInv, CallTypeOK, Records, CallSteps
<1>4. \A o \in Instructions : status'[o] = IF o # p THEN status[o] ELSE IF good THEN "SENT" ELSE IF o \in Drafts THEN "REJECTED" ELSE status[o]
  BY BankCallsAssumption DEF Ended, CallInv, CallTypeOK
<1>5. ASSUME NEW d \in Callers PROVE (Shape(call[d]) /\ Knows(call[d]))'
  <2>1. CASE d = c
    <3>1. call'[d] = Rest BY <1>1, <2>1
    <3>2. Shape(Rest)' BY <1>0 DEF Shape, Outer, Rest
    <3> QED BY <1>2, <3>1, <3>2 DEF Shape, Knows, Outer
  <2>2. CASE d # c
    <3>1. call'[d] = call[d] BY <1>1, <2>2
    <3>2. Shape(call[d]) /\ Knows(call[d]) BY DEF CallInv
    <3>3. call[d].of \in Instructions => call[d].of # p
      BY <2>2, BankCallsAssumption DEF CallInv, Single
    <3> QED BY <1>4, <3>1, <3>2, <3>3 DEF Shape, Knows, Outer, Used, Spent, Confirmed
  <2> QED BY <2>1, <2>2
<1>6. Single' BY <1>1, <1>2 DEF CallInv, Single
<1>7. ASSUME NEW o \in Instructions PROVE Outcome(o)'
  <2>1. Outcome(o) BY DEF CallInv
  <2>2. Tries' = Tries BY DEF Tries
  <2>3. CASE o # p
    BY <1>4, <2>1, <2>2, <2>3 DEF Outcome
  <2>4. CASE o = p
    <3>1. status[o] = "PENDING" BY <2>4 DEF CallInv, Knows
    <3> QED BY <1>4, <2>2, <2>4, <3>1 DEF Outcome
  <2> QED BY <2>3, <2>4
<1>8. ASSUME NEW o \in Instructions, Past(o)' PROVE Past(o)
  <2>1. CASE \E d \in Callers : (call[d].of = o /\ Through(call[d]))'
    <3>1. PICK d \in Callers : (call[d].of = o /\ Through(call[d]))' BY <2>1
    <3>2. call'[d] = call[d] BY <1>1, <1>2, <3>1
    <3>3. Through(call[d]) BY <3>1, <3>2 DEF Through, Outer
    <3> QED BY <3>1, <3>2, <3>3 DEF Past
  <2> QED BY <1>8, <2>1 DEF Past
<1>9. KeysClaimed' BY <1>8, KeysKept
<1> QED BY <1>3, <1>5, <1>6, <1>7, <1>9 DEF CallInv

\* A step of a loop or of the adapter, without the bank.
LEMMA Onwards ==
  ASSUME CallInv, NEW c \in Callers, Step(c) # "idle",
         Onward(c, Spent(call[c]), Confirmed(call[c])),
         UNCHANGED <<use, claim, taken, heard, unlogged, expired>>,
         circuit' \in [fives : 0 .. Threshold, left : 0 .. OpenTime]
  PROVE  CallInv'
<1> DEFINE r == call[c]
<1>0. r \in Records /\ CallTypeOK BY CallTypes DEF CallInv
<1>1. Shape(r) /\ Knows(r) BY DEF CallInv
<1>2. r.of \in Instructions => Outcome(r.of) BY DEF CallInv
<1>3. CASE Ended(c, Confirmed(r))
  <2>1. Confirmed(r) \in BOOLEAN BY DEF Confirmed
  <2>2. r.of \in Instructions => heard[r.of] = IF Confirmed(r) THEN 1 ELSE 0 BY <1>1 DEF Knows
  <2>3. \A o \in Instructions : taken[o] > 0 => Past(o) BY DEF Past
  <2> QED BY <1>0, <1>2, <1>3, <2>1, <2>2, <2>3, Over DEF CallTypeOK, Outcome
<1>4. CASE ~Ended(c, Confirmed(r))
  <2>1. PICK s \in Records : Follows(r, s, Spent(r), Confirmed(r)) /\ Go(c, s) BY <1>4 DEF Onward
  <2>2. UNCHANGED <<gate, status>> BY <1>4 DEF Onward
  <2>3. s.of = r.of /\ Shape(s) /\ s.step # "idle" /\ Confirmed(s) = Confirmed(r) BY <2>1 DEF Follows
  <2>4. KeysClaimed' BY <2>1, <2>3, Moved DEF Follows
  <2>5. s.of \in Instructions => taken[s.of] <= Used(s.outer) + Spent(s)
    <3>1. Used(s.outer) + Spent(s) >= Used(r.outer) + Spent(r) BY <2>1 DEF Follows
    <3>2. /\ Used(s.outer) \in Nat /\ Spent(s) \in 0 .. MaxTries
          /\ Used(r.outer) \in Nat /\ Spent(r) \in 0 .. MaxTries
      BY <1>0, UsedFacts, SpentFacts DEF Records
    <3>3. s.of \in Instructions => taken[s.of] \in Nat /\ taken[s.of] <= Used(r.outer) + Spent(r)
      BY <1>0, <1>1, <2>3 DEF Knows, CallTypeOK
    <3> QED BY <3>1, <3>2, <3>3, BankCallsAssumption
  <2>6. s.of \in Instructions => heard[s.of] = (IF Confirmed(s) THEN 1 ELSE 0) /\ heard[s.of] <= taken[s.of]
    BY <1>1, <1>2, <2>3 DEF Knows, Outcome
  <2> QED BY <1>0, <2>1, <2>2, <2>3, <2>4, <2>5, <2>6, Advanced DEF CallTypeOK
<1> QED BY <1>3, <1>4

-----------------------------------------------------------------------------
(* The actions *)

\* Follows, where the attempts spent stay as they are.
LEMMA Goes ==
  ASSUME CallInv, NEW c \in Callers, Step(c) \notin {"idle", "count", "trip"}, NEW s \in Records,
         s.of = call[c].of, s.outer = call[c].outer, s.step \notin {"idle", "count", "trip"},
         Shape(s), Spent(s) = Spent(call[c]), s.of \in Instructions => Through(s) = Through(call[c]),
         Go(c, s), UNCHANGED <<gate, status>>
  PROVE  Onward(c, Spent(call[c]), Confirmed(call[c]))
<1>1. call[c] \in Records BY CallTypes DEF CallInv
<1>2. Confirmed(call[c]) = FALSE /\ Confirmed(s) = FALSE BY DEF Confirmed, Step
<1>3. Used(call[c].outer) \in Nat /\ Spent(call[c]) \in 0 .. MaxTries BY <1>1, UsedFacts, SpentFacts DEF Records
<1>4. Follows(call[c], s, Spent(call[c]), FALSE) BY <1>2, <1>3 DEF Follows
<1> QED BY <1>2, <1>4 DEF Onward

LEMMA EnterStep == ASSUME CallInv, NEW c \in Callers, Enter(c) PROVE CallInv'
<1> DEFINE r == call[c]
<1>1. r \in Records /\ Shape(r) /\ r.step = "enter" BY CallTypes DEF CallInv, Enter, Step
<1>2. r.loop = "inner" /\ ~r.renewed BY <1>1 DEF Shape, Records
<1>3. Confirmed(r) = FALSE BY <1>1 DEF Confirmed
<1>4. Onward(c, Spent(r), Confirmed(r))
  <2>1. CASE circuit.left > 0 BY <1>3, <2>1 DEF Enter, Onward
  <2>2. CASE ~(circuit.left > 0)
    <3> DEFINE s == [r EXCEPT !.step = "claim"]
    <3>1. Go(c, s) /\ UNCHANGED <<gate, status>> BY <2>2 DEF Enter, To
    <3>2. s \in Records /\ s.of = r.of /\ s.outer = r.outer /\ s.step = "claim" BY <1>1 DEF Records, CallSteps
    <3>3. Spent(s) = Spent(r) /\ Shape(s) /\ Through(s) = Through(r)
      BY <1>1, <1>2 DEF Spent, Shape, Through, Outer, Records
    <3> HIDE DEF s
    <3> QED BY <1>1, <3>1, <3>2, <3>3, Goes DEF Step
  <2> QED BY <2>1, <2>2
<1> QED BY <1>1, <1>4, Onwards DEF Enter, Step, CallInv, CallTypeOK

LEMMA TokenStep == ASSUME CallInv, NEW c \in Callers, Token(c) PROVE CallInv'
<1> DEFINE r == call[c]
<1>1. r \in Records /\ Shape(r) /\ r.step = "token" BY CallTypes DEF CallInv, Token, Step
<1>2. r.loop = "inner" /\ r.inner = 1 BY <1>1 DEF Shape, Records
<1>3. 1 \in 1 .. MaxTries /\ "ok" \in Answers BY BankCallsAssumption DEF Answers
<1>4. UNCHANGED <<gate, status>> BY DEF Token
<1>5. Onward(c, Spent(r), Confirmed(r))
  <2>1. CASE ToFirst(c, "token")
    <3> DEFINE s == [r EXCEPT !.step = "ensure", !.loop = "token", !.inner = 1, !.answer = "ok"]
    <3>1. Go(c, s) BY <2>1 DEF ToFirst
    <3>2. s \in Records /\ s.of = r.of /\ s.outer = r.outer /\ s.step = "ensure" BY <1>1, <1>3 DEF Records, CallSteps
    <3>3. Spent(s) = Spent(r) /\ Shape(s) /\ Through(s) = Through(r)
      BY <1>1, <1>2 DEF Spent, Shape, Through, Outer, Records
    <3> HIDE DEF s
    <3> QED BY <1>1, <1>4, <3>1, <3>2, <3>3, Goes DEF Step
  <2>2. CASE r.renewed /\ To(c, "again")
    <3> DEFINE s == [r EXCEPT !.step = "again"]
    <3>1. Go(c, s) BY <2>2 DEF To
    <3>2. s \in Records /\ s.of = r.of /\ s.outer = r.outer /\ s.step = "again" BY <1>1 DEF Records, CallSteps
    <3>3. Spent(s) = Spent(r) /\ Shape(s) /\ Through(s) = Through(r)
      BY <1>1, <1>2, <2>2 DEF Spent, Shape, Through, Outer, Records
    <3> HIDE DEF s
    <3> QED BY <1>1, <1>4, <3>1, <3>2, <3>3, Goes DEF Step
  <2>3. CASE ~r.renewed /\ ToFirst(c, "inner")
    <3> DEFINE s == [r EXCEPT !.step = "ensure", !.loop = "inner", !.inner = 1, !.answer = "ok"]
    <3>1. Go(c, s) BY <2>3 DEF ToFirst
    <3>2. s \in Records /\ s.of = r.of /\ s.outer = r.outer /\ s.step = "ensure" BY <1>1, <1>3 DEF Records, CallSteps
    <3>3. Spent(s) = Spent(r) /\ Shape(s) /\ Through(s) = Through(r)
      BY <1>1, <1>2, <2>3 DEF Spent, Shape, Through, Outer, Records
    <3> HIDE DEF s
    <3> QED BY <1>1, <1>4, <3>1, <3>2, <3>3, Goes DEF Step
  <2> QED BY <2>1, <2>2, <2>3 DEF Token
<1> QED BY <1>1, <1>5, Onwards DEF Token, Step, CallInv, CallTypeOK

LEMMA EnsureStep == ASSUME CallInv, NEW c \in Callers, Ensure(c) PROVE CallInv'
<1> DEFINE r == call[c]
<1>1. r \in Records /\ Shape(r) /\ r.step = "ensure" BY CallTypes DEF CallInv, Ensure, Step
<1>2. r.loop \in {"inner", "token"} /\ r.inner = 1 /\ (r.renewed => r.loop = "token") BY <1>1 DEF Shape, Records
<1>3. Confirmed(r) = FALSE BY <1>1 DEF Confirmed
<1>4. Onward(c, Spent(r), Confirmed(r))
  <2>1. CASE circuit.left > 0
    <3>1. Raise(c, "5xx") BY <2>1 DEF Ensure
    <3>2. "5xx" \in Answers \ {"ok"} BY DEF Answers
    <3>3. Onward(c, MaxTries, FALSE) BY <1>1, <3>1, <3>2, Raised DEF Step, CallInv
    <3> QED BY <1>3, <3>3, Weaker DEF CallInv
  <2>2. CASE ~(circuit.left > 0) /\ r.loop = "inner" /\ r.of # Balances /\ ~Looped(c)
    <3> DEFINE s == [r EXCEPT !.step = "claim"]
    <3>1. Go(c, s) /\ UNCHANGED <<gate, status>> BY <2>2 DEF Ensure, To
    <3>2. s \in Records /\ s.of = r.of /\ s.outer = r.outer /\ s.step = "claim" BY <1>1 DEF Records, CallSteps
    <3>3. Spent(s) = Spent(r) /\ Shape(s) /\ Through(s) = Through(r)
      BY <1>1, <1>2, <2>2 DEF Spent, Shape, Through, Outer, Looped, Records
    <3> HIDE DEF s
    <3> QED BY <1>1, <3>1, <3>2, <3>3, Goes DEF Step
  <2>3. CASE ~(circuit.left > 0) /\ ~(r.loop = "inner" /\ r.of # Balances /\ ~Looped(c))
    <3> DEFINE s == [r EXCEPT !.step = "http"]
    <3>1. Go(c, s) /\ UNCHANGED <<gate, status>> BY <2>3 DEF Ensure, To
    <3>2. s \in Records /\ s.of = r.of /\ s.outer = r.outer /\ s.step = "http" BY <1>1 DEF Records, CallSteps
    <3>3. Spent(s) = Spent(r) /\ Shape(s)
      BY <1>1, <1>2, <2>3 DEF Spent, Shape, Outer, Looped, Records
    <3>4. s.of \in Instructions => Through(s) = Through(r)
      BY <1>1, <1>2, <2>3, BankCallsAssumption DEF Through, Outer, Looped, Records
    <3> HIDE DEF s
    <3> QED BY <1>1, <3>1, <3>2, <3>3, <3>4, Goes DEF Step
  <2> QED BY <2>1, <2>2, <2>3
<1> QED BY <1>1, <1>4, Onwards DEF Ensure, Step, CallInv, CallTypeOK

LEMMA CountStep == ASSUME CallInv, NEW c \in Callers, Count(c) PROVE CallInv'
<1> DEFINE r == call[c]
           a == r.answer
<1>1. r \in Records /\ Shape(r) /\ r.step = "count" BY CallTypes DEF CallInv, Count, Step
<1>2. Onward(c, Spent(r), Confirmed(r))
  <2>1. CASE Fives(circuit.fives, a) >= Threshold
    <3> DEFINE s == [r EXCEPT !.step = "trip"]
    <3>1. Go(c, s) /\ UNCHANGED <<gate, status>> BY <2>1 DEF Count, To
    <3>2. s \in Records /\ s.of = r.of /\ s.outer = r.outer /\ s.step = "trip" BY <1>1 DEF Records, CallSteps
    <3>3. Spent(s) = Spent(r) /\ Shape(s) /\ Through(s) = Through(r) /\ Confirmed(s) = Confirmed(r)
      BY <1>1 DEF Spent, Shape, Through, Outer, Confirmed, Records
    <3>4. Used(r.outer) \in Nat /\ Spent(r) \in 0 .. MaxTries BY <1>1, UsedFacts, SpentFacts DEF Records
    <3>5. Follows(r, s, Spent(r), Confirmed(r)) BY <3>2, <3>3, <3>4 DEF Follows
    <3> HIDE DEF s
    <3> QED BY <3>1, <3>2, <3>5 DEF Onward
  <2>2. CASE ~(Fives(circuit.fives, a) >= Threshold)
    <3>1. Leave(c) BY <2>2 DEF Count
    <3> QED BY <1>1, <3>1, Left DEF Step, CallInv
  <2> QED BY <2>1, <2>2
<1>3. circuit' \in [fives : 0 .. Threshold, left : 0 .. OpenTime]
  BY BankCallsAssumption DEF Count, Fives, CallInv, CallTypeOK
<1> QED BY <1>1, <1>2, <1>3, Onwards DEF Count, Step

LEMMA TripStep == ASSUME CallInv, NEW c \in Callers, Trip(c) PROVE CallInv'
<1>1. Shape(call[c]) /\ Step(c) = "trip" BY DEF CallInv, Trip
<1>2. Onward(c, Spent(call[c]), Confirmed(call[c])) BY <1>1, Left DEF Trip, CallInv
<1>3. circuit' \in [fives : 0 .. Threshold, left : 0 .. OpenTime]
  BY BankCallsAssumption DEF Trip, CallInv, CallTypeOK
<1> QED BY <1>1, <1>2, <1>3, Onwards DEF Trip

LEMMA ClaimStep == ASSUME CallInv, NEW c \in Callers, Claim(c) PROVE CallInv'
<1> DEFINE r == call[c]
           k == KeyOf[r.of]
<1>1. r \in Records /\ Shape(r) /\ r.step = "claim" BY CallTypes DEF CallInv, Claim, Step
<1>2. r.loop = "inner" /\ r.inner = 1 /\ ~r.renewed BY <1>1 DEF Shape, Records
<1>3. Confirmed(r) = FALSE /\ Spent(r) = 0 BY <1>1, <1>2 DEF Confirmed, Spent
<1>4. circuit' \in [fives : 0 .. Threshold, left : 0 .. OpenTime] BY DEF Claim, CallInv, CallTypeOK
<1>5. CASE ~Free(k)
  <2>1. Ended(c, FALSE) /\ UNCHANGED claim BY <1>5 DEF Claim
  <2>2. Onward(c, Spent(r), Confirmed(r)) BY <1>3, <2>1 DEF Onward
  <2> QED BY <1>1, <1>4, <2>1, <2>2, Onwards DEF Claim, Step
<1>6. CASE Free(k)
  <2> DEFINE s == [r EXCEPT !.step = IF Looped(c) THEN "token" ELSE "http"]
  <2>1. claim' = [claim EXCEPT ![k] = KeyTime] /\ Go(c, s) /\ UNCHANGED <<gate, status>> BY <1>6 DEF Claim, To
  <2>2. /\ s \in Records /\ s.of = r.of /\ s.outer = r.outer /\ s.step \in {"token", "http"}
    BY <1>1 DEF Records, CallSteps
  <2>3. Spent(s) = 0 /\ Shape(s) /\ Confirmed(s) = FALSE
    BY <1>1, <1>2 DEF Spent, Shape, Outer, Looped, Confirmed, Records
  <2>4. CallTypeOK /\ Knows(r) /\ call \in [Callers -> Records] BY CallTypes DEF CallInv
  <2>5. claim' \in [Keys -> 0 .. KeyTime]
    <3>1. KeyTime \in 0 .. KeyTime BY BankCallsAssumption
    <3> QED BY <2>1, <2>4, <3>1 DEF CallTypeOK
  <2>6. KeysClaimed'
    <3>1. \A d \in Callers \ {c} : call'[d] = call[d] BY <2>1, <2>4 DEF Go
    <3>2. call'[c].of = r.of BY <2>1, <2>2, <2>4 DEF Go
    <3>3. ASSUME NEW o \in Instructions, o # r.of, Past(o)' PROVE Past(o)
      <4>1. CASE \E d \in Callers : (call[d].of = o /\ Through(call[d]))'
        <5>1. PICK d \in Callers : (call[d].of = o /\ Through(call[d]))' BY <4>1
        <5>2. d # c BY <3>2, <3>3, <5>1
        <5>3. Through(call[d]) BY <3>1, <5>1, <5>2 DEF Through, Outer, Claim
        <5> QED BY <3>1, <5>1, <5>2, <5>3 DEF Past
      <4> QED BY <3>3, <4>1 DEF Past, Claim
    <3>4. ~(claim[k] > 0) BY <1>6 DEF Free
    <3>5. expired' = expired BY DEF Claim
    <3>6. ASSUME NEW o \in Instructions
          PROVE  /\ claim[KeyOf[o]] > 0 => claim'[KeyOf[o]] > 0
                 /\ KeyOf[o] = k => claim'[KeyOf[o]] > 0
      <4>1. KeyOf[o] \in Keys BY DEF Keys
      <4> QED BY <2>1, <2>4, <4>1, BankCallsAssumption DEF CallTypeOK
    <3>7. ASSUME NEW o \in Instructions, Past(o)'
          PROVE  /\ claim'[KeyOf[o]] > 0 \/ KeyOf[o] \in expired'
                 /\ \A p \in Instructions \ {o} : KeyOf[p] = KeyOf[o] /\ Past(p)' => KeyOf[o] \in expired'
      <4>1. CASE o = r.of
        <5>1. \A p \in Instructions \ {o} : KeyOf[p] = KeyOf[o] /\ Past(p)' => KeyOf[o] \in expired'
          BY <3>3, <3>4, <3>5, <4>1 DEF CallInv, KeysClaimed
        <5> QED BY <3>6, <4>1, <5>1
      <4>2. CASE o # r.of
        <5>1. Past(o) BY <3>3, <3>7, <4>2
        <5>2. claim[KeyOf[o]] > 0 \/ KeyOf[o] \in expired BY <5>1 DEF CallInv, KeysClaimed
        <5>3. ASSUME NEW p \in Instructions \ {o}, KeyOf[p] = KeyOf[o], Past(p)' PROVE KeyOf[o] \in expired'
          <6>1. CASE p = r.of BY <3>4, <3>5, <5>2, <5>3, <6>1
          <6>2. CASE p # r.of BY <3>3, <3>5, <5>1, <5>3, <6>2 DEF CallInv, KeysClaimed
          <6> QED BY <6>1, <6>2
        <5> QED BY <3>5, <3>6, <5>2, <5>3
      <4> QED BY <4>1, <4>2
    <3> QED BY <3>7 DEF KeysClaimed
  <2>7. s.of \in Instructions =>
          /\ taken[s.of] <= Used(s.outer) + Spent(s)
          /\ heard[s.of] = (IF Confirmed(s) THEN 1 ELSE 0)
          /\ heard[s.of] <= taken[s.of]
    BY <1>3, <2>2, <2>3, <2>4 DEF Knows, CallInv, Outcome
  <2> HIDE DEF s
  <2> QED BY <1>1, <1>4, <2>1, <2>2, <2>3, <2>4, <2>5, <2>6, <2>7, Advanced DEF Claim, CallTypeOK
<1> QED BY <1>5, <1>6

\* What the bank may do with a call of c that is not for a token.
LEMMA Asked ==
  ASSUME CallInv, NEW c \in Callers, NEW a \in Answers, Bank(c, a),
         Step(c) \in {"http", "again"}
  PROVE  LET p == call[c].of
         IN  /\ taken' \in [Instructions -> Nat] /\ heard' \in [Instructions -> Nat]
             /\ \A o \in Instructions \ {p} : taken'[o] = taken[o] /\ heard'[o] = heard[o]
             /\ call[c].loop = "token" \/ p = Balances => UNCHANGED <<taken, heard>>
             /\ p \in Instructions /\ call[c].loop # "token" =>
                  /\ taken'[p] <= taken[p] + (IF a \in {"4xx", "401"} THEN 0 ELSE 1)
                  /\ heard'[p] = IF a = "ok" THEN 1 ELSE 0
                  /\ heard'[p] <= taken'[p]
<1> DEFINE p == call[c].of
<1>1. taken \in [Instructions -> Nat] /\ heard \in [Instructions -> Nat] /\ call[c] \in Records
  BY CallTypes DEF CallInv, CallTypeOK
<1>2. p \in Instructions => heard[p] = 0 /\ taken[p] \in Nat
  BY <1>1 DEF CallInv, Knows, Confirmed, Step
<1>3. CASE call[c].loop = "token" \/ p = Balances
  BY <1>1, <1>3, BankCallsAssumption DEF Bank
<1>4. CASE ~(call[c].loop = "token" \/ p = Balances)
  <2>1. PICK n \in {0, 1} : /\ taken' = [taken EXCEPT ![p] = @ + n]
                            /\ n = 1 => a = "ok" \/ Transient(a)
                            /\ a = "ok" => n = 1
    BY <1>4 DEF Bank
  <2>2. heard' = [heard EXCEPT ![p] = @ + IF a = "ok" THEN 1 ELSE 0] BY <1>4 DEF Bank
  <2>3. p \in Instructions BY <1>1, <1>4 DEF Records
  <2>4. n \in Nat /\ (a \in {"4xx", "401"} => n = 0) BY <2>1 DEF Transient
  <2> QED BY <1>1, <1>2, <1>4, <2>1, <2>2, <2>3, <2>4
<1> QED BY <1>3, <1>4

LEMMA HttpStep == ASSUME CallInv, NEW c \in Callers, Http(c) PROVE CallInv'
<1> DEFINE r == call[c]
           p == r.of
<1>1. r \in Records /\ Shape(r) /\ Knows(r) /\ r.step = "http" /\ CallTypeOK /\ call \in [Callers -> Records]
  BY CallTypes DEF CallInv, Http, Step
<1>2. r.loop \in {"inner", "token"} /\ (r.renewed => r.loop = "token") BY <1>1 DEF Shape, Records
<1> DEFINE Next1(a) == IF Transient(a) /\ Retries(r.inner) THEN [r EXCEPT !.inner = @ + 1]
                       ELSE [r EXCEPT !.step = "count", !.inner = 1, !.answer = a]
<1>3. PICK a \in Answers : Bank(c, a) /\ Go(c, Next1(a)) BY DEF Http
<1> DEFINE s == Next1(a)
<1>4. /\ s \in Records /\ s.of = p /\ s.outer = r.outer /\ s.loop = r.loop /\ s.renewed = r.renewed
      /\ s.step \in {"http", "count"}
  <2>1. CASE Transient(a) /\ Retries(r.inner)
    <3>1. r.inner + 1 \in 1 .. MaxTries BY <1>1, <2>1, BankCallsAssumption DEF Records, Retries
    <3> QED BY <1>1, <2>1, <3>1 DEF Records
  <2>2. CASE ~(Transient(a) /\ Retries(r.inner))
    <3>1. 1 \in 1 .. MaxTries BY BankCallsAssumption
    <3> QED BY <1>1, <2>2, <3>1 DEF Records, CallSteps
  <2> QED BY <2>1, <2>2
<1>5. Shape(s) BY <1>1, <1>2, <1>4 DEF Shape, Outer, Records
<1>6. (Through(r) /\ Through(s)) \/ Through(s) = Through(r)
  BY <1>1, <1>2, <1>4 DEF Through, Outer
<1>7. p \in Instructions /\ r.loop = "inner" => Past(p) BY <1>1, <1>2 DEF Past, Through, Outer
<1>8. Confirmed(r) = FALSE BY <1>1 DEF Confirmed
<1>9. r.inner \in 1 .. MaxTries /\ MaxTries \in Nat \ {0} BY <1>1, BankCallsAssumption DEF Records
<1>10. r.loop = "inner" => Spent(s) >= Spent(r) + (IF a \in {"4xx", "401"} THEN 0 ELSE 1)
  <2> SUFFICES ASSUME r.loop = "inner" PROVE Spent(s) >= Spent(r) + (IF a \in {"4xx", "401"} THEN 0 ELSE 1) OBVIOUS
  <2>1. Spent(r) = r.inner - 1 BY <1>1, <1>2 DEF Spent
  <2>2. CASE Transient(a) /\ Retries(r.inner)
    <3>1. s.step = "http" /\ s.inner = r.inner + 1 BY <1>1, <2>2 DEF Records
    <3>2. Spent(s) = s.inner - 1 BY <1>2, <1>4, <3>1 DEF Spent
    <3> QED BY <1>9, <2>1, <3>1, <3>2
  <2>3. CASE ~(Transient(a) /\ Retries(r.inner))
    <3>1. s.step = "count" /\ s.answer = a BY <1>1, <2>3 DEF Records
    <3>2. \A t \in Records : t.loop = "inner" /\ t.step = "count" =>
            Spent(t) = IF t.answer \in {"401", "4xx"} THEN MaxTries - 1 ELSE MaxTries
      BY DEF Spent
    <3>3. Spent(s) = IF a \in {"401", "4xx"} THEN MaxTries - 1 ELSE MaxTries BY <1>4, <3>1, <3>2
    <3> HIDE DEF s, Next1
    <3>4. CASE a \in {"4xx", "401"} BY <1>9, <2>1, <3>3, <3>4
    <3>5. CASE a \notin {"4xx", "401"} BY <1>9, <2>1, <3>3, <3>5
    <3> QED BY <3>4, <3>5
  <2> QED BY <2>2, <2>3
<1>11. r.loop = "token" => Spent(s) = Spent(r) BY <1>1, <1>4 DEF Spent
<1>12. r.loop = "inner" => Confirmed(s) = (a = "ok")
  <2>1. CASE Transient(a) /\ Retries(r.inner)
    <3>1. s.step = "http" /\ a # "ok" BY <1>1, <2>1 DEF Records, Transient
    <3> QED BY <3>1 DEF Confirmed
  <2>2. CASE ~(Transient(a) /\ Retries(r.inner))
    <3>1. s.step = "count" /\ s.answer = a BY <1>1, <2>2 DEF Records
    <3> QED BY <1>4, <3>1 DEF Confirmed
  <2> QED BY <2>1, <2>2
<1>13. r.loop = "token" => Confirmed(s) = FALSE BY <1>4 DEF Confirmed
<1>14. taken' \in [Instructions -> Nat] /\ heard' \in [Instructions -> Nat]
       /\ (\A o \in Instructions \ {p} : taken'[o] = taken[o] /\ heard'[o] = heard[o])
       /\ (r.loop = "token" => UNCHANGED <<taken, heard>>)
       /\ (p \in Instructions /\ r.loop # "token" =>
             /\ taken'[p] <= taken[p] + (IF a \in {"4xx", "401"} THEN 0 ELSE 1)
             /\ heard'[p] = IF a = "ok" THEN 1 ELSE 0
             /\ heard'[p] <= taken'[p])
  BY <1>1, <1>3, Asked DEF Step
<1> HIDE DEF s, Next1
<1>15. Go(c, s) BY <1>3 DEF s
<1>16. Used(r.outer) \in Nat /\ Spent(r) \in 0 .. MaxTries /\ Spent(s) \in 0 .. MaxTries
  BY <1>1, <1>4, UsedFacts, SpentFacts DEF Records
<1>17. p \in Instructions =>
         /\ taken'[p] <= Used(s.outer) + Spent(s)
         /\ heard'[p] = (IF Confirmed(s) THEN 1 ELSE 0)
         /\ heard'[p] <= taken'[p]
  <2> SUFFICES ASSUME p \in Instructions
               PROVE  /\ taken'[p] <= Used(s.outer) + Spent(s)
                      /\ heard'[p] = (IF Confirmed(s) THEN 1 ELSE 0)
                      /\ heard'[p] <= taken'[p]
    OBVIOUS
  <2>1. taken[p] \in Nat /\ taken'[p] \in Nat /\ taken[p] <= Used(r.outer) + Spent(r) /\ heard[p] = 0 /\ heard[p] <= taken[p]
    BY <1>1, <1>8, <1>14 DEF CallTypeOK, Knows, CallInv, Outcome
  <2>2. CASE r.loop = "inner"
    <3>1. taken'[p] <= Used(r.outer) + Spent(s)
      <4>1. CASE a \in {"4xx", "401"} BY <1>9, <1>10, <1>14, <1>16, <2>1, <2>2, <4>1
      <4>2. CASE a \notin {"4xx", "401"} BY <1>9, <1>10, <1>14, <1>16, <2>1, <2>2, <4>2
      <4> QED BY <4>1, <4>2
    <3>2. heard'[p] = (IF Confirmed(s) THEN 1 ELSE 0) BY <1>12, <1>14, <2>2
    <3>3. heard'[p] <= taken'[p] BY <1>14, <2>2
    <3>4. s.outer = r.outer BY <1>4
    <3> QED BY <3>1, <3>2, <3>3, <3>4
  <2>3. CASE r.loop = "token" BY <1>4, <1>9, <1>11, <1>13, <1>14, <1>16, <2>1, <2>3
  <2> QED BY <1>2, <2>2, <2>3
<1>18. KeysClaimed'
  <2>1. \A d \in Callers : call'[d] = IF d = c THEN s ELSE call[d] BY <1>1, <1>15 DEF Go
  <2>2. ASSUME NEW o \in Instructions, Past(o)' PROVE Past(o)
    <3>1. CASE taken'[o] > 0
      BY <1>2, <1>7, <1>14, <3>1 DEF Past
    <3>2. CASE \E d \in Callers : (call[d].of = o /\ Through(call[d]))'
      <4>1. PICK d \in Callers : (call[d].of = o /\ Through(call[d]))' BY <3>2
      <4>2. Through(call'[d]) BY <4>1 DEF Through, Outer, Http
      <4> QED BY <1>4, <1>6, <2>1, <4>1, <4>2 DEF Past
    <3> QED BY <2>2, <3>1, <3>2 DEF Past
  <2> QED BY <2>2, KeysKept DEF Http
<1>19. s.step # "idle" /\ s.of = call[c].of BY <1>4
<1>20. /\ UNCHANGED <<use, gate, status, unlogged>>
       /\ circuit' \in [fives : 0 .. Threshold, left : 0 .. OpenTime]
       /\ claim' \in [Keys -> 0 .. KeyTime] /\ expired' \subseteq Keys
  BY <1>1 DEF Http, CallTypeOK
<1> QED BY <1>4, <1>5, <1>14, <1>15, <1>17, <1>18, <1>19, <1>20, Advanced

LEMMA AgainStep == ASSUME CallInv, NEW c \in Callers, Again(c) PROVE CallInv'
<1> DEFINE r == call[c]
           p == r.of
<1>1. r \in Records /\ Shape(r) /\ Knows(r) /\ r.step = "again" /\ CallTypeOK /\ call \in [Callers -> Records]
  BY CallTypes DEF CallInv, Again, Step
<1>2. r.loop = "inner" /\ r.renewed BY <1>1 DEF Shape, Records
<1>3. PICK a \in Answers : Bank(c, a) /\ IF a = "ok" THEN Answered(c) ELSE Raise(c, a) BY DEF Again
<1>4. Onward(c, MaxTries, a = "ok")
  <2>1. CASE a = "ok"
    <3>1. Onward(c, MaxTries, TRUE) BY <1>1, <1>3, <2>1, Replied DEF Step
    <3>2. (a = "ok") = TRUE BY <2>1
    <3> QED BY <3>1, <3>2
  <2>2. CASE a # "ok"
    <3>1. Onward(c, MaxTries, FALSE) BY <1>1, <1>3, <2>2, Raised DEF Step
    <3>2. (a = "ok") = FALSE BY <2>2
    <3> QED BY <3>1, <3>2
  <2> QED BY <2>1, <2>2
<1>5. /\ taken' \in [Instructions -> Nat] /\ heard' \in [Instructions -> Nat]
      /\ \A o \in Instructions \ {p} : taken'[o] = taken[o] /\ heard'[o] = heard[o]
      /\ p \in Instructions =>
           /\ taken'[p] <= taken[p] + (IF a \in {"4xx", "401"} THEN 0 ELSE 1)
           /\ heard'[p] = IF a = "ok" THEN 1 ELSE 0
           /\ heard'[p] <= taken'[p]
  BY <1>1, <1>2, <1>3, Asked DEF Step
<1>6. Spent(r) = MaxTries - 1 BY <1>1, <1>2 DEF Spent
<1>7. Used(r.outer) \in Nat /\ Used(r.outer) + MaxTries <= MaxTries * MaxTries /\ MaxTries \in Nat \ {0}
  BY <1>1, UsedFacts, BankCallsAssumption DEF Records
<1>8. p \in Instructions => taken'[p] <= Used(r.outer) + MaxTries
  <2> SUFFICES ASSUME p \in Instructions PROVE taken'[p] <= Used(r.outer) + MaxTries OBVIOUS
  <2>1. taken[p] \in Nat /\ taken'[p] \in Nat /\ taken[p] <= Used(r.outer) + (MaxTries - 1)
    BY <1>1, <1>5, <1>6 DEF Knows, CallTypeOK
  <2>2. taken'[p] <= taken[p] + 1 BY <1>5, <2>1
  <2> QED BY <1>7, <2>1, <2>2
<1>9. \A o \in Instructions : taken'[o] > 0 => Past(o)
  BY <1>1, <1>2, <1>5 DEF Past, Through, Outer
<1>10. UNCHANGED <<use, circuit, claim, unlogged, expired>> BY DEF Again
<1>11. circuit' \in [fives : 0 .. Threshold, left : 0 .. OpenTime] BY <1>1, <1>10 DEF CallTypeOK
<1>12. CASE Ended(c, a = "ok")
  <2>1. p \in Instructions => taken'[p] <= Tries
    <3>1. use.bank # "birbank" => Used(r.outer) = 0 BY <1>1, UsedFacts DEF Shape, Outer
    <3>2. p \in Instructions => taken'[p] \in Nat /\ MaxTries * MaxTries \in Nat BY <1>5, <1>7
    <3>3. CASE use.bank = "birbank" BY <1>7, <1>8, <3>2, <3>3 DEF Tries
    <3>4. CASE use.bank # "birbank" BY <1>7, <1>8, <3>1, <3>2, <3>4 DEF Tries
    <3> QED BY <3>3, <3>4
  <2>2. p \in Instructions =>
          /\ heard'[p] <= 1 /\ heard'[p] <= taken'[p]
          /\ IF a = "ok" THEN heard'[p] = 1 ELSE heard'[p] = 0 \/ p \in unlogged'
    BY <1>5
  <2>3. unlogged \subseteq unlogged' /\ unlogged' \subseteq Instructions BY <1>1, <1>10 DEF CallTypeOK
  <2>4. (a = "ok") \in BOOLEAN /\ Step(c) # "idle" BY <1>1 DEF Step
  <2> QED BY <1>5, <1>9, <1>10, <1>11, <1>12, <2>1, <2>2, <2>3, <2>4, Over
<1>13. CASE ~Ended(c, a = "ok")
  <2>1. PICK s \in Records : Follows(r, s, MaxTries, a = "ok") /\ Go(c, s) BY <1>4, <1>13 DEF Onward
  <2>2. UNCHANGED <<gate, status>> BY <1>4, <1>13 DEF Onward
  <2>3. s.of = p /\ Shape(s) /\ s.step # "idle" /\ Confirmed(s) = (a = "ok") BY <2>1 DEF Follows
  <2>4. p \in Instructions => taken'[p] <= Used(s.outer) + Spent(s)
    <3>1. Used(s.outer) + Spent(s) >= Used(r.outer) + MaxTries BY <2>1 DEF Follows
    <3>2. Used(s.outer) \in Nat /\ Spent(s) \in 0 .. MaxTries BY UsedFacts, SpentFacts DEF Records
    <3> QED BY <1>5, <1>7, <1>8, <3>1, <3>2
  <2>5. p \in Instructions => heard'[p] = (IF Confirmed(s) THEN 1 ELSE 0) /\ heard'[p] <= taken'[p]
    BY <1>5, <2>3
  <2>6. KeysClaimed'
    <3>1. \A d \in Callers : call'[d] = IF d = c THEN s ELSE call[d] BY <1>1, <2>1 DEF Go
    <3>2. ASSUME NEW o \in Instructions, Past(o)' PROVE Past(o)
      <4>1. CASE taken'[o] > 0 BY <1>9, <4>1
      <4>2. CASE \E d \in Callers : (call[d].of = o /\ Through(call[d]))'
        <5>1. PICK d \in Callers : (call[d].of = o /\ Through(call[d]))' BY <4>2
        <5>2. Through(call'[d]) BY <1>10, <5>1 DEF Through, Outer
        <5> QED BY <2>1, <2>3, <3>1, <5>1, <5>2 DEF Past, Follows
      <4> QED BY <3>2, <4>1, <4>2 DEF Past
    <3> QED BY <1>10, <3>2, KeysKept
  <2>7. claim' \in [Keys -> 0 .. KeyTime] /\ expired' \subseteq Keys BY <1>1, <1>10 DEF CallTypeOK
  <2> QED BY <1>5, <1>10, <1>11, <2>1, <2>2, <2>3, <2>4, <2>5, <2>6, <2>7, Advanced
<1> QED BY <1>12, <1>13

LEMMA LoseStep == ASSUME CallInv, NEW c \in Callers, LoseRedis(c) PROVE CallInv'
<1> DEFINE p == call[c].of
<1>1. CallTypeOK /\ Knows(call[c]) /\ call[c] \in Records BY CallTypes DEF CallInv
<1>2. p \in Instructions => Outcome(p) BY DEF CallInv
<1>3. unlogged' = unlogged \cup {o \in Instructions : o = p /\ heard[o] > 0} BY DEF LoseRedis
<1>4. p \in Instructions => heard[p] = 0 \/ p \in unlogged' BY <1>1, <1>3 DEF CallTypeOK
<1>5. \A o \in Instructions : taken[o] > 0 => Past(o) BY DEF Past
<1>6. Step(c) # "idle" /\ Ended(c, FALSE) /\ UNCHANGED <<use, claim, taken, heard, expired>> BY DEF LoseRedis
<1>7. circuit' \in [fives : 0 .. Threshold, left : 0 .. OpenTime]
  <2>1. circuit.fives \in 0 .. Threshold /\ circuit.left \in 0 .. OpenTime BY <1>1 DEF CallTypeOK
  <2>2. Threshold \in Nat /\ OpenTime \in Nat /\ 0 \in 0 .. Threshold /\ OpenTime \in 0 .. OpenTime
    BY BankCallsAssumption
  <2>3. Fives(circuit.fives, call[c].answer) \in 0 .. Threshold BY <2>1, <2>2 DEF Fives
  <2>. QED BY <2>1, <2>2, <2>3 DEF LoseRedis, Written
<1>8. taken' \in [Instructions -> Nat] /\ heard' \in [Instructions -> Nat] BY <1>1, <1>6 DEF CallTypeOK
<1>9. unlogged \subseteq unlogged' /\ unlogged' \subseteq Instructions BY <1>1, <1>3 DEF CallTypeOK
<1> QED BY <1>2, <1>4, <1>5, <1>6, <1>7, <1>8, <1>9, Over DEF Outcome

\* A free caller starts on an instruction that nobody has sent, or on balances.
LEMMA Started ==
  ASSUME CallInv, NEW c \in Callers, Idle(c), NEW s \in Records, Go(c, s), Shape(s),
         s.outer = 1, Spent(s) = 0, Confirmed(s) = FALSE, s.of \in Instructions => ~Through(s),
         s.of \in Instructions => status[s.of] = "NONE" /\ status' = [status EXCEPT ![s.of] = "PENDING"],
         s.of \notin Instructions => status' = status,
         gate' \in {gate, Closed},
         UNCHANGED <<use, circuit, claim, taken, heard, unlogged, expired>>
  PROVE  CallInv'
<1>0. CallTypeOK /\ call \in [Callers -> Records] BY CallTypes DEF CallInv
<1>1. \A d \in Callers : call'[d] = IF d = c THEN s ELSE call[d] BY <1>0 DEF Go
<1>2. call[c].of \notin Instructions BY BankCallsAssumption DEF CallInv, Shape, Idle, Step
<1>3. CallTypeOK'
  <2>1. call' \in [Callers -> Records] BY <1>0 DEF Go
  <2>2. Closed \in [errors : 0 .. Threshold, opened : BOOLEAN, left : 0 .. OpenTime] BY BankCallsAssumption DEF Closed
  <2>3. status' \in [Instructions -> {"NONE", "PENDING", "SENT", "REJECTED"}] BY <1>0 DEF CallTypeOK
  <2> QED BY <1>0, <2>1, <2>2, <2>3 DEF CallTypeOK, Records, CallSteps
<1>4. \A o \in Instructions : status'[o] = IF o = s.of THEN "PENDING" ELSE status[o] BY <1>0 DEF CallTypeOK
<1>5. s.of \in Instructions => taken[s.of] = 0 /\ heard[s.of] = 0 BY DEF CallInv, Outcome
<1>6. ASSUME NEW d \in Callers, d # c, call[d].of \in Instructions PROVE call[d].of # s.of
  BY <1>6 DEF CallInv, Knows
<1>7. ASSUME NEW d \in Callers PROVE (Shape(call[d]) /\ Knows(call[d]))'
  <2>1. CASE d = c
    <3>1. call'[d] = s BY <1>1, <2>1
    <3>2. Used(s.outer) + Spent(s) = 0 BY UsedFacts
    <3>3. Knows(s)' BY <1>4, <1>5, <3>2 DEF Knows, Used, Spent, Confirmed
    <3> QED BY <3>1, <3>3 DEF Shape, Knows, Outer, Used, Spent, Confirmed
  <2>2. CASE d # c
    <3>1. call'[d] = call[d] BY <1>1, <2>2
    <3>2. Shape(call[d]) /\ Knows(call[d]) BY DEF CallInv
    <3> QED BY <1>4, <1>6, <2>2, <3>1, <3>2 DEF Shape, Knows, Outer, Used, Spent, Confirmed
  <2> QED BY <2>1, <2>2
<1>8. Single'
  <2> SUFFICES ASSUME NEW d \in Callers, NEW e \in Callers, d # e, call'[d].of = call'[e].of
               PROVE  call'[d].of = Balances
    BY DEF Single
  <2>1. CASE d # c /\ e # c BY <1>1, <2>1 DEF CallInv, Single
  <2>2. CASE s.of \notin Instructions BY <1>1, <2>1, <2>2 DEF Records
  <2>3. CASE s.of \in Instructions /\ (d = c \/ e = c) BY <1>1, <1>6, <2>3 DEF Records
  <2> QED BY <2>1, <2>2, <2>3
<1>9. ASSUME NEW o \in Instructions PROVE Outcome(o)'
  <2>1. Outcome(o) /\ Tries' = Tries BY DEF CallInv, Tries
  <2> QED BY <1>4, <2>1 DEF Outcome
<1>10. ASSUME NEW o \in Instructions, Past(o)' PROVE Past(o)
  <2>1. CASE \E d \in Callers : (call[d].of = o /\ Through(call[d]))'
    <3>1. PICK d \in Callers : (call[d].of = o /\ Through(call[d]))' BY <2>1
    <3>2. Through(call'[d]) BY <3>1 DEF Through, Outer
    <3> QED BY <1>1, <3>1, <3>2 DEF Past
  <2> QED BY <1>10, <2>1 DEF Past
<1>11. KeysClaimed' BY <1>10, KeysKept
<1> QED BY <1>3, <1>7, <1>8, <1>9, <1>11 DEF CallInv

LEMMA SendDraftStep == ASSUME CallInv, NEW c \in Callers, NEW d \in Drafts, SendDraft(c, d) PROVE CallInv'
<1> DEFINE s == [Rest EXCEPT !.step = IF use.bank = "birbank" THEN "enter" ELSE "token", !.of = d]
<1>1. s \in Records /\ s.of = d /\ d \in Instructions
  BY CallTypes DEF CallInv, Records, CallSteps, Rest, Instructions
<1>2. s.outer = 1 /\ Spent(s) = 0 /\ Confirmed(s) = FALSE /\ Shape(s) /\ ~Through(s)
  BY <1>1, BankCallsAssumption DEF Spent, Confirmed, Shape, Through, Outer, Rest
<1>3. Go(c, s) /\ Idle(c) /\ gate' \in {gate, Closed} BY DEF SendDraft, Admitted
<1> HIDE DEF s
<1> QED BY <1>1, <1>2, <1>3, Started DEF SendDraft

LEMMA SendTransferStep == ASSUME CallInv, NEW c \in Callers, NEW o \in Transfers, SendTransfer(c, o) PROVE CallInv'
<1> DEFINE s == [Rest EXCEPT !.step = "token", !.of = o]
<1>1. s \in Records /\ s.of = o /\ o \in Instructions
  BY CallTypes DEF CallInv, Records, CallSteps, Rest, Instructions
<1>2. s.outer = 1 /\ Spent(s) = 0 /\ Confirmed(s) = FALSE /\ Shape(s) /\ ~Through(s)
  BY <1>1 DEF Spent, Confirmed, Shape, Through, Outer, Rest, SendTransfer
<1>3. Go(c, s) /\ Idle(c) /\ gate' \in {gate, Closed} BY DEF SendTransfer
<1> HIDE DEF s
<1> QED BY <1>1, <1>2, <1>3, Started DEF SendTransfer

LEMMA ReadBalancesStep == ASSUME CallInv, NEW c \in Callers, ReadBalances(c) PROVE CallInv'
<1> DEFINE s == [Rest EXCEPT !.step = "token"]
<1>1. s \in Records /\ s.of \notin Instructions
  BY CallTypes, BankCallsAssumption DEF CallInv, Records, CallSteps, Rest
<1>2. s.outer = 1 /\ Spent(s) = 0 /\ Confirmed(s) = FALSE /\ Shape(s)
  BY DEF Spent, Confirmed, Shape, Outer, Rest
<1>3. Go(c, s) /\ Idle(c) /\ gate' \in {gate, Closed} BY DEF ReadBalances, Admitted
<1> HIDE DEF s
<1> QED BY <1>1, <1>2, <1>3, Started DEF ReadBalances

\* Nothing but the breakers changes, and the claims that run out.
LEMMA Waited ==
  ASSUME CallInv, CallTypeOK', UNCHANGED <<use, status, call, taken, heard, unlogged>>,
         \A k \in Keys : claim[k] > 0 \/ k \in expired => claim'[k] > 0 \/ k \in expired',
         expired \subseteq expired'
  PROVE  CallInv'
<1>1. \A c \in Callers : (Shape(call[c]) /\ Knows(call[c]))'
  BY DEF CallInv, Shape, Knows, Outer, Used, Spent, Confirmed
<1>2. Single' BY DEF CallInv, Single
<1>3. \A o \in Instructions : Outcome(o)' BY DEF CallInv, Outcome, Tries
<1>4. \A o \in Instructions : Past(o)' => Past(o) BY DEF Past, Through, Outer
<1>5. KeysClaimed' BY <1>4, KeysKept
<1> QED BY <1>1, <1>2, <1>3, <1>5 DEF CallInv

LEMMA RefuseStep == ASSUME CallInv, NEW kind, Refuse(kind) PROVE CallInv'
<1> DEFINE Gates == [errors : 0 .. Threshold, opened : BOOLEAN, left : 0 .. OpenTime]
<1>1. gate \in Gates /\ CallTypeOK BY DEF CallInv, CallTypeOK
<1>2. Failed(gate) \in Gates
  <2>1. CASE gate.errors + 1 >= Threshold BY <2>1, BankCallsAssumption DEF Failed
  <2>2. CASE ~(gate.errors + 1 >= Threshold) BY <1>1, <2>2, BankCallsAssumption DEF Failed
  <2> QED BY <2>1, <2>2
<1>3. gate' \in Gates BY <1>1, <1>2 DEF Refuse, Refused
<1>4. CallTypeOK' BY <1>1, <1>3 DEF Refuse, CallTypeOK
<1> QED BY <1>4, Waited DEF Refuse

LEMMA TickStep == ASSUME CallInv, Tick PROVE CallInv'
<1>1. CallTypeOK BY DEF CallInv
<1>2. \A n \in Nat : \A m \in 0 .. n : Less(m) \in 0 .. n BY DEF Less
<1>3. claim' \in [Keys -> 0 .. KeyTime] BY <1>1, <1>2, BankCallsAssumption DEF Tick, CallTypeOK
<1>4. gate' \in [errors : 0 .. Threshold, opened : BOOLEAN, left : 0 .. OpenTime]
  BY <1>1, <1>2, BankCallsAssumption DEF Tick, CallTypeOK
<1>5. circuit' \in [fives : 0 .. Threshold, left : 0 .. OpenTime]
  BY <1>1, <1>2, BankCallsAssumption DEF Tick, CallTypeOK
<1>6. CallTypeOK' BY <1>1, <1>3, <1>4, <1>5 DEF Tick, CallTypeOK
<1>7. ASSUME NEW k \in Keys, claim[k] > 0 PROVE claim'[k] > 0 \/ k \in expired'
  <2>1. claim[k] \in Nat /\ claim'[k] = Less(claim[k]) BY <1>1, BankCallsAssumption DEF Tick, CallTypeOK
  <2>2. CASE claim[k] = 1 BY <2>2 DEF Tick
  <2>3. CASE claim[k] # 1 BY <1>7, <2>1, <2>3 DEF Less
  <2> QED BY <2>2, <2>3
<1>8. expired \subseteq expired' BY DEF Tick
<1> QED BY <1>6, <1>7, <1>8, Waited DEF Tick

LEMMA RestartStep == ASSUME CallInv, Restart PROVE CallInv'
<1>1. CallTypeOK BY DEF CallInv
<1>2. Rest.of \notin Instructions /\ Rest.of = Balances BY BankCallsAssumption DEF Rest
<1>3. \A c \in Callers : call'[c] = Rest BY DEF Restart
<1>4. CallTypeOK'
  <2>1. \A c \in Callers : Rest \in Records BY <1>1, CallTypes
  <2>2. call' \in [Callers -> Records] BY <2>1 DEF Restart
  <2>3. gate' \in [errors : 0 .. Threshold, opened : BOOLEAN, left : 0 .. OpenTime]
    BY BankCallsAssumption DEF Restart, Closed
  <2> QED BY <1>1, <2>2, <2>3 DEF Restart, CallTypeOK, Records, CallSteps
<1>5. ASSUME NEW c \in Callers PROVE (Shape(call[c]) /\ Knows(call[c]))'
  <2>1. Shape(Rest) BY <1>1, CallTypes
  <2> QED BY <1>2, <1>3, <2>1 DEF Shape, Knows, Outer, Rest
<1>6. Single' BY <1>2, <1>3 DEF Single
<1>7. \A o \in Instructions : Outcome(o)' BY DEF Restart, CallInv, Outcome, Tries
<1>8. \A o \in Instructions : Past(o)' => Past(o) BY <1>2, <1>3 DEF Past, Restart
<1>9. KeysClaimed' BY <1>8, KeysKept DEF Restart
<1> QED BY <1>4, <1>5, <1>6, <1>7, <1>9 DEF CallInv

-----------------------------------------------------------------------------
LEMMA CallInvInit == CallInit => CallInv
<1> SUFFICES ASSUME CallInit PROVE CallInv OBVIOUS
<1>1. Rest.of \notin Instructions /\ Rest.of = Balances BY BankCallsAssumption DEF Rest
<1>2. Rest \in Records
  <2>1. 1 \in 1 .. MaxTries BY BankCallsAssumption
  <2> QED BY <2>1 DEF Rest, Records, CallSteps, Answers
<1>3. CallTypeOK BY <1>2, BankCallsAssumption DEF CallInit, CallTypeOK, Closed, Records, CallSteps
<1>4. \A c \in Callers : Shape(call[c]) /\ Knows(call[c]) BY <1>1 DEF CallInit, Shape, Knows, Outer, Rest
<1>5. Single BY <1>1 DEF CallInit, Single
<1>6. \A o \in Instructions : Outcome(o) BY BankCallsAssumption DEF CallInit, Outcome, Tries
<1>7. \A o \in Instructions : ~Past(o) BY <1>1 DEF CallInit, Past
<1> QED BY <1>3, <1>4, <1>5, <1>6, <1>7 DEF CallInv, KeysClaimed

LEMMA CallInvStep == CallInv /\ [CallNext]_callVars => CallInv'
<1> SUFFICES ASSUME CallInv, [CallNext]_callVars PROVE CallInv' OBVIOUS
<1>1. ASSUME NEW c \in Callers, CallStep(c) PROVE CallInv'
  BY <1>1, EnterStep, ClaimStep, TokenStep, EnsureStep, HttpStep, CountStep, TripStep, AgainStep, LoseStep DEF CallStep
<1>2. ASSUME NEW c \in Callers, ReadBalances(c) PROVE CallInv' BY <1>2, ReadBalancesStep
<1>3. ASSUME NEW c \in Callers, NEW d \in Drafts, SendDraft(c, d) PROVE CallInv' BY <1>3, SendDraftStep
<1>4. ASSUME NEW c \in Callers, NEW o \in Transfers, SendTransfer(c, o) PROVE CallInv' BY <1>4, SendTransferStep
<1>5. ASSUME NEW kind \in {"balances", "draft"}, Refuse(kind) PROVE CallInv' BY <1>5, RefuseStep
<1>6. CASE Restart BY <1>6, RestartStep
<1>7. CASE Tick BY <1>7, TickStep
<1>8. CASE UNCHANGED callVars
  <2>1. CallTypeOK' BY <1>8 DEF CallInv, CallTypeOK, callVars
  <2> QED BY <1>8, <2>1, Waited DEF callVars
<1> QED BY <1>1, <1>2, <1>3, <1>4, <1>5, <1>6, <1>7, <1>8 DEF CallNext

\* A bank takes an instruction at most as often as the loops may try it, its confirmation
\* is the last of it and decides the status, and two files of one key are not both taken
\* before the key has run out (birbank.adapter.ts, abb.adapter.ts,
\* integration-reliability.service.ts), whatever the bank answers and Redis loses.
THEOREM OnceInstructed == CallSpec => []InstructedOnce
<1>1. CallInv => InstructedOnce BY DEF CallInv, Outcome, KeysClaimed, InstructedOnce, Past
<1> QED BY <1>1, CallInvInit, CallInvStep, PTL DEF CallSpec

-----------------------------------------------------------------------------
(* The composition *)

ProvidersInv == Inv /\ CallInv

\* A behaviour is one of the orders or one of the calls; the other side stands still.
LEMMA ProvidersInvariance == ProvidersSpec => []ProvidersInv
<1>1. ProvidersInit => ProvidersInv
  BY InitInv, CallInvInit DEF ProvidersInit, ProvidersInv
<1>2. ProvidersInv /\ [ProvidersNext]_providerVars => ProvidersInv'
  <2> SUFFICES ASSUME ProvidersInv, [ProvidersNext]_providerVars PROVE ProvidersInv'
    OBVIOUS
  <2>1. [Next]_vars /\ [CallNext]_callVars
    BY DEF ProvidersNext, providerVars
  <2>2. QED
    BY <2>1, StepInv, CallInvStep DEF ProvidersInv
<1>3. QED
  BY <1>1, <1>2, PTL DEF ProvidersSpec

\* The orders and the calls keep their types, whatever is lost, repeated or restarted.
THEOREM ProvidersTypes == ProvidersSpec => []ProvidersTypeOK
<1>1. ProvidersInv => ProvidersTypeOK
  BY DEF ProvidersInv, Inv, CallInv, ProvidersTypeOK
<1>2. QED
  BY <1>1, ProvidersInvariance, PTL

\* In the composition too, a payment is applied once (finalizePaidOrder), an instruction is
\* taken no more often than the loops try it, and the outcome of an order is final.
THEOREM ProvidersSafe == ProvidersSpec => [](AppliedOnce /\ InstructedOnce) /\ OutcomeIsFinal
<1>1. ProvidersInv => AppliedOnce /\ InstructedOnce
  BY DEF ProvidersInv, Inv, CallInv, Outcome, KeysClaimed, InstructedOnce, Past
<1>2. ProvidersInv /\ [ProvidersNext]_providerVars
      => [\A o \in Orders : order[o] \in {"PAID", "FAILED"} => order'[o] = order[o]]_vars
  <2> SUFFICES ASSUME ProvidersInv, [ProvidersNext]_providerVars
               PROVE  [\A o \in Orders : order[o] \in {"PAID", "FAILED"} => order'[o] = order[o]]_vars
    OBVIOUS
  <2>1. [Next]_vars
    BY DEF ProvidersNext, providerVars
  <2>2. QED
    BY <2>1, StepFinal DEF ProvidersInv
<1>3. QED
  BY <1>1, <1>2, ProvidersInvariance, PTL DEF ProvidersSpec, OutcomeIsFinal
=============================================================================
