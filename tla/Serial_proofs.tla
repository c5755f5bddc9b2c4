---------------------------- MODULE Serial_proofs ----------------------------
(***************************************************************************)
(* Theorems about Receivables where requests do not overlap (OneClient),   *)
(* for every number of invoices and bank lines:                            *)
(*   RevenuePostedOnce, LinesBookedOnce, SignaturesCompleteOnce,           *)
(* and where nettings are not offered either (NoNetting):                  *)
(*   StatusIsRight, NoOverpayment, AllocationsAddUp, RoundingIsBounded,    *)
(*   SettlementRefines  Receivables implements OpenItems.                  *)
(* The argument: what the one request being served has read is what is     *)
(* committed (ReadsFresh), so that a payment of what is left ends at the   *)
(* total, an allocation writes rows that go on from the committed ones     *)
(* (BucketsSound), and amounts and status of a row agree (Sound).          *)
(***************************************************************************)
EXTENDS Receivables_proofs

-----------------------------------------------------------------------------
(* Requests that do not overlap read what is committed *)

\* Requests do not overlap.
OneClient == \A c, d \in Clients : c = d

\* What the request being served has read is what is committed.
ReadsFresh ==
  \A c \in Clients :
    /\ pc[c] = "ready" =>
         seen[c] = row[req[c].inv] /\ Admissible(req[c], seen[c])
    /\ pc[c] = "fresh" /\ req[c].op = "PAID" =>
         seen[c] = row[req[c].inv] /\ Editable(seen[c]) /\ Total[req[c].inv] <= seen[c].paid
    /\ pc[c] \in {"match", "again"} => req[c].op = "BANK" /\ seen[c] = row[req[c].inv] /\ Editable(seen[c])
    /\ pc[c] \in {"begin", "match", "again", "ready"} /\ req[c].op = "BANK" => ~line[req[c].line].matched
    /\ pc[c] \in {"drop", "create"} =>
         /\ req[c].inv \in Invoices /\ sig[req[c].inv].completed = 0
         /\ row[req[c].inv].status # "LOCKED_BY_SIGNATURE"
         /\ pc[c] = "create" => sig[req[c].inv].pending = 0

\* A session is pending only on an invoice that nobody has signed, and only one.
SignaturesOnce ==
  \A i \in Invoices :
    /\ sig[i].completed <= 1 /\ sig[i].pending <= 1
    /\ sig[i].pending > 0 => sig[i].completed = 0

\* The invariant of requests that do not overlap.
SerialInv == SettlementInv /\ ReadsFresh /\ SignaturesOnce /\ LineBookedOnce /\ RevenueOnce

\* Nobody else commits while a request is being served.
LEMMA FreshStep ==
  ASSUME OneClient, SerialInv, NEW c \in Clients, Step(c), TypeInv'
  PROVE  ReadsFresh'
<1> DEFINE Fresh(d) ==
      /\ pc[d] = "ready" =>
           seen[d] = row[req[d].inv] /\ Admissible(req[d], seen[d])
      /\ pc[d] = "fresh" /\ req[d].op = "PAID" =>
           seen[d] = row[req[d].inv] /\ Editable(seen[d]) /\ Total[req[d].inv] <= seen[d].paid
      /\ pc[d] \in {"match", "again"} => req[d].op = "BANK" /\ seen[d] = row[req[d].inv] /\ Editable(seen[d])
      /\ pc[d] \in {"begin", "match", "again", "ready"} /\ req[d].op = "BANK" => ~line[req[d].line].matched
      /\ pc[d] \in {"drop", "create"} =>
           /\ req[d].inv \in Invoices /\ sig[req[d].inv].completed = 0
           /\ row[req[d].inv].status # "LOCKED_BY_SIGNATURE"
           /\ pc[d] = "create" => sig[req[d].inv].pending = 0
<1>0. TypeInv /\ Fresh(c) /\ None \notin AllRequests
  BY ReceivablesAssumption DEF SerialInv, SettlementInv, RevenueInv, ReadsFresh
<1>1. SUFFICES Fresh(c)'
  BY <1>1 DEF ReadsFresh, OneClient
<1> USE DEF TypeInv, SessionOK
<1>2. ASSUME Finish(c) PROVE Fresh(c)'
  BY <1>0, <1>2 DEF Finish
<1>3. ASSUME NEW r, Open(c, r, "begin"), UNCHANGED line, r.op = "BANK" => Unmatched(r.line) PROVE Fresh(c)'
  BY <1>0, <1>3 DEF Open, Unmatched
<1>4. ASSUME NEW role \in Roles, NEW i \in Invoices, AcceptSignature(c, role, i) PROVE Fresh(c)'
  <2>1. /\ pc' = [pc EXCEPT ![c] = "drop"] /\ req' = [req EXCEPT ![c] = Ask("SIGN", role, i, 0, None, None)]
        /\ UNCHANGED <<row, sig>> /\ MaySign(i)
    BY <1>4 DEF AcceptSignature, Open
  <2>2. req'[c].inv = i /\ pc'[c] = "drop"
    BY <1>0, <2>1 DEF Ask
  <2>3. QED
    BY <2>1, <2>2 DEF MaySign
<1>5. ASSUME Accept(c) PROVE Fresh(c)'
  <2>1. \/ \E r : Open(c, r, "begin") /\ UNCHANGED line /\ (r.op = "BANK" => Unmatched(r.line))
        \/ \E role \in Roles, i \in Invoices : AcceptSignature(c, role, i)
    <3> DEFINE Goal == \E r : Open(c, r, "begin") /\ UNCHANGED line /\ (r.op = "BANK" => Unmatched(r.line))
    <3>1. \A op, role, i, x, a, l : /\ Ask(op, role, i, x, a, l).op = op
                                    /\ Ask(op, role, i, x, a, l).line = l
      BY DEF Ask
    <3>2. ASSUME NEW role \in Roles, NEW i \in Invoices, NEW op \in {"SENT", "PAID"},
                 AcceptStatus(c, op, role, i) PROVE Goal
      BY <3>1, <3>2 DEF AcceptStatus
    <3>3. ASSUME NEW role \in Roles, NEW i \in Invoices, NEW x \in Amounts, NEW a \in Accounts,
                 AcceptPay(c, role, i, x, a) PROVE Goal
      BY <3>1, <3>3 DEF AcceptPay
    <3>4. ASSUME NEW role \in Roles, NEW x \in Amounts, NEW a \in Accounts,
                 AcceptAlloc(c, role, x, a) PROVE Goal
      BY <3>1, <3>4 DEF AcceptAlloc
    <3>5. ASSUME NEW role \in Roles, NEW l \in Lines, NEW i \in Invoices,
                 AcceptMatch(c, role, l, i) PROVE Goal
      <4>1. Unmatched(l) /\ UNCHANGED line /\ Open(c, Ask("BANK", role, i, 0, None, l), "begin")
        BY <3>5 DEF AcceptMatch
      <4>2. QED
        BY <3>1, <4>1
    <3>6. ASSUME NEW role \in Roles, NEW x \in Amounts,
                 AcceptNetting(c, role, x) PROVE Goal
      BY <3>1, <3>6 DEF AcceptNetting
    <3>7. QED
      BY <1>5, <3>2, <3>3, <3>4, <3>5, <3>6 DEF Accept
  <2>2. QED
    BY <1>3, <1>4, <2>1
<1>6. ASSUME ReadInvoice(c) \/ FindInvoice(c) PROVE Fresh(c)'
  BY <1>0, <1>6 DEF ReadInvoice, FindInvoice, Admissible
<1>7. ASSUME RefreshPaid(c) PROVE Fresh(c)'
  <2>1. /\ pc' = [pc EXCEPT ![c] = "fresh"] /\ UNCHANGED <<row, req, line, sig>>
        /\ seen[c] = row[req[c].inv] /\ Admissible(req[c], seen[c]) /\ req[c].inv \in Invoices
        /\ Total[req[c].inv] - seen[c].paid <= 0
    BY <1>0, <1>7 DEF RefreshPaid
  <2>2. seen'[c] = [seen[c] EXCEPT !.paid = row[req[c].inv].paid, !.status = row[req[c].inv].status]
    BY <1>0, <1>7 DEF RefreshPaid
  <2>3. seen'[c] = seen[c]
    BY <1>0, <2>1, <2>2 DEF Row
  <2>4. Total[req[c].inv] \in Nat /\ seen[c].paid \in Int
    BY <1>0, <2>1, ReceivablesAssumption DEF Row
  <2>5. QED
    BY <1>0, <2>1, <2>3, <2>4 DEF Admissible
<1>8. ASSUME ReadOpen(c) PROVE Fresh(c)'
  BY <1>0, <1>8 DEF ReadOpen
<1>9. ASSUME NEW i \in Invoices, ReadBucket(c, i) PROVE Fresh(c)'
  <2>1. req[c].op # "PAID"
    BY <1>9 DEF ReadBucket, SerialInv, SettlementInv, SessionShape, SeveralRequests
  <2>2. QED
    BY <1>0, <1>9, <2>1 DEF ReadBucket
<1>10. ASSUME NEW i \in Invoices, WriteBucket(c, i) PROVE Fresh(c)'
  BY <1>0, <1>10 DEF WriteBucket
<1>11. ASSUME DropPending(c) PROVE Fresh(c)'
  <2> DEFINE i == req[c].inv
  <2>1. /\ pc' = [pc EXCEPT ![c] = "create"] /\ UNCHANGED <<row, req>> /\ i \in Invoices
        /\ sig[i].completed = 0 /\ row[i].status # "LOCKED_BY_SIGNATURE"
        /\ sig' = [sig EXCEPT ![i] = [sig[i] EXCEPT !.pending = 0]]
    BY <1>0, <1>11 DEF DropPending, TypeOK
  <2>2. sig'[i].completed = 0 /\ sig'[i].pending = 0
    BY <1>0, <2>1 DEF TypeOK
  <2>3. QED
    BY <1>0, <2>1, <2>2
<1>12. ASSUME NEW i \in Invoices, PollSignature(c, i) PROVE Fresh(c)'
  BY <1>0, <1>12 DEF PollSignature
<1>13. ASSUME FindPayable(c) \/ FindLeft(c) PROVE Fresh(c)'
  <2>1. /\ req[c].op = "BANK" /\ Editable(row[req[c].inv]) /\ ~line[req[c].line].matched
        /\ UNCHANGED <<row, req, line>> /\ seen' = [seen EXCEPT ![c] = row[req[c].inv]]
        /\ \E step \in {"ready", "again"} : pc' = [pc EXCEPT ![c] = step]
    BY <1>0, <1>13 DEF FindPayable, FindLeft
  <2>2. QED
    BY <1>0, <2>1 DEF Admissible
<1>14. QED
  BY <1>2, <1>5, <1>6, <1>7, <1>8, <1>9, <1>10, <1>11, <1>12, <1>13
  DEF Step, Single, Multi, Sign, CommitSent, CommitPaid, CommitNothingLeft, CommitPay,
      MatchPaid, CommitMatch, CommitMulti, CreatePending, Abort, Finish

\* A signature is completed by the session that was created last, and only once.
LEMMA SignStep ==
  ASSUME SerialInv, NEW c \in Clients, Step(c)
  PROVE  SignaturesOnce'
<1>0. TypeInv /\ SignaturesOnce /\ sig \in [Invoices -> [pending : Nat, completed : Nat]]
  BY DEF SerialInv, SettlementInv, RevenueInv, TypeInv, TypeOK
<1>1. ASSUME UNCHANGED sig PROVE SignaturesOnce'
  BY <1>0, <1>1 DEF SignaturesOnce
<1>2. ASSUME DropPending(c) PROVE SignaturesOnce'
  <2>1. req[c].inv \in Invoices
    BY <1>2 DEF DropPending, SerialInv, ReadsFresh
  <2>2. sig' = [sig EXCEPT ![req[c].inv] = [sig[req[c].inv] EXCEPT !.pending = 0]]
    BY <1>0, <1>2, <2>1 DEF DropPending
  <2>3. QED
    BY <1>0, <2>1, <2>2 DEF SignaturesOnce
<1>3. ASSUME CreatePending(c) PROVE SignaturesOnce'
  <2> DEFINE i == req[c].inv
  <2>1. i \in Invoices /\ sig[i].pending = 0 /\ sig[i].completed = 0
    BY <1>3 DEF CreatePending, SerialInv, ReadsFresh
  <2>2. sig' = [sig EXCEPT ![i] = [pending |-> 1, completed |-> 0]]
    BY <1>0, <1>3, <2>1 DEF CreatePending
  <2>3. QED
    BY <1>0, <2>1, <2>2 DEF SignaturesOnce
<1>4. ASSUME NEW i \in Invoices, PollSignature(c, i) PROVE SignaturesOnce'
  <2>1. sig[i].pending = 1 /\ sig[i].completed = 0
    BY <1>0, <1>4 DEF PollSignature, SignaturesOnce
  <2>2. sig' = [sig EXCEPT ![i] = [pending |-> 0, completed |-> 1]]
    BY <1>0, <1>4, <2>1 DEF PollSignature
  <2>3. QED
    BY <1>0, <2>2 DEF SignaturesOnce
<1>5. QED
  BY <1>1, <1>2, <1>3, <1>4
  DEF Step, Accept, Single, Multi, Sign, CommitSent, CommitPaid, CommitNothingLeft, CommitPay,
      MatchPaid, CommitMatch, CommitMulti, Abort, AcceptStatus, AcceptPay,
      AcceptAlloc, AcceptMatch, AcceptNetting, AcceptSignature, ReadInvoice, FindInvoice, FindPayable,
      FindLeft, RefreshPaid, ReadOpen, ReadBucket, WriteBucket

\* confirmMatch ties the line that it books.
LEMMA LineStep ==
  ASSUME SerialInv, NEW c \in Clients, Step(c)
  PROVE  LineBookedOnce'
<1>0. TypeInv /\ LineBookedOnce /\ line \in [Lines -> [matched : BOOLEAN, booked : Nat]]
  BY DEF SerialInv, SettlementInv, RevenueInv, TypeInv, TypeOK
<1>1. ASSUME UNCHANGED line PROVE LineBookedOnce'
  BY <1>0, <1>1 DEF LineBookedOnce
<1>2. ASSUME MatchPaid(c) PROVE LineBookedOnce'
  BY <1>0, <1>2 DEF MatchPaid, LineBookedOnce
<1>3. ASSUME CommitMatch(c) PROVE LineBookedOnce'
  <2> DEFINE l == req[c].line
  <2>1. l \in Lines /\ ~line[l].matched
    BY <1>0, <1>3 DEF CommitMatch, Ready, SerialInv, ReadsFresh, TypeInv, SessionOK
  <2>2. line[l].booked = 0
    BY <1>0, <2>1 DEF LineBookedOnce
  <2>3. line' = [line EXCEPT ![l] = [matched |-> TRUE, booked |-> 1]]
    BY <1>0, <1>3, <2>1, <2>2 DEF CommitMatch
  <2>4. QED
    BY <1>0, <2>1, <2>3 DEF LineBookedOnce
<1>4. QED
  BY <1>1, <1>2, <1>3
  DEF Step, Accept, Single, Multi, Sign, CommitSent, CommitPaid, CommitNothingLeft, CommitPay,
      CommitMulti, Abort, AcceptStatus, AcceptPay, DropPending, CreatePending, PollSignature,
      AcceptAlloc, AcceptMatch, AcceptNetting, AcceptSignature, ReadInvoice, FindInvoice, FindPayable,
      FindLeft, RefreshPaid, ReadOpen, ReadBucket, WriteBucket

\* A commit posts revenue exactly if the committed row was not recognized.
LEMMA OnceStep ==
  ASSUME SerialInv, NEW c \in Clients, Step(c)
  PROVE  RevenueOnce'
<1> DEFINE Sum == SumOver(Total, Recognized)
<1>0. /\ TypeInv /\ StepKind(c) /\ row \in [Invoices -> Row] /\ books \in Books
      /\ books.dr211 = Sum
  BY StepKinds DEF SerialInv, SettlementInv, RevenueInv, TypeInv, TypeOK, RevenueOnce, Recognized
<1>1. SUFFICES books'.dr211 = SumOver(Total, Recognized')
  BY <1>1 DEF RevenueOnce, Recognized
<1>2. ASSUME \A k \in Invoices : row'[k].recognized <=> row[k].recognized,
             books'.dr211 = books.dr211
      PROVE  books'.dr211 = SumOver(Total, Recognized')
  BY <1>0, <1>2, RecognizedSame
<1>3. ASSUME NEW i \in Invoices, NEW x, NEW over, NEW acct, NEW mirror, NEW posted,
             OneCommit(c, i, x, over, acct, mirror, posted)
      PROVE  books'.dr211 = SumOver(Total, Recognized')
  <2>1. row'[i].recognized /\ \A k \in Invoices \ {i} : row'[k] = row[k]
    BY <1>0, <1>3 DEF OneCommit, Commits
  <2>2. seen[c] = row[i]
    BY <1>3 DEF OneCommit, SerialInv, ReadsFresh
  <2>3. /\ posted <=> ~row[i].recognized
        /\ books'.dr211 = books.dr211 + (IF posted THEN Total[i] ELSE 0)
        /\ Total[i] \in Nat
    BY <1>3, <2>2, ReceivablesAssumption DEF OneCommit, Commits, Entries
  <2>4. SumOver(Total, Recognized') =
         SumOver(Total, Recognized) + IF row[i].recognized THEN 0 ELSE Total[i]
    BY <1>0, <2>1, RecognizedSum
  <2>5. QED
    BY <1>0, <2>3, <2>4
<1>4. ASSUME CommitMulti(c) PROVE books'.dr211 = SumOver(Total, Recognized')
  BY <1>2, <1>4, MultiCommits DEF SerialInv
<1>5. ASSUME NEW i \in Invoices, PollSignature(c, i) PROVE books'.dr211 = SumOver(Total, Recognized')
  BY <1>0, <1>2, <1>5, PollKeeps
<1>6. QED
  BY <1>0, <1>2, <1>3, <1>4, <1>5 DEF StepKind, MatchPaid

\* The invariant holds at first.
LEMMA SerialInit == Init => SerialInv
<1> SUFFICES ASSUME Init PROVE SerialInv
  OBVIOUS
<1>1. \A c \in Clients : pc[c] = "idle"
  BY DEF Init
<1>2. SignaturesOnce /\ LineBookedOnce
  BY DEF Init, SignaturesOnce, LineBookedOnce
<1>3. RevenueOnce
  <2>1. Recognized = {}
    BY DEF Init, NewRow, Recognized
  <2>2. SumOver(Total, Recognized) = 0
    BY <2>1, SumEmpty, Zenon
  <2>3. QED
    BY <2>2 DEF Init, RevenueOnce, Recognized
<1>4. QED
  BY <1>1, <1>2, <1>3, SettlementInit DEF SerialInv, ReadsFresh

\* Every step keeps it.
LEMMA SerialStep == ASSUME OneClient PROVE SerialInv /\ [Next]_vars => SerialInv'
<1> SUFFICES ASSUME SerialInv, [Next]_vars PROVE SerialInv'
  OBVIOUS
<1>1. SettlementInv' /\ TypeInv'
  BY SettlementStep DEF SerialInv, SettlementInv, RevenueInv
<1>2. CASE UNCHANGED vars
  BY <1>1, <1>2 DEF vars, SerialInv, ReadsFresh, SignaturesOnce, LineBookedOnce, RevenueOnce
<1>3. CASE Next
  <2>1. PICK c \in Clients : Step(c)
    BY <1>3 DEF Next, Step
  <2>2. QED
    BY <1>1, <2>1, FreshStep, SignStep, LineStep, OnceStep DEF SerialInv
<1>4. QED
  BY <1>2, <1>3

\* One request at a time never posts the revenue of an invoice twice.
THEOREM RevenuePostedOnce == ASSUME OneClient PROVE Spec => []RevenueOnce
<1>1. SerialInv => RevenueOnce
  BY DEF SerialInv
<1>2. QED
  BY <1>1, SerialInit, SerialStep, PTL DEF Spec

\* One request at a time books a bank line at most once, and matches it then.
THEOREM LinesBookedOnce == ASSUME OneClient PROVE Spec => []LineBookedOnce
<1>1. SerialInv => LineBookedOnce
  BY DEF SerialInv
<1>2. QED
  BY <1>1, SerialInit, SerialStep, PTL DEF Spec

\* One request at a time leaves at most one completed signature on an invoice, though
\* sessions may be abandoned half-made and polled between any two requests.
THEOREM SignaturesCompleteOnce == ASSUME OneClient PROVE Spec => []SignedOnce
<1>1. SerialInv => SignedOnce
  BY DEF SerialInv, SignaturesOnce, SignedOnce
<1>2. QED
  BY <1>1, SerialInit, SerialStep, PTL DEF Spec

-----------------------------------------------------------------------------
(* Amounts and status of an invoice, where nothing is netted *)

\* createNetting is not offered: it books payment rows that paidAmount does not count.
NoNetting == "NET" \notin Requests

\* The amounts and the status of an invoice row agree.
Sound(i, r) ==
  /\ r.paid = r.rows /\ 0 <= r.rows /\ r.rows <= Total[i] /\ r.status # "CANCELLED"
  /\ r.status = "DRAFT" => r.rows = 0 /\ ~r.recognized
  /\ r.status = "SENT" => r.rows = 0 /\ r.recognized
  /\ r.status = "PARTIALLY_PAID" => r.rows > 0 /\ r.rows < Total[i] /\ r.recognized
  /\ r.status = "PAID" => r.rows = Total[i] /\ r.received /\ r.recognized
  /\ r.received => r.rows = Total[i]

\* Nobody has signed the invoice.
Unsigned(r) == r.status # "LOCKED_BY_SIGNATURE"

\* A row that follows r when a payment or a status is committed.
Advances(i, r, new) ==
  new \in Row /\ Sound(i, new) /\ new.recognized /\ Unsigned(new) /\ Unsigned(r) /\ new.rows >= r.rows

\* An allocation pays what is open, in the rows it has read.
BucketsSound ==
  \A c \in Clients, i \in Invoices :
    /\ plan[c][i] > 0 => /\ plan[c][i] = Total[i] - row[i].paid
                         /\ row[i].status \in {"SENT", "PARTIALLY_PAID", "PAID"}
    /\ mine[c][i] # None => Advances(i, row[i], mine[c][i])
    /\ pc[c] = "fresh" /\ Turn(c, i) => seen[c] = row[i]

\* The committed rows are sound.
RowsSound == \A i \in Invoices : Sound(i, row[i])

\* The invariant of amounts and statuses.
MoneyInv == SerialInv /\ OffersOnly /\ RowsSound /\ BucketsSound

\* A row whose state derivePaymentState has just computed.
LEMMA DerivedSound ==
  ASSUME NEW i \in Invoices, NEW new \in Row, NEW st \in Statuses,
         st \notin {"LOCKED_BY_SIGNATURE", "CANCELLED"},
         new.paid = new.rows, 0 <= new.rows, new.rows <= Total[i], new.recognized,
         new.status = NextStatus(Total[i], new.paid, st), new.received = (new.paid >= Total[i]),
         new.rows > 0 \/ new.rows = Total[i]
  PROVE  Sound(i, new) /\ Unsigned(new)
<1>1. Total[i] \in Nat /\ new.rows \in Int /\ new.paid \in Int
  BY ReceivablesAssumption DEF Row
<1>2. CASE new.rows = Total[i]
  <2>1. new.status = "PAID" /\ new.received
    BY <1>1, <1>2 DEF NextStatus
  <2>2. QED
    BY <1>1, <1>2, <2>1 DEF Sound, Unsigned
<1>3. CASE new.rows # Total[i]
  <2>0. new.paid < Total[i] /\ new.paid > 0 /\ ~(new.paid >= Total[i])
    BY <1>1, <1>3
  <2>1. new.status = "PARTIALLY_PAID" /\ ~new.received
    <3>1. ~new.received
      BY <2>0, Zenon
    <3>2. NextStatus(Total[i], new.paid, st) = "PARTIALLY_PAID"
      BY <2>0 DEF NextStatus
    <3>3. QED
      BY <3>1, <3>2
  <2>2. QED
    BY <1>1, <1>3, <2>1 DEF Sound, Unsigned
<1>4. QED
  BY <1>2, <1>3

\* A row to which a payment of x is added.
LEMMA PaidAdvances ==
  ASSUME NEW i \in Invoices, NEW r \in Row, NEW base \in Row, NEW x \in Nat, x > 0,
         r.paid = r.rows, 0 <= r.rows, Unsigned(r),
         base.paid = r.paid, base.rows = r.rows, base.status \notin {"LOCKED_BY_SIGNATURE", "CANCELLED"},
         r.rows + x <= Total[i],
         NEW new \in Row, new.paid = r.paid + x, new.rows = r.rows + x, new.recognized,
         new.status = NextStatus(Total[i], base.paid + x, base.status),
         new.received = (base.paid + x >= Total[i])
  PROVE  Advances(i, r, new)
<1>1. /\ r.rows \in Int /\ new.rows \in Int /\ Total[i] \in Nat /\ base.status \in Statuses
      /\ new.paid = new.rows /\ new.rows > 0 /\ 0 <= new.rows /\ new.rows <= Total[i]
      /\ base.paid + x = new.paid /\ new.rows >= r.rows
  BY ReceivablesAssumption DEF Row
<1>2. Sound(i, new) /\ Unsigned(new)
  BY <1>1, DerivedSound
<1>3. QED
  BY <1>1, <1>2 DEF Advances

\* Every commit of a single request advances the row of its invoice.
LEMMA CommitsAdvance ==
  ASSUME MoneyInv, NEW c \in Clients,
         CommitSent(c) \/ CommitPaid(c) \/ CommitNothingLeft(c) \/ CommitPay(c) \/ CommitMatch(c)
  PROVE  \E i \in Invoices, new \in Row : row' = [row EXCEPT ![i] = new] /\ Advances(i, row[i], new)
<1> DEFINE i == req[c].inv
           r == row[i]
           Goal == \E new \in Row : row' = [row EXCEPT ![i] = new] /\ Advances(i, r, new)
<1>0. /\ TypeInv /\ row \in [Invoices -> Row]
      /\ i \in Invoices /\ r \in Row /\ seen[c] = r /\ Sound(i, r) /\ Editable(r)
      /\ r.paid \in Int /\ r.rows \in Int /\ Total[i] \in Nat
      /\ pc[c] = "ready" => Admissible(req[c], r)
  <2>1. TypeInv
    BY DEF MoneyInv, SerialInv, SettlementInv, RevenueInv
  <2>2. i \in Invoices
    BY <2>1 DEF TypeInv, SessionOK, CommitSent, CommitPaid, CommitNothingLeft, CommitPay, CommitMatch, Ready
  <2>3. seen[c] = r /\ Editable(r) /\ (pc[c] = "ready" => Admissible(req[c], r))
    BY DEF MoneyInv, SerialInv, ReadsFresh, CommitSent, CommitPaid, CommitNothingLeft, CommitPay,
       CommitMatch, Ready, Admissible
  <2>4. QED
    BY <2>1, <2>2, <2>3, ReceivablesAssumption DEF MoneyInv, RowsSound, TypeInv, TypeOK, Row
<1>1. Unsigned(r) /\ r.status \notin {"LOCKED_BY_SIGNATURE", "CANCELLED"} /\ r.paid = r.rows /\ 0 <= r.rows
      /\ r.rows <= Total[i]
  BY <1>0 DEF Editable, Unsigned, Sound
<1>2. CASE CommitSent(c)
  <2> DEFINE new == [r EXCEPT !.status = "SENT", !.recognized = TRUE]
  <2>1. row' = [row EXCEPT ![i] = new]
    BY <1>0, <1>2 DEF CommitSent
  <2>2. r.paid <= 0
    BY <1>0, <1>2 DEF CommitSent, Ready, Admissible
  <2>3. /\ new \in Row /\ new.status = "SENT" /\ new.recognized /\ new.paid = r.paid
        /\ new.rows = r.rows /\ new.received = r.received
    BY <1>0 DEF Row, Statuses
  <2> HIDE DEF new
  <2>4. Sound(i, new)
    BY <1>0, <1>1, <2>2, <2>3 DEF Sound
  <2>5. Advances(i, r, new)
    <3>1. new.rows >= r.rows /\ Unsigned(new)
      BY <1>0, <2>3 DEF Unsigned
    <3> HIDE DEF i, r
    <3>2. QED
      BY <1>1, <2>3, <2>4, <3>1 DEF Advances
  <2>6. QED
    BY <1>0, <2>1, <2>3, <2>5
<1>3. CASE CommitPaid(c)
  <2> DEFINE left == Total[i] - r.paid
             w == Paid(i, r, left)
             new == [w EXCEPT !.recognized = TRUE]
  <2>1. row' = [row EXCEPT ![i] = new] /\ left > 0
    BY <1>0, <1>3 DEF CommitPaid
  <2>2. left \in Nat /\ r.rows + left <= Total[i] /\ left \in Int
    BY <1>0, <1>1, <2>1
  <2> HIDE DEF left
  <2>3. /\ w \in Row /\ w.paid = r.paid + left /\ w.rows = r.rows + left
        /\ w.status = NextStatus(Total[i], r.paid + left, r.status)
        /\ w.received = (r.paid + left >= Total[i])
    BY <1>0, <2>2, PaidFields
  <2> HIDE DEF w
  <2>4. /\ new \in Row /\ new.paid = w.paid /\ new.rows = w.rows /\ new.recognized
        /\ new.status = w.status /\ new.received = w.received
    BY <2>3, MarkedRow
  <2> HIDE DEF new
  <2>5. Advances(i, r, new)
    <3> HIDE DEF i, r
    <3>1. QED
      BY <1>0, <1>1, <2>1, <2>2, <2>3, <2>4, PaidAdvances
  <2>6. QED
    BY <1>0, <2>1, <2>4, <2>5
<1>4. CASE CommitNothingLeft(c)
  <2> DEFINE w == WithState(i, r, r.paid, r.status)
             new == [w EXCEPT !.recognized = TRUE]
  <2>1. row' = [row EXCEPT ![i] = new]
    BY <1>0, <1>4 DEF CommitNothingLeft
  <2>2. Total[i] <= r.paid
    BY <1>0, <1>4 DEF CommitNothingLeft, MoneyInv, SerialInv, ReadsFresh
  <2>3. /\ w \in Row /\ w.paid = r.paid /\ w.rows = r.rows
        /\ w.status = NextStatus(Total[i], r.paid, r.status)
        /\ w.received = (r.paid >= Total[i])
    BY <1>0, WithStateFields DEF Row
  <2> HIDE DEF w
  <2>4. /\ new \in Row /\ new.paid = w.paid /\ new.rows = w.rows /\ new.recognized
        /\ new.status = w.status /\ new.received = w.received
    BY <2>3, MarkedRow
  <2> HIDE DEF new
  <2>5. Sound(i, new) /\ Unsigned(new)
    <3>1. r.status \in Statuses /\ new.rows = Total[i]
      BY <1>0, <1>1, <2>2, <2>3, <2>4 DEF Row
    <3> HIDE DEF i, r
    <3>2. QED
      BY <1>0, <1>1, <2>3, <2>4, <3>1, DerivedSound
  <2>6. Advances(i, r, new)
    <3>1. new.rows >= r.rows
      BY <1>0, <2>3, <2>4
    <3> HIDE DEF i, r
    <3>2. QED
      BY <1>1, <2>4, <2>5, <3>1 DEF Advances
  <2>7. QED
    BY <1>0, <2>1, <2>4, <2>6
<1>5. CASE CommitPay(c)
  <2> DEFINE left == Total[i] - r.paid
             x == PayablePart(req[c].amt, left)
             new == Paid(i, r, x)
  <2>1. /\ row' = [row EXCEPT ![i] = new]
        /\ r.recognized /\ Payment(i, req[c].amt, left) /\ req[c].amt \in Nat /\ left \in Int
    BY <1>0, <1>5 DEF CommitPay, Ready, Admissible, TypeInv, TypeOK, Request
  <2>2. x \in Nat /\ x > 0 /\ x \in Int /\ x <= left
    <3> HIDE DEF left
    <3>1. QED
      BY <2>1 DEF Payment, PayablePart, Lesser
  <2>3. r.rows + x <= Total[i]
    <3> HIDE DEF x
    <3>1. QED BY <1>0, <1>1, <2>2
  <2> HIDE DEF x, left
  <2>4. /\ new \in Row /\ new.paid = r.paid + x /\ new.rows = r.rows + x /\ new.recognized
        /\ new.status = NextStatus(Total[i], r.paid + x, r.status)
        /\ new.received = (r.paid + x >= Total[i])
    <3>1. i \in Invoices /\ r \in Row /\ x \in Int /\ r.recognized
      BY <1>0, <2>1, <2>2
    <3> HIDE DEF i, r
    <3>2. QED
      BY <3>1, PaidFields
  <2> HIDE DEF new
  <2>5. Advances(i, r, new)
    <3> HIDE DEF i, r
    <3>1. QED
      BY <1>0, <1>1, <2>2, <2>3, <2>4, PaidAdvances
  <2>6. QED
    BY <1>0, <2>1, <2>4, <2>5
<1>6. CASE CommitMatch(c)
  <2> DEFINE l == req[c].line
             base == IF r.recognized THEN r ELSE [r EXCEPT !.recognized = TRUE, !.status = "SENT"]
             left == Total[i] - r.paid
             x == PayablePart(LineAmount[l], left)
             new == Paid(i, base, x)
  <2>0. (IF r.recognized THEN r.paid ELSE r.paid) = r.paid
    OBVIOUS
  <2>1. /\ row' = [row EXCEPT ![i] = new] /\ Payment(i, LineAmount[l], left)
        /\ l \in Lines /\ LineAmount[l] \in Nat /\ left \in Int
    <3>1. l \in Lines /\ LineAmount[l] \in Nat
      BY <1>0, <1>6, ReceivablesAssumption DEF CommitMatch, Ready, TypeInv, SessionOK
    <3>2. left = Total[i] - (IF seen[c].recognized THEN seen[c].paid ELSE row[i].paid)
      BY <1>0, <2>0
    <3>3. base = IF seen[c].recognized THEN row[i]
                 ELSE [row[i] EXCEPT !.recognized = TRUE, !.status = "SENT"]
      BY <1>0
    <3>4. left \in Int
      BY <1>0
    <3> HIDE DEF left, base
    <3>5. QED
      BY <1>6, <3>1, <3>2, <3>3, <3>4 DEF CommitMatch
  <2>2. x \in Nat /\ x > 0 /\ x \in Int /\ x <= left
    <3> HIDE DEF left
    <3>1. QED
      BY <2>1 DEF Payment, PayablePart, Lesser
  <2>3. r.rows + x <= Total[i]
    <3> HIDE DEF x
    <3>1. QED BY <1>0, <1>1, <2>2
  <2> HIDE DEF x, left
  <2>4. /\ base \in Row /\ base.recognized /\ base.paid = r.paid /\ base.rows = r.rows
        /\ base.status \notin {"LOCKED_BY_SIGNATURE", "CANCELLED"}
    BY <1>0, <1>1 DEF Row, Statuses
  <2> HIDE DEF base
  <2>5. /\ new \in Row /\ new.paid = r.paid + x /\ new.rows = r.rows + x /\ new.recognized
        /\ new.status = NextStatus(Total[i], base.paid + x, base.status)
        /\ new.received = (base.paid + x >= Total[i])
    <3>1. i \in Invoices /\ base \in Row /\ x \in Int
      BY <1>0, <2>2, <2>4
    <3> HIDE DEF i, r
    <3>2. QED
      BY <2>4, <3>1, PaidFields
  <2> HIDE DEF new
  <2>6. Advances(i, r, new)
    <3> HIDE DEF i, r
    <3>1. QED
      BY <1>0, <1>1, <2>2, <2>3, <2>4, <2>5, PaidAdvances
  <2>7. QED
    BY <1>0, <2>1, <2>5, <2>6
<1>7. QED
  BY <1>0, <1>2, <1>3, <1>4, <1>5, <1>6

\* Only one invoice is next in FIFO order.
LEMMA OneTurn ==
  ASSUME NEW c \in Clients, NEW i \in Invoices, NEW j \in Invoices, Turn(c, i), Turn(c, j)
  PROVE  i = j
<1>1. i \in Todo(c) /\ j \in Todo(c) /\ Rank[i] <= Rank[j] /\ Rank[j] <= Rank[i]
  BY DEF Turn
<1>2. Rank[i] \in Nat /\ Rank[j] \in Nat
  BY ReceivablesAssumption
<1>3. Rank[i] = Rank[j]
  BY <1>1, <1>2
<1>4. QED
  BY <1>3, ReceivablesAssumption

\* The row version an allocation writes advances the committed row.
LEMMA WriteAdvances ==
  ASSUME NoNetting, MoneyInv, NEW c \in Clients, NEW i \in Invoices, WriteBucket(c, i)
  PROVE  \E new \in Row : mine' = [mine EXCEPT ![c][i] = new] /\ Advances(i, row[i], new)
<1> DEFINE x == Bucket(plan[c][i], unspent[c])
           r == row[i]
<1>0. TypeInv /\ SessionShape /\ OffersOnly /\ WrittenRows
  BY DEF MoneyInv, SerialInv, SettlementInv, RevenueInv
<1>1. /\ plan[c][i] > 0 /\ pc[c] = "fresh" /\ Turn(c, i)
  BY DEF WriteBucket, Turn, Todo
<1>2. req[c].op = "ALLOC"
  <2>1. plan[c] # NoPlan
    BY <1>1 DEF NoPlan
  <2>2. req[c].op \in SeveralRequests
    BY <1>0, <2>1 DEF SessionShape, Several
  <2>3. QED
    BY <1>0, <2>2, ReceivablesAssumption DEF OffersOnly, NoNetting, SeveralRequests, AllRequests
<1>3. /\ plan[c][i] = Total[i] - r.paid /\ r.status \in {"SENT", "PARTIALLY_PAID", "PAID"}
      /\ seen[c] = r /\ Sound(i, r) /\ r \in Row
  BY <1>0, <1>1 DEF MoneyInv, RowsSound, BucketsSound, TypeInv, TypeOK
<1>4. r.recognized /\ Unsigned(r) /\ r.paid = r.rows /\ 0 <= r.rows
  BY <1>3 DEF Sound, Unsigned
<1>5. x \in Nat /\ x > 0 /\ x <= plan[c][i]
  BY <1>0, BucketWrites
<1>6. PICK new \in Row : /\ mine' = [mine EXCEPT ![c][i] = new]
                         /\ new.rows = r.rows + x /\ new.recognized = r.recognized
                         /\ new.paid = r.paid + x
                         /\ new.status = NextStatus(Total[i], r.paid + x, r.status)
                         /\ new.received = (r.paid + x >= Total[i])
  BY <1>0, <1>2, <1>3, BucketWrites
<1>7. Advances(i, r, new)
  <2>1. r.rows \in Int /\ r.paid \in Int /\ Total[i] \in Nat
    BY <1>3, ReceivablesAssumption DEF Row
  <2>2. r.rows + x <= Total[i]
    <3> HIDE DEF x, r
    <3>1. QED BY <1>3, <1>4, <1>5, <2>1
  <2>3. new.recognized /\ r.status \notin {"LOCKED_BY_SIGNATURE", "CANCELLED"}
    BY <1>3, <1>4, <1>6
  <2> HIDE DEF x, r
  <2>4. QED
    BY <1>3, <1>4, <1>5, <1>6, <2>2, <2>3, PaidAdvances
<1>8. QED
  BY <1>6, <1>7

\* A plan holds as long as its session: nobody else commits meanwhile.
LEMMA BucketsStep ==
  ASSUME OneClient, NoNetting, MoneyInv, NEW c \in Clients, Step(c), TypeInv'
  PROVE  BucketsSound'
<1>0. TypeInv /\ SessionShape /\ OffersOnly /\ plan \in [Clients -> [Invoices -> Nat]]
      /\ mine \in [Clients -> [Invoices -> Row \cup {None}]]
  BY DEF MoneyInv, SerialInv, SettlementInv, RevenueInv, TypeInv, TypeOK
<1>1. ASSUME plan'[c] = NoPlan, mine'[c] = NoWrites PROVE BucketsSound'
  BY <1>1 DEF OneClient, BucketsSound, NoPlan, NoWrites, Turn, Todo
<1>2. ASSUME Finish(c) PROVE BucketsSound'
  BY <1>0, <1>1, <1>2 DEF Finish
<1>3. ASSUME pc[c] \notin {"multi", "fresh"}, UNCHANGED <<plan, mine>> PROVE BucketsSound'
  BY <1>0, <1>1, <1>3 DEF SessionShape, Several
<1>4. ASSUME ReadOpen(c) PROVE BucketsSound'
  <2>1. /\ pc[c] = "begin" /\ req[c].op \in {"ALLOC", "NET"} /\ UNCHANGED <<row, mine>>
        /\ pc'[c] = "multi"
    BY <1>0, <1>4 DEF ReadOpen, TypeInv, TypeOK
  <2>2. req[c].op = "ALLOC"
    BY <1>0, <2>1, ReceivablesAssumption DEF OffersOnly, NoNetting, AllRequests
  <2>3. plan'[c] = [i \in Invoices |-> Positive(AllocOpen[i])]
    BY <1>0, <1>4, <2>2 DEF ReadOpen
  <2>4. mine[c] = NoWrites
    BY <1>0, <2>1 DEF SessionShape, Several
  <2>5. ASSUME NEW i \in Invoices, plan'[c][i] > 0
        PROVE  plan'[c][i] = Total[i] - row[i].paid /\ row[i].status \in {"SENT", "PARTIALLY_PAID", "PAID"}
    <3>1. plan'[c][i] = IF AllocOpen[i] > 0 THEN AllocOpen[i] ELSE 0
      BY <2>3 DEF Positive
    <3>2. AllocOpen[i] > 0 /\ plan'[c][i] = AllocOpen[i]
      BY <2>5, <3>1
    <3>3. AllocOpen[i] = IF row[i].recognized /\ row[i].status \in {"SENT", "PARTIALLY_PAID", "PAID"}
                         THEN Total[i] - row[i].paid ELSE 0
      BY DEF AllocOpen
    <3>4. row[i].recognized /\ row[i].status \in {"SENT", "PARTIALLY_PAID", "PAID"}
      BY <3>2, <3>3
    <3>5. QED
      BY <3>2, <3>3, <3>4, Zenon
  <2>6. QED
    BY <2>1, <2>4, <2>5 DEF OneClient, BucketsSound, NoWrites
<1>5. ASSUME NEW i \in Invoices, ReadBucket(c, i) PROVE BucketsSound'
  <2>1. /\ UNCHANGED <<row, plan, mine, unspent>> /\ seen'[c] = row[i] /\ Turn(c, i)
    BY <1>0, <1>5 DEF ReadBucket, TypeInv, TypeOK
  <2>2. ASSUME NEW j \in Invoices, Turn(c, j)' PROVE j = i
    <3>1. Turn(c, j)
      BY <2>1, <2>2 DEF Turn, Todo
    <3>2. QED
      BY <2>1, <3>1, OneTurn
  <2>3. QED
    BY <2>1, <2>2 DEF OneClient, BucketsSound, MoneyInv
<1>6. ASSUME NEW i \in Invoices, WriteBucket(c, i) PROVE BucketsSound'
  <2>1. PICK new \in Row : mine' = [mine EXCEPT ![c][i] = new] /\ Advances(i, row[i], new)
    BY <1>6, WriteAdvances
  <2>2. pc'[c] = "multi" /\ UNCHANGED <<row, plan>>
    BY <1>0, <1>6 DEF WriteBucket, TypeInv, TypeOK
  <2>3. \A j \in Invoices : mine'[c][j] = IF j = i THEN new ELSE mine[c][j]
    BY <1>0, <2>1
  <2>4. \A j \in Invoices : mine'[c][j] # None => Advances(j, row[j], mine'[c][j])
    BY <2>1, <2>3 DEF MoneyInv, BucketsSound
  <2>5. QED
    BY <2>2, <2>4 DEF OneClient, BucketsSound, MoneyInv, Advances
<1>7. ASSUME Accept(c) PROVE BucketsSound'
  <2>1. pc[c] = "idle" /\ UNCHANGED <<plan, mine>>
    BY <1>7 DEF Accept, AcceptStatus, AcceptPay, AcceptAlloc, AcceptMatch, AcceptNetting,
       AcceptSignature, Open
  <2>2. QED
    BY <1>3, <2>1
<1>8. ASSUME ReadInvoice(c) \/ FindInvoice(c) \/ FindPayable(c) \/ FindLeft(c) \/ DropPending(c)
             \/ \E i \in Invoices : PollSignature(c, i)
      PROVE  BucketsSound'
  <2>1. pc[c] \notin {"multi", "fresh"} /\ UNCHANGED <<plan, mine>>
    BY <1>8 DEF ReadInvoice, FindInvoice, FindPayable, FindLeft, DropPending, PollSignature
  <2>2. QED
    BY <1>3, <2>1
<1>9. ASSUME RefreshPaid(c) PROVE BucketsSound'
  BY <1>3, <1>9 DEF RefreshPaid
<1>10. ASSUME Abort(c) PROVE BucketsSound'
  BY <1>0, <1>1, <1>10 DEF Abort
<1>11. QED
  BY <1>2, <1>4, <1>5, <1>6, <1>7, <1>8, <1>9, <1>10
  DEF Step, Single, Multi, Sign, CommitSent, CommitPaid, CommitNothingLeft, CommitPay,
      MatchPaid, CommitMatch, CommitMulti, CreatePending

\* How a step advances the invoices: one of them is paid or changes its status, an
\* allocation pays several, or one is signed.
LEMMA RowMoves ==
  ASSUME MoneyInv, NEW c \in Clients, Step(c)
  PROVE  \/ UNCHANGED row
         \/ \E i \in Invoices, new \in Row : row' = [row EXCEPT ![i] = new] /\ Advances(i, row[i], new)
         \/ CommitMulti(c)
         \/ \E i \in Invoices : row' = [row EXCEPT ![i] = [row[i] EXCEPT !.status = "LOCKED_BY_SIGNATURE"]]
BY CommitsAdvance
DEF Step, Accept, Single, Multi, Sign, MatchPaid, CreatePending, Abort, AcceptStatus, AcceptPay,
    AcceptAlloc, AcceptMatch, AcceptNetting, AcceptSignature, ReadInvoice, FindInvoice, FindPayable,
    FindLeft, RefreshPaid, DropPending, PollSignature, Open, ReadOpen, ReadBucket, WriteBucket

\* What is committed is sound.
LEMMA RowsStep ==
  ASSUME MoneyInv, NEW c \in Clients, Step(c)
  PROVE  RowsSound'
<1>0. row \in [Invoices -> Row] /\ RowsSound
  BY DEF MoneyInv, SerialInv, SettlementInv, RevenueInv, TypeInv, TypeOK
<1>1. ASSUME NEW i \in Invoices, NEW new \in Row, row' = [row EXCEPT ![i] = new], Sound(i, new)
      PROVE  RowsSound'
  BY <1>0, <1>1 DEF RowsSound
<1>2. ASSUME CommitMulti(c) PROVE RowsSound'
  <2>1. \A i \in Invoices : row'[i] = IF mine[c][i] = None THEN row[i] ELSE mine[c][i]
    BY <1>2 DEF CommitMulti
  <2>2. \A i \in Invoices : mine[c][i] # None => Sound(i, mine[c][i])
    BY DEF MoneyInv, BucketsSound, Advances
  <2>3. QED
    BY <1>0, <2>1, <2>2 DEF RowsSound
<1>3. ASSUME NEW i \in Invoices,
             row' = [row EXCEPT ![i] = [row[i] EXCEPT !.status = "LOCKED_BY_SIGNATURE"]]
      PROVE  RowsSound'
  <2> DEFINE new == [row[i] EXCEPT !.status = "LOCKED_BY_SIGNATURE"]
  <2>1. new \in Row /\ Sound(i, new)
    BY <1>0 DEF RowsSound, Sound, Row, Statuses
  <2>2. QED
    BY <1>1, <1>3, <2>1
<1>4. UNCHANGED row => RowsSound'
  BY <1>0 DEF RowsSound
<1>5. QED
  BY <1>1, <1>2, <1>3, <1>4, RowMoves DEF Advances

\* The invariant of amounts and statuses holds at first.
LEMMA MoneyInit == Init => MoneyInv
<1> SUFFICES ASSUME Init PROVE MoneyInv
  OBVIOUS
<1>1. SerialInv
  BY SerialInit
<1>2. OffersOnly
  BY IdleTypes DEF Init, OffersOnly
<1>3. RowsSound
  BY ReceivablesAssumption DEF Init, RowsSound, Sound, NewRow
<1>4. BucketsSound
  BY DEF Init, BucketsSound, NoPlan, NoWrites
<1>5. QED
  BY <1>1, <1>2, <1>3, <1>4 DEF MoneyInv

\* Every step keeps it.
LEMMA MoneyStep == ASSUME OneClient, NoNetting PROVE MoneyInv /\ [Next]_vars => MoneyInv'
<1> SUFFICES ASSUME MoneyInv, [Next]_vars PROVE MoneyInv'
  OBVIOUS
<1>1. SerialInv' /\ TypeInv /\ TypeInv'
  BY SerialStep DEF MoneyInv, SerialInv, SettlementInv, RevenueInv
<1>2. CASE UNCHANGED vars
  BY <1>1, <1>2 DEF vars, MoneyInv, OffersOnly, RowsSound, BucketsSound, Turn, Todo
<1>3. CASE Next
  <2>1. PICK c \in Clients : Step(c)
    BY <1>3 DEF Next, Step
  <2>2. OffersOnly'
    BY <1>1, <2>1, OffersStep DEF MoneyInv
  <2>3. QED
    BY <1>1, <2>1, <2>2, BucketsStep, RowsStep DEF MoneyInv
<1>4. QED
  BY <1>2, <1>3

\* One request at a time, without nettings: the status of an invoice says how far it is paid.
THEOREM StatusIsRight == ASSUME OneClient, NoNetting PROVE Spec => []StatusFollowsMoney
<1>1. MoneyInv => StatusFollowsMoney
  BY DEF MoneyInv, RowsSound, Sound, StatusFollowsMoney
<1>2. QED
  BY <1>1, MoneyInit, MoneyStep, PTL DEF Spec

\* One request at a time, without nettings: no invoice is paid beyond its total, by single
\* payments, bank matches and allocations in any order.
THEOREM NoOverpayment == ASSUME OneClient, NoNetting PROVE Spec => []NeverOverpaid
<1>1. MoneyInv => NeverOverpaid
  BY DEF MoneyInv, RowsSound, Sound, NeverOverpaid
<1>2. QED
  BY <1>1, MoneyInit, MoneyStep, PTL DEF Spec

\* One request at a time, without nettings: paidAmount is the sum of the payments, though
\* allocatePaymentAcrossInvoices overwrites it with what it has read plus its bucket.
THEOREM AllocationsAddUp == ASSUME OneClient, NoNetting PROVE Spec => []PaidIsSumOfPayments
<1>1. MoneyInv => PaidIsSumOfPayments
  BY DEF MoneyInv, RowsSound, Sound, PaidIsSumOfPayments
<1>2. QED
  BY <1>1, MoneyInit, MoneyStep, PTL DEF Spec

\* No step takes back a payment.
LEMMA RowsGrow ==
  ASSUME MoneyInv, NEW c \in Clients, Step(c), NEW i \in Invoices
  PROVE  row'[i].rows >= row[i].rows
<1>0. row \in [Invoices -> Row] /\ row[i].rows \in Int
  BY DEF MoneyInv, SerialInv, SettlementInv, RevenueInv, TypeInv, TypeOK, Row
<1>1. row'[i] = row[i] => row'[i].rows >= row[i].rows
  BY <1>0
<1>2. ASSUME NEW k \in Invoices, NEW new \in Row, row' = [row EXCEPT ![k] = new],
             Advances(k, row[k], new)
      PROVE  row'[i].rows >= row[i].rows
  <2>1. CASE k = i
    BY <1>0, <1>2, <2>1 DEF Advances
  <2>2. CASE k # i
    BY <1>0, <1>1, <1>2, <2>2
  <2>3. QED
    BY <2>1, <2>2
<1>3. ASSUME CommitMulti(c) PROVE row'[i].rows >= row[i].rows
  <2>1. row'[i] = IF mine[c][i] = None THEN row[i] ELSE mine[c][i]
    BY <1>3 DEF CommitMulti
  <2>2. mine[c][i] # None => mine[c][i].rows >= row[i].rows
    BY DEF MoneyInv, BucketsSound, Advances
  <2>3. QED
    BY <1>1, <2>1, <2>2
<1>4. ASSUME NEW k \in Invoices,
             row' = [row EXCEPT ![k] = [row[k] EXCEPT !.status = "LOCKED_BY_SIGNATURE"]]
      PROVE  row'[i].rows >= row[i].rows
  <2>1. row'[i].rows = row[i].rows
    BY <1>0, <1>4 DEF Row
  <2>2. QED
    BY <1>0, <2>1
<1>5. QED
  BY <1>1, <1>2, <1>3, <1>4, RowMoves

-----------------------------------------------------------------------------
(* The rounding difference of a foreign-currency invoice closes it *)

\* Foreign-currency invoices with nothing left to pay.
Closed == {i \in Foreign : row[i].rows >= Total[i]}

\* Every gain so far has closed an invoice.
RoundingInv == MoneyInv /\ books.gain <= Tolerance * Cardinality(Closed)

\* An excess over what is left is a rounding difference, and nothing is left then.
LEMMA ExcessCloses ==
  ASSUME NEW i \in Invoices, NEW a \in Nat, NEW left \in Int, Payment(i, a, left),
         a - PayablePart(a, left) # 0
  PROVE  i \in Foreign /\ a - PayablePart(a, left) <= Tolerance /\ PayablePart(a, left) = left
         /\ left > 0
<1>1. a > left /\ PayablePart(a, left) = left
  BY DEF PayablePart, Lesser
<1>2. QED
  BY <1>1 DEF Payment, MayRound

\* A gain is booked only when a foreign-currency invoice is closed, and is within
\* the tolerance.
LEMMA Gains ==
  ASSUME MoneyInv, NEW c \in Clients, Step(c)
  PROVE  \/ books'.gain = books.gain
         \/ \E i \in Foreign, over \in Int :
              /\ over <= Tolerance /\ books'.gain = books.gain + over
              /\ ~(row[i].rows >= Total[i]) /\ row'[i].rows >= Total[i]
<1> DEFINE Goal == \/ books'.gain = books.gain
                   \/ \E i \in Foreign, over \in Int :
                        /\ over <= Tolerance /\ books'.gain = books.gain + over
                        /\ ~(row[i].rows >= Total[i]) /\ row'[i].rows >= Total[i]
<1>0. /\ TypeInv /\ books \in Books /\ books.gain \in Int /\ row \in [Invoices -> Row]
      /\ ReadsFresh /\ RowsSound /\ SessionsRecognized
  BY DEF MoneyInv, SerialInv, SettlementInv, RevenueInv, TypeInv, TypeOK, Books
<1>1. ASSUME NEW i \in Invoices, NEW x, NEW acct, NEW mirror, NEW posted,
             Commits(c, i, x, 0, acct, mirror, posted)
      PROVE  Goal
  BY <1>0, <1>1 DEF Commits, Entries
<1>2. ASSUME NEW i \in Invoices, NEW a \in Nat, NEW acct, NEW mirror, NEW posted, NEW left \in Int,
             left = Total[i] - row[i].paid, Payment(i, a, left),
             Commits(c, i, PayablePart(a, left), a - PayablePart(a, left), acct, mirror, posted)
      PROVE  Goal
  <2> DEFINE x == PayablePart(a, left)
             over == a - x
  <2>1. x \in Int /\ over \in Int
    BY DEF PayablePart, Lesser
  <2>2. /\ books'.gain = books.gain + over
        /\ \E new \in Row : row' = [row EXCEPT ![i] = new] /\ new.rows = row[i].rows + x
    BY <1>2 DEF Commits, Entries
  <2>3. CASE over = 0
    BY <1>0, <2>2, <2>3
  <2>4. CASE over # 0
    <3>1. i \in Foreign /\ over <= Tolerance /\ x = left /\ left > 0
      BY <1>2, <2>4, ExcessCloses
    <3>2. row[i].rows = row[i].paid /\ row[i].rows \in Int /\ Total[i] \in Nat
      BY <1>0, ReceivablesAssumption DEF RowsSound, Sound, Row
    <3>3. row'[i].rows = row[i].rows + x
      BY <1>0, <2>2
    <3>4. ~(row[i].rows >= Total[i]) /\ row'[i].rows >= Total[i]
      <4> HIDE DEF x
      <4>1. QED BY <1>2, <3>1, <3>2, <3>3
    <3> HIDE DEF over
    <3>5. QED
      BY <2>1, <2>2, <3>1, <3>4
  <2>5. QED
    BY <2>3, <2>4
<1>3. ASSUME UNCHANGED books PROVE Goal
  BY <1>3
<1>4. CommitSent(c) => Goal
  BY <1>0, <1>1, SentCommits
<1>5. ASSUME CommitPaid(c) PROVE Goal
  BY <1>0, <1>1, <1>5, PaidCommits
<1>6. CommitNothingLeft(c) => Goal
  BY <1>0, <1>1, NothingLeftCommits
<1>7. ASSUME CommitPay(c) PROVE Goal
  <2> DEFINE i == req[c].inv
             left == Total[i] - seen[c].paid
  <2>1. /\ i \in Invoices /\ seen[c] = row[i] /\ seen[c].recognized /\ req[c].amt \in Nat
        /\ Payment(i, req[c].amt, left)
    BY <1>0, <1>7 DEF CommitPay, Ready, Admissible, ReadsFresh, TypeInv, TypeOK, SessionOK, Request
  <2>2. left \in Int /\ left = Total[i] - row[i].paid
    BY <1>0, <2>1, ReceivablesAssumption DEF Row
  <2>3. Commits(c, i, PayablePart(req[c].amt, left), req[c].amt - PayablePart(req[c].amt, left),
                req[c].acct, TRUE, FALSE)
    BY <1>0, <1>7, <2>1, PayCommits
  <2> HIDE DEF left, i
  <2>4. QED
    BY <1>2, <2>1, <2>2, <2>3
<1>8. ASSUME CommitMatch(c) PROVE Goal
  <2> DEFINE i == req[c].inv
             l == req[c].line
             left == Total[i] - (IF seen[c].recognized THEN seen[c].paid ELSE row[i].paid)
             x == PayablePart(LineAmount[l], left)
  <2>1. /\ seen[c] = row[i] /\ Payment(i, LineAmount[l], left)
    BY <1>0, <1>8 DEF CommitMatch, Ready, ReadsFresh
  <2>2. /\ i \in Invoices /\ left \in Int /\ LineAmount[l] \in Nat
        /\ Commits(c, i, x, LineAmount[l] - x, DebitAccount[i], FALSE, ~seen[c].recognized)
    BY <1>0, <1>8, <2>1, MatchCommits
  <2>3. left = Total[i] - row[i].paid
    BY <2>1
  <2> HIDE DEF left, i
  <2>4. QED
    BY <1>2, <2>1, <2>2, <2>3
<1>9. ASSUME CommitMulti(c) PROVE Goal
  <2>1. books'.gain = books.gain
    BY <1>0, <1>9 DEF CommitMulti, Books
  <2>2. QED
    BY <2>1
<1>10. QED
  BY <1>3, <1>4, <1>5, <1>6, <1>7, <1>8, <1>9
  DEF Step, Accept, Single, Multi, Sign, MatchPaid, CreatePending, Abort, AcceptStatus, AcceptPay,
      AcceptAlloc, AcceptMatch, AcceptNetting, AcceptSignature, ReadInvoice, FindInvoice, FindPayable,
      FindLeft, RefreshPaid, DropPending, PollSignature, Open, ReadOpen, ReadBucket, WriteBucket

\* A gain closes one more invoice, and no invoice is opened again.
LEMMA RoundingStep ==
  ASSUME RoundingInv, NEW c \in Clients, Step(c), TypeInv'
  PROVE  books'.gain <= Tolerance * Cardinality(Closed')
<1> DEFINE m == Cardinality(Closed)
           n == Cardinality(Closed')
<1>0. /\ MoneyInv /\ books.gain <= Tolerance * m /\ Tolerance \in Nat /\ books.gain \in Int
      /\ books'.gain \in Int
  BY ReceivablesAssumption DEF RoundingInv, MoneyInv, SerialInv, SettlementInv, RevenueInv,
     TypeInv, TypeOK, Books
<1>1. IsFiniteSet(Foreign) /\ Closed \subseteq Foreign /\ Closed' \subseteq Foreign
  BY ReceivablesAssumption, FS_Subset DEF Closed
<1>2. IsFiniteSet(Closed) /\ IsFiniteSet(Closed') /\ m \in Nat /\ n \in Nat
  BY <1>1, FS_Subset, FS_CardinalityType
<1>3. Closed \subseteq Closed'
  <2>1. ASSUME NEW i \in Foreign, row[i].rows >= Total[i] PROVE row'[i].rows >= Total[i]
    <3>1. i \in Invoices /\ Total[i] \in Int
      BY ReceivablesAssumption
    <3>2. row[i].rows \in Int /\ row'[i].rows \in Int
      BY <3>1 DEF RoundingInv, MoneyInv, SerialInv, SettlementInv, RevenueInv, TypeInv, TypeOK, Row
    <3>3. QED
      BY <1>0, <2>1, <3>1, <3>2, RowsGrow
  <2>2. QED
    BY <2>1 DEF Closed
<1>4. m <= n
  BY <1>2, <1>3, FS_Subset
<1>5. CASE books'.gain = books.gain
  <2> HIDE DEF m, n
  <2>1. Tolerance * m <= Tolerance * n
    BY <1>0, <1>2, <1>4
  <2>2. Tolerance * m \in Int /\ Tolerance * n \in Int
    BY <1>0, <1>2
  <2>3. books'.gain <= Tolerance * n
    BY <1>0, <1>5, <2>1, <2>2
  <2>4. QED
    BY <2>3 DEF n
<1>6. ASSUME NEW i \in Foreign, NEW over \in Int, over <= Tolerance, books'.gain = books.gain + over,
             ~(row[i].rows >= Total[i]), row'[i].rows >= Total[i]
      PROVE  books'.gain <= Tolerance * n
  <2>1. i \notin Closed /\ i \in Closed'
    BY <1>6 DEF Closed
  <2>2. Cardinality(Closed \cup {i}) = m + 1
    BY <1>2, <2>1, FS_AddElement
  <2>3. Closed \cup {i} \in SUBSET (Closed')
    BY <1>3, <2>1
  <2>4. m + 1 <= n
    BY <1>2, <2>2, <2>3, FS_Subset
  <2> HIDE DEF m, n
  <2>5. Tolerance * (m + 1) <= Tolerance * n /\ Tolerance * (m + 1) = Tolerance * m + Tolerance
    BY <1>0, <1>2, <2>4
  <2>6. Tolerance * m \in Int /\ Tolerance * n \in Int
    BY <1>0, <1>2
  <2>7. QED
    BY <1>0, <1>6, <2>5, <2>6
<1>7. QED
  BY <1>0, <1>5, <1>6, Gains

\* Foreign-currency invoices, one request at a time and without nettings: each yields at
\* most one rounding difference, though every payment may be a little too much.
THEOREM RoundingIsBounded == ASSUME OneClient, NoNetting PROVE Spec => []RoundingBounded
<1>1. Init => RoundingInv
  <2> SUFFICES ASSUME Init PROVE RoundingInv
    OBVIOUS
  <2>1. IsFiniteSet(Closed)
    BY ReceivablesAssumption, FS_Subset DEF Closed
  <2>2. Tolerance * Cardinality(Closed) >= 0
    BY <2>1, FS_CardinalityType, ReceivablesAssumption
  <2>3. books.gain = 0
    BY DEF Init
  <2>4. QED
    BY <2>2, <2>3, MoneyInit DEF RoundingInv
<1>2. RoundingInv /\ [Next]_vars => RoundingInv'
  <2> SUFFICES ASSUME RoundingInv, [Next]_vars PROVE RoundingInv'
    OBVIOUS
  <2>1. MoneyInv' /\ TypeInv'
    BY MoneyStep DEF RoundingInv, MoneyInv, SerialInv, SettlementInv, RevenueInv
  <2>2. CASE UNCHANGED vars
    <3>1. Closed' = Closed /\ books' = books
      BY <2>2 DEF vars, Closed
    <3>2. QED
      BY <2>1, <3>1 DEF RoundingInv
  <2>3. CASE Next
    <3>1. PICK c \in Clients : Step(c)
      BY <2>3 DEF Next, Step
    <3>2. QED
      BY <2>1, <3>1, RoundingStep DEF RoundingInv
  <2>4. QED
    BY <2>2, <2>3
<1>3. RoundingInv => RoundingBounded
  <2> SUFFICES ASSUME RoundingInv PROVE RoundingBounded
    OBVIOUS
  <2> DEFINE m == Cardinality(Closed)
             n == Cardinality(Foreign)
  <2>1. IsFiniteSet(Foreign) /\ Closed \subseteq Foreign
    BY ReceivablesAssumption, FS_Subset DEF Closed
  <2>2. m <= n /\ m \in Nat /\ n \in Nat
    BY <2>1, FS_Subset, FS_CardinalityType
  <2>3. books.gain <= Tolerance * m /\ books.gain \in Int /\ Tolerance \in Nat
    BY ReceivablesAssumption DEF RoundingInv, MoneyInv, SerialInv, SettlementInv, RevenueInv,
       TypeInv, TypeOK, Books
  <2> HIDE DEF m, n
  <2>4. Tolerance * m <= Tolerance * n /\ Tolerance * m \in Int /\ Tolerance * n \in Int
    BY <2>2, <2>3
  <2>5. books.gain <= Tolerance * n
    BY <2>3, <2>4
  <2>6. QED
    BY <2>5 DEF RoundingBounded, n
<1>4. QED
  BY <1>1, <1>2, <1>3, PTL DEF Spec

-----------------------------------------------------------------------------
(* Requests that do not overlap implement OpenItems *)

\* No invoice is made out for nothing.
PositiveTotals == \A i \in Invoices : Total[i] > 0

\* An invoice row as an open item.
AsItem(r) ==
  [billed |-> r.recognized, settled |-> r.rows, standing |-> StandingOfStatus(r.status)]

\* The open items that the committed rows stand for.
ItemsOf == [i \in Invoices |-> AsItem(row[i])]

\* The standing of a recognized invoice is what its payments say.
LEMMA StandingRight ==
  ASSUME PositiveTotals, NEW i \in Invoices, NEW r \in Row, Sound(i, r), Unsigned(r), r.recognized
  PROVE  AsItem(r) = Items!Billed(i, r.rows)
<1>1. r.rows \in Int /\ Total[i] \in Nat /\ Total[i] > 0
  BY ReceivablesAssumption DEF PositiveTotals, Row
<1>2. r.status \in {"SENT", "PARTIALLY_PAID", "PAID"}
  BY DEF Sound, Unsigned, Row, Statuses
<1>3. CASE r.status = "SENT"
  <2>1. ~(r.rows >= Total[i]) /\ ~(r.rows > 0)
    BY <1>1, <1>3 DEF Sound
  <2>2. QED
    BY <1>3, <2>1 DEF AsItem, StandingOfStatus, Items!Billed, Items!StandingOf
<1>4. CASE r.status = "PARTIALLY_PAID"
  <2>1. ~(r.rows >= Total[i]) /\ r.rows > 0
    BY <1>1, <1>4 DEF Sound
  <2>2. QED
    BY <1>4, <2>1 DEF AsItem, StandingOfStatus, Items!Billed, Items!StandingOf
<1>5. CASE r.status = "PAID"
  <2>1. r.rows >= Total[i]
    BY <1>1, <1>5 DEF Sound
  <2>2. QED
    BY <1>5, <2>1 DEF AsItem, StandingOfStatus, Items!Billed, Items!StandingOf
<1>6. QED
  BY <1>2, <1>3, <1>4, <1>5

\* An invoice that is not recognized is a draft that nobody has signed or paid.
LEMMA DraftRight ==
  ASSUME NEW i \in Invoices, NEW r \in Row, Sound(i, r), Unsigned(r), ~r.recognized
  PROVE  ~AsItem(r).billed /\ AsItem(r).standing = "draft"
<1>1. r.status = "DRAFT"
  BY DEF Sound, Unsigned, Row, Statuses
<1>2. QED
  BY <1>1 DEF AsItem, StandingOfStatus

\* What a payment may settle.
Settlements == [Invoices -> UNION {Items!Amount(k) : k \in Invoices}]

\* What is settled of each invoice, at most its total.
LEMMA SettlementType ==
  ASSUME NEW f, f = [i \in Invoices |-> f[i]], \A i \in Invoices : f[i] \in 0..Total[i]
  PROVE  f \in Settlements
<1>1. \A i \in Invoices : f[i] \in UNION {Items!Amount(k) : k \in Invoices}
  BY DEF Items!Amount
<1>2. QED
  BY <1>1 DEF Settlements

\* Such a settlement is a step of OpenItems.
LEMMA SettleIsNext ==
  ASSUME NEW f \in Settlements, Items!Settle(f)
  PROVE  Items!Next
BY DEF Items!Next, Settlements

\* A commit of a single request bills and settles the invoice, settles it further, or
\* leaves the item as it is.
LEMMA AdvanceImplements ==
  ASSUME PositiveTotals, MoneyInv, NEW i \in Invoices, NEW new \in Row,
         row' = [row EXCEPT ![i] = new], Advances(i, row[i], new)
  PROVE  Items!Next \/ ItemsOf' = ItemsOf
<1> DEFINE r == row[i]
           x == new.rows - r.rows
           f == [k \in Invoices |-> IF k = i THEN x ELSE 0]
<1>0. row \in [Invoices -> Row] /\ r \in Row /\ Sound(i, r) /\ Sound(i, new) /\ Unsigned(r)
      /\ Unsigned(new) /\ new.recognized /\ new.rows >= r.rows
  BY DEF MoneyInv, SerialInv, SettlementInv, RevenueInv, TypeInv, TypeOK, RowsSound, Advances
<1>1. new.rows \in Int /\ r.rows \in Int /\ Total[i] \in Nat /\ x \in Nat
      /\ new.rows \in 0..Total[i] /\ x \in 0..Total[i]
  BY <1>0, ReceivablesAssumption DEF Row, Sound
<1>2. ItemsOf' = [ItemsOf EXCEPT ![i] = Items!Billed(i, new.rows)]
  <2>1. AsItem(new) = Items!Billed(i, new.rows)
    BY <1>0, StandingRight
  <2>2. \A k \in Invoices : AsItem(row'[k]) = IF k = i THEN AsItem(new) ELSE AsItem(row[k])
    BY <1>0
  <2>3. ItemsOf' = [k \in Invoices |-> AsItem(row'[k])]
    BY DEF ItemsOf, AsItem
  <2>4. QED
    BY <2>1, <2>2, <2>3 DEF ItemsOf
<1>3. CASE ~r.recognized
  <2>1. ~ItemsOf[i].billed /\ ItemsOf[i].standing = "draft"
    BY <1>0, <1>3, DraftRight DEF ItemsOf
  <2>2. Items!BillAndSettle(i, new.rows)
    BY <1>1, <1>2, <2>1 DEF Items!BillAndSettle, ItemsOf, AsItem
  <2>3. QED
    BY <1>1, <2>2 DEF Items!Next, Items!Amount
<1>4. CASE r.recognized /\ x = 0
  <2>1. new.rows = r.rows
    BY <1>1, <1>4
  <2>2. AsItem(r) = Items!Billed(i, new.rows)
    BY <1>0, <1>4, <2>1, StandingRight
  <2>3. QED
    BY <1>2, <2>2 DEF ItemsOf
<1>5. CASE r.recognized /\ x # 0
  <2>1. /\ ItemsOf[i].billed /\ ItemsOf[i].settled = r.rows
        /\ ItemsOf[i].standing # "signed"
    <3>1. r.status \in {"SENT", "PARTIALLY_PAID", "PAID"}
      BY <1>0, <1>5 DEF Sound, Unsigned, Row, Statuses
    <3>2. QED
      BY <1>5, <3>1 DEF ItemsOf, AsItem, StandingOfStatus
  <2>2. x > 0 /\ r.rows + x = new.rows
    BY <1>1, <1>5
  <2> HIDE DEF x
  <2>3. Items!Settle(f)
    <3>1. f # [k \in Invoices |-> 0]
      <4>1. f[i] = x
        OBVIOUS
      <4> HIDE DEF f
      <4>2. QED
        BY <4>1, <2>2
    <3>2. ASSUME NEW k \in Invoices, f[k] > 0
          PROVE  ItemsOf[k].billed /\ ItemsOf[k].standing # "signed" /\ ItemsOf[k].settled + f[k] <= Total[k]
      <4>1. k = i /\ f[k] = x
        BY <3>2
      <4>2. QED
        BY <1>1, <2>1, <2>2, <4>1
    <3>3. ItemsOf' = [k \in Invoices |-> IF f[k] > 0 THEN Items!Billed(k, ItemsOf[k].settled + f[k])
                                         ELSE ItemsOf[k]]
      <4>1. \A k \in Invoices : (f[k] > 0) = (k = i)
        BY <2>2
      <4>2. ItemsOf[i].settled + f[i] = new.rows
        BY <2>1, <2>2
      <4>3. ItemsOf' = [k \in Invoices |-> IF k = i THEN Items!Billed(i, new.rows) ELSE ItemsOf[k]]
        BY <1>2 DEF ItemsOf
      <4> HIDE DEF f
      <4>4. QED
        BY <4>1, <4>2, <4>3
    <3> HIDE DEF f
    <3>4. QED
      BY <3>1, <3>2, <3>3 DEF Items!Settle, ItemsOf, AsItem
  <2>4. f \in Settlements
    <3>1. f = [k \in Invoices |-> f[k]] /\ \A k \in Invoices : f[k] \in 0..Total[k]
      BY <1>1, ReceivablesAssumption
    <3> HIDE DEF f
    <3>2. QED
      BY <3>1, SettlementType
  <2> HIDE DEF f
  <2>5. PICK g \in Settlements : g = f
    BY <2>4
  <2>6. Items!Settle(g)
    BY <2>3, <2>5 DEF Items!Settle
  <2>7. QED
    BY <2>6, SettleIsNext
<1>6. QED
  BY <1>3, <1>4, <1>5

\* The commit of an allocation settles every invoice it pays.
LEMMA MultiImplements ==
  ASSUME PositiveTotals, MoneyInv, NEW c \in Clients, CommitMulti(c)
  PROVE  Items!Next \/ ItemsOf' = ItemsOf
<1> DEFINE f == Gap(c)
<1>0. /\ row \in [Invoices -> Row] /\ WrittenRows /\ RowsSound
      /\ \A i \in Invoices : mine[c][i] # None => Advances(i, row[i], mine[c][i])
  BY DEF MoneyInv, SerialInv, SettlementInv, RevenueInv, TypeInv, TypeOK, BucketsSound
<1>1. ASSUME NEW i \in Invoices
      PROVE  /\ f[i] \in 0..Total[i]
             /\ f[i] > 0 => ItemsOf[i].billed /\ ItemsOf[i].standing # "signed"
                            /\ ItemsOf[i].settled + f[i] <= Total[i]
             /\ AsItem(row'[i]) = IF f[i] > 0 THEN Items!Billed(i, ItemsOf[i].settled + f[i])
                                  ELSE ItemsOf[i]
  <2> DEFINE r == row[i]
             new == mine[c][i]
  <2>0. /\ r \in Row /\ r.rows \in Int /\ Total[i] \in Nat
        /\ ItemsOf[i] = AsItem(r) /\ ItemsOf[i].settled = r.rows
    BY <1>0, ReceivablesAssumption DEF Row, ItemsOf, AsItem
  <2>1. CASE new = None
    <3>1. f[i] = 0 /\ row'[i] = r
      BY <2>1 DEF Gap, CommitMulti
    <3>2. QED
      BY <2>0, <3>1
  <2>2. CASE new # None
    <3>1. /\ f[i] = new.rows - r.rows /\ row'[i] = new
          /\ Advances(i, r, new) /\ r.recognized
      BY <1>0, <2>2 DEF Gap, CommitMulti, WrittenRows
    <3>2. /\ new.rows \in Int /\ Sound(i, new) /\ Sound(i, r) /\ Unsigned(r) /\ new.rows >= r.rows
          /\ new \in Row /\ new.rows <= Total[i] /\ 0 <= r.rows
      BY <1>0, <3>1 DEF Advances, RowsSound, Sound, Row
    <3>3. AsItem(new) = Items!Billed(i, new.rows) /\ AsItem(r) = Items!Billed(i, r.rows)
      BY <2>0, <3>1, <3>2, StandingRight DEF Advances
    <3>4. r.rows + f[i] = new.rows /\ f[i] \in 0..Total[i] /\ (f[i] = 0 => new.rows = r.rows)
      <4> HIDE DEF r, new, f
      <4>1. QED BY <2>0, <3>1, <3>2
    <3>5. ItemsOf[i].billed /\ ItemsOf[i].standing # "signed"
      <4>1. r.status \in {"SENT", "PARTIALLY_PAID", "PAID"}
        BY <2>0, <3>1, <3>2 DEF Sound, Unsigned, Row, Statuses
      <4>2. QED
        BY <3>1, <4>1 DEF ItemsOf, AsItem, StandingOfStatus
    <3>6. CASE f[i] > 0
      <4> HIDE DEF f
      <4>1. QED BY <2>0, <3>1, <3>2, <3>3, <3>4, <3>5, <3>6
    <3>7. CASE ~(f[i] > 0)
      <4> HIDE DEF f
      <4>0. f[i] = 0
        BY <3>4, <3>7
      <4>1. QED BY <2>0, <3>1, <3>2, <3>3, <3>4, <4>0
    <3>8. QED
      BY <3>6, <3>7
  <2>3. QED
    BY <2>1, <2>2
<1>2. ItemsOf' = [i \in Invoices |-> IF f[i] > 0 THEN Items!Billed(i, ItemsOf[i].settled + f[i])
                                     ELSE ItemsOf[i]]
  <2>1. ItemsOf' = [i \in Invoices |-> AsItem(row'[i])]
    BY DEF ItemsOf, AsItem
  <2> HIDE DEF f
  <2>2. QED
    BY <1>1, <2>1
<1>3. f \in Settlements
  <2>1. f = [i \in Invoices |-> f[i]]
    BY DEF Gap
  <2> HIDE DEF f
  <2>2. QED
    BY <1>1, <2>1, SettlementType
<1> HIDE DEF f
<1>4. CASE f = [i \in Invoices |-> 0]
  <2>1. \A i \in Invoices : f[i] = 0
    BY <1>4
  <2>2. ItemsOf' = [i \in Invoices |-> ItemsOf[i]]
    BY <1>2, <2>1
  <2>3. QED
    BY <2>2 DEF ItemsOf
<1>5. CASE f # [i \in Invoices |-> 0]
  <2>1. Items!Settle(f)
    BY <1>1, <1>2, <1>5 DEF Items!Settle, ItemsOf, AsItem
  <2>2. PICK g \in Settlements : g = f
    BY <1>3
  <2>3. Items!Settle(g)
    BY <2>1, <2>2 DEF Items!Settle
  <2>4. QED
    BY <2>3, SettleIsNext
<1>6. QED
  BY <1>4, <1>5

\* A completed signature freezes the item.
LEMMA PollImplements ==
  ASSUME TypeInv, NEW i \in Invoices,
         row' = [row EXCEPT ![i] = [row[i] EXCEPT !.status = "LOCKED_BY_SIGNATURE"]]
  PROVE  Items!Next
<1> DEFINE new == [row[i] EXCEPT !.status = "LOCKED_BY_SIGNATURE"]
<1>1. row \in [Invoices -> Row] /\ row[i] \in Row
  BY DEF TypeInv, TypeOK
<1>2. AsItem(new) = [AsItem(row[i]) EXCEPT !.standing = "signed"]
  <2>1. new.recognized = row[i].recognized /\ new.rows = row[i].rows
        /\ new.status = "LOCKED_BY_SIGNATURE"
    BY <1>1 DEF Row
  <2> HIDE DEF new
  <2>2. QED
    BY <2>1 DEF AsItem, StandingOfStatus
<1>3. ItemsOf' = [ItemsOf EXCEPT ![i].standing = "signed"]
  <2>1. ItemsOf' = [k \in Invoices |-> AsItem(row'[k])]
    BY DEF ItemsOf, AsItem
  <2>2. \A k \in Invoices : row'[k] = IF k = i THEN new ELSE row[k]
    BY <1>1
  <2>3. ItemsOf = [k \in Invoices |-> AsItem(row[k])]
    BY DEF ItemsOf
  <2>4. \A k \in Invoices : AsItem(row'[k]) = [ItemsOf EXCEPT ![i] = AsItem(new)][k]
    <3> HIDE DEF new
    <3>1. QED BY <2>2, <2>3
  <2>5. [ItemsOf EXCEPT ![i].standing = "signed"] = [ItemsOf EXCEPT ![i] = AsItem(new)]
    BY <1>2, <2>3
  <2>6. ItemsOf' = [ItemsOf EXCEPT ![i] = AsItem(new)]
    <3> HIDE DEF new
    <3>1. QED BY <2>1, <2>3, <2>4
  <2>7. QED
    BY <2>5, <2>6
<1>4. QED
  BY <1>3 DEF Items!Next, Items!Sign, ItemsOf, AsItem

\* Requests that do not overlap and do not net implement OpenItems: whatever the statuses
\* and amounts the handlers keep, each commit bills, settles or signs open items once and
\* within their totals.
THEOREM SettlementRefines ==
  ASSUME OneClient, NoNetting, PositiveTotals PROVE Spec => ImplementsOpenItems
<1>1. Init => Items!Init
  BY DEF Init, Items!Init, Items!NewItem, NewRow, StandingOfStatus
<1>2. MoneyInv /\ [Next]_vars => [Items!Next]_ItemsOf
  <2> SUFFICES ASSUME MoneyInv, [Next]_vars PROVE Items!Next \/ ItemsOf' = ItemsOf
    OBVIOUS
  <2>0. TypeInv
    BY DEF MoneyInv, SerialInv, SettlementInv, RevenueInv
  <2>1. ASSUME UNCHANGED row PROVE ItemsOf' = ItemsOf
    BY <2>1 DEF ItemsOf, AsItem
  <2>2. CASE UNCHANGED vars
    BY <2>1, <2>2 DEF vars
  <2>3. CASE Next
    <3>1. PICK c \in Clients : Step(c)
      BY <2>3 DEF Next, Step
    <3>2. QED
      BY <2>0, <2>1, <3>1, RowMoves, AdvanceImplements, MultiImplements, PollImplements
  <2>4. QED
    BY <2>2, <2>3
<1>3. MoneyInv /\ MoneyInv' /\ [Next]_vars =>
        [Items!Next]_([i \in Invoices |-> [billed |-> row[i].recognized, settled |-> row[i].rows,
                                           standing |-> StandingOfStatus(row[i].status)]])
  BY <1>2 DEF ItemsOf, AsItem
<1>4. QED
  BY <1>1, <1>3, MoneyInit, MoneyStep, PTL DEF Spec, ImplementsOpenItems, Items!Spec
=============================================================================
