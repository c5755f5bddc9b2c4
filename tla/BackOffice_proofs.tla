-------------------------- MODULE BackOffice_proofs --------------------------
(***************************************************************************)
(* Proofs about Staffing, MonthlyBilling and their composition BackOffice: *)
(*   Trees, Slots   the departments form trees as long as requests do not  *)
(*                  overlap, and the slots of a position suffice however   *)
(*                  hires overlap,                                         *)
(*   OneInvoice, BlockDebt, FullMonths                                     *)
(*                  one invoice for a month, blocks that follow the debt,  *)
(*                  no invoice for a month that was not full.              *)
(* Steps of the office are steps of Staffing, or of MonthlyBilling, or     *)
(* requests of other components beside them, so that what is proved of     *)
(* each of the two alone holds of the whole office, whatever its scenes.   *)
(***************************************************************************)
EXTENDS BackOffice, FiniteSetTheorems, TLAPS

-----------------------------------------------------------------------------
(* Requests: what a step of a client does to them *)

\* The variables of the requests are functions of the clients; a client that is
\* alone is known by "overlap".
RequestsOK ==
  /\ pc = [c \in Clients |-> pc[c]] /\ req = [c \in Clients |-> req[c]]
  /\ overlap \in BOOLEAN
  /\ ~overlap => \A c, d \in Clients : Busy(c) /\ Busy(d) => c = d

\* What a step of client c may do to the requests: nobody else's changes, and a
\* request that starts is noticed by "overlap".
Solo(c) ==
  /\ \A d \in Clients \ {c} : pc'[d] = pc[d] /\ req'[d] = req[d]
  /\ overlap' \in BOOLEAN
  /\ ~overlap' => ~overlap /\ (Busy(c) \/ \A d \in Clients : ~Busy(d))

\* Each form of a step leaves the requests of the other clients as they are.
LEMMA BeginSolo ==
  ASSUME RequestsOK, NEW c \in Clients, NEW step, NEW r, Begin(c, step, r)
  PROVE  RequestsOK' /\ Solo(c) /\ pc'[c] = step /\ req'[c] = r
BY DEF RequestsOK, Begin, Busy, Solo

\* A request goes on.
LEMMA GotoSolo ==
  ASSUME RequestsOK, NEW c \in Clients, NEW step, NEW r, Busy(c), Goto(c, step, r)
  PROVE  RequestsOK' /\ Solo(c) /\ pc'[c] = step /\ req'[c] = r
BY DEF RequestsOK, Goto, Busy, Solo

\* A request ends.
LEMMA FinishSolo ==
  ASSUME RequestsOK, NEW c \in Clients, Busy(c), Finish(c)
  PROVE  RequestsOK' /\ Solo(c) /\ pc'[c] = "idle" /\ req'[c] = NoRequest
BY GotoSolo DEF Finish

\* A request of one statement.
LEMMA InstantSolo ==
  ASSUME RequestsOK, Instant
  PROVE  /\ RequestsOK' /\ pc' = pc /\ req' = req
         /\ ~overlap' => ~overlap /\ \A d \in Clients : ~Busy(d)
BY DEF RequestsOK, Instant, Busy

\* A request of another component.
LEMMA ElsewhereSolo ==
  ASSUME RequestsOK, NEW c \in Clients, NEW steps, Elsewhere(c, steps)
  PROVE  RequestsOK' /\ Solo(c) /\ pc'[c] \notin steps
BY BeginSolo, GotoSolo DEF Elsewhere

\* A step among some steps is elsewhere for the components with other ones.
Uses(c, steps) ==
  \E step, r :
    /\ step \in steps \cup {"idle"}
    /\ Begin(c, step, r) \/ (pc[c] \in steps /\ Goto(c, step, r))

\* A request that starts uses the step at which it waits.
LEMMA UsesBegin ==
  ASSUME NEW c \in Clients, NEW step, NEW r, NEW steps, step \in steps, Begin(c, step, r)
  PROVE  Uses(c, steps)
BY DEF Uses

\* One that goes on uses the step it leaves and the one at which it waits.
LEMMA UsesGoto ==
  ASSUME NEW c \in Clients, NEW step, NEW r, NEW steps, pc[c] \in steps, step \in steps, Goto(c, step, r)
  PROVE  Uses(c, steps)
BY DEF Uses

\* One that ends uses the step it leaves.
LEMMA UsesFinish ==
  ASSUME NEW c \in Clients, NEW steps, pc[c] \in steps, Finish(c)
  PROVE  Uses(c, steps)
BY DEF Uses, Finish

\* The steps of one component are elsewhere for another one.
LEMMA UsesElsewhere ==
  ASSUME NEW c \in Clients, NEW steps, NEW others, Uses(c, steps),
         steps \cap others = {}, "idle" \notin steps \cup others
  PROVE  Elsewhere(c, others)
BY DEF Uses, Elsewhere, Busy

-----------------------------------------------------------------------------
(* Staffing *)

staffAll == <<staffVars, requestVars>>

-----------------------------------------------------------------------------
(* The tree of departments *)

ParentOK == parent \in [Departments -> Departments \cup {None}]

\* What a search has seen: never the department that moves, but the new parent, unless
\* that comes next.
Searching(r) ==
  /\ r.department \in Departments /\ r.under \in Departments
  /\ r.at \in Departments \cup {None} /\ r.seen \subseteq Departments
  /\ r.department \notin r.seen
  /\ r.under \in r.seen \cup {r.at}

\* Every department that was seen is below one that was seen or comes next.
Closed(r) == \A n \in r.seen : parent[n] \in r.seen \cup {r.at, None}

SearchOK(c) ==
  /\ pc[c] \in {"walk", "move"} => Searching(req[c]) /\ (overlap \/ Closed(req[c]))
  /\ pc[c] = "move" => req[c].at = None \/ req[c].at \in req[c].seen

TreeInv == RequestsOK /\ ParentOK /\ (\A c \in Clients : SearchOK(c)) /\ DepartmentsAreTrees

\* At first every department is a root.
LEMMA TreeInit == StaffInit /\ RequestInit => TreeInv
<1>. SUFFICES ASSUME StaffInit, RequestInit PROVE TreeInv
  OBVIOUS
<1>. USE StaffingAssumption
<1>1. RequestsOK
  BY DEF RequestsOK, RequestInit, Busy
<1>2. ParentOK
  BY DEF ParentOK, StaffInit
<1>3. \A c \in Clients : SearchOK(c)
  BY DEF SearchOK, RequestInit
<1>4. DepartmentsAreTrees
  BY DEF DepartmentsAreTrees, StaffInit
<1>. QED
  BY <1>1, <1>2, <1>3, <1>4 DEF TreeInv

\* A step that changes no parent keeps the searches of the others and the trees.
LEMMA SameParents ==
  ASSUME TreeInv, NEW c \in Clients, RequestsOK', Solo(c), parent' = parent, SearchOK(c)'
  PROVE  TreeInv'
<1>1. ParentOK'
  BY DEF TreeInv, ParentOK
<1>2. \A d \in Clients : SearchOK(d)'
  <2>. SUFFICES ASSUME NEW d \in Clients, d # c PROVE SearchOK(d)'
    OBVIOUS
  <2>1. pc'[d] = pc[d] /\ req'[d] = req[d] /\ (~overlap' => ~overlap)
    BY DEF Solo
  <2>2. SearchOK(d)
    BY DEF TreeInv
  <2>. QED
    BY <2>1, <2>2 DEF SearchOK, Searching, Closed
<1>3. DepartmentsAreTrees'
  BY DEF TreeInv, DepartmentsAreTrees, Solo
<1>. QED
  BY <1>1, <1>2, <1>3 DEF TreeInv

\* The update after a search that ended closes no cycle: a set that violated the
\* property would, cut down to what was seen, have violated it before.
LEMMA MoveKeepsTrees ==
  ASSUME TreeInv, NEW c \in Clients, CommitMove(c)
  PROVE  DepartmentsAreTrees'
<1>. DEFINE r == req[c]
<1>1. CASE overlap
  BY <1>1 DEF CommitMove, Finish, Goto, DepartmentsAreTrees
<1>2. CASE ~overlap
  <2>1. /\ Searching(r) /\ Closed(r) /\ (r.at = None \/ r.at \in r.seen)
        /\ parent' = [parent EXCEPT ![r.department] = r.under]
    BY <1>2 DEF TreeInv, SearchOK, CommitMove
  <2>. HIDE DEF r
  <2>. SUFFICES ASSUME NEW D \in SUBSET Departments, D # {}, \A d \in D : parent'[d] \in D
                PROVE  FALSE
    BY DEF DepartmentsAreTrees
  <2>2. \A E \in SUBSET Departments : E # {} => \E d \in E : parent[d] \notin E
    BY <1>2 DEF TreeInv, DepartmentsAreTrees
  <2>3. parent \in [Departments -> Departments \cup {None}] /\ None \notin Departments
    BY StaffingAssumption DEF TreeInv, ParentOK
  <2>4. \A d \in D : d # r.department => parent'[d] = parent[d]
    BY <2>1, <2>3
  <2>5. r.department \in D /\ r.under \in D
    <3>1. PICK d \in D : parent[d] \notin D
      BY <2>2
    <3>2. d = r.department
      BY <2>4, <3>1
    <3>. QED
      BY <2>1, <2>3, <3>2 DEF Searching
  <2>6. r.under \in r.seen
    BY <2>1, <2>3 DEF Searching
  <2>. DEFINE E == D \cap r.seen
  <2>7. E # {}
    BY <2>5, <2>6
  <2>8. \A e \in E : parent[e] \in E
    <3>. SUFFICES ASSUME NEW e \in E PROVE parent[e] \in E
      OBVIOUS
    <3>1. parent[e] \in D
      BY <2>1, <2>4 DEF Searching
    <3>2. parent[e] \in r.seen
      BY <2>1, <2>3, <3>1 DEF Closed
    <3>. QED
      BY <3>1, <3>2
  <2>. QED
    BY <2>2, <2>7, <2>8
<1>. QED
  BY <1>1, <1>2

\* Every step of a search or a move.
LEMMA TreeSearchStep ==
  ASSUME TreeInv, NEW c \in Clients,
         (\E d, p \in Departments : StartMove(c, d, p)) \/ Walk(c) \/ WalkEnd(c) \/ CommitMove(c)
  PROVE  TreeInv'
<1>. USE StaffingAssumption
<1>0. RequestsOK /\ ParentOK /\ SearchOK(c)
  BY DEF TreeInv
<1>1. CASE \E d, p \in Departments : StartMove(c, d, p)
  <2>1. PICK d, p \in Departments : StartMove(c, d, p)
    BY <1>1
  <2>2. /\ RequestsOK' /\ Solo(c) /\ pc'[c] = "walk"
        /\ req'[c] = [op |-> "MOVE", department |-> d, under |-> p, at |-> p, seen |-> {}]
    BY <1>0, <2>1, BeginSolo DEF StartMove
  <2>3. SearchOK(c)' /\ parent' = parent
    BY <2>1, <2>2 DEF SearchOK, Searching, Closed, StartMove, staffVars
  <2>. QED
    BY <2>2, <2>3, SameParents
<1>2. CASE Walk(c)
  <2>0. Busy(c) /\ parent' = parent
    BY <1>2 DEF Walk, Busy, staffVars
  <2>1. CASE req[c].at = req[c].department /\ Finish(c)
    <3>1. RequestsOK' /\ Solo(c) /\ pc'[c] = "idle"
      BY <1>0, <2>0, <2>1, FinishSolo
    <3>. QED
      BY <2>0, <3>1, SameParents DEF SearchOK
  <2>2. CASE req[c].at \in req[c].seen /\ Goto(c, "move", req[c])
    <3>1. RequestsOK' /\ Solo(c) /\ pc'[c] = "move" /\ req'[c] = req[c]
      BY <1>0, <2>0, <2>2, GotoSolo
    <3>2. SearchOK(c)'
      BY <1>0, <1>2, <2>0, <2>2, <3>1 DEF SearchOK, Searching, Closed, Solo, Walk
    <3>. QED
      BY <2>0, <3>1, <3>2, SameParents
  <2>3. CASE /\ req[c].at # req[c].department /\ req[c].at \notin req[c].seen
             /\ Goto(c, "walk", [op |-> "MOVE", department |-> req[c].department, under |-> req[c].under,
                                 at |-> Above(req[c].at), seen |-> req[c].seen \cup {req[c].at}])
    <3>1. /\ RequestsOK' /\ Solo(c) /\ pc'[c] = "walk"
          /\ req'[c] = [op |-> "MOVE", department |-> req[c].department, under |-> req[c].under,
                        at |-> Above(req[c].at), seen |-> req[c].seen \cup {req[c].at}]
      BY <1>0, <2>0, <2>3, GotoSolo
    <3>2. /\ Searching(req[c]) /\ (overlap \/ Closed(req[c]))
          /\ req[c].at \in Departments
      BY <1>0, <1>2 DEF SearchOK, Walk, Searching
    <3>3. Searching(req'[c])
      BY <1>0, <2>3, <3>1, <3>2 DEF Searching, Above, ParentOK
    <3>4. overlap' \/ Closed(req[c])
      BY <3>1, <3>2 DEF Solo
    <3>5. Closed(req[c]) => Closed(req[c])'
      BY <2>0, <3>1 DEF Closed, Above
    <3>6. SearchOK(c)'
      BY <3>1, <3>3, <3>4, <3>5 DEF SearchOK, Searching
    <3>. QED
      BY <2>0, <3>1, <3>6, SameParents
  <2>. QED
    BY <1>2, <2>1, <2>2, <2>3 DEF Walk
<1>3. CASE WalkEnd(c)
  <2>1. RequestsOK' /\ Solo(c) /\ pc'[c] = "move" /\ req'[c] = req[c]
    BY <1>0, <1>3, GotoSolo DEF WalkEnd, Busy
  <2>2. SearchOK(c)' /\ parent' = parent
    BY <1>0, <1>3, <2>1 DEF SearchOK, Searching, Closed, Solo, WalkEnd, staffVars
  <2>. QED
    BY <2>1, <2>2, SameParents
<1>4. CASE CommitMove(c)
  <2>1. RequestsOK' /\ Solo(c) /\ pc'[c] = "idle"
    BY <1>0, <1>4, FinishSolo DEF CommitMove, Busy
  <2>2. ParentOK'
    BY <1>0, <1>4 DEF ParentOK, CommitMove, SearchOK, Searching
  <2>3. \A d \in Clients : SearchOK(d)'
    <3>. SUFFICES ASSUME NEW d \in Clients, d # c, pc'[d] \in {"walk", "move"} PROVE SearchOK(d)'
      BY <2>1 DEF SearchOK
    <3>1. pc'[d] = pc[d] /\ req'[d] = req[d] /\ (overlap => overlap')
      BY <2>1, <1>4 DEF Solo, CommitMove, Finish, Goto
    <3>2. overlap
      BY <1>0, <1>4, <3>1 DEF RequestsOK, Busy, CommitMove
    <3>3. SearchOK(d)
      BY DEF TreeInv
    <3>. QED
      BY <3>1, <3>2, <3>3 DEF SearchOK, Searching
  <2>4. DepartmentsAreTrees'
    BY <1>4, MoveKeepsTrees
  <2>. QED
    BY <2>1, <2>2, <2>3, <2>4 DEF TreeInv
<1>. QED
  BY <1>1, <1>2, <1>3, <1>4

\* A department becomes a root.
LEMMA TreeDetach ==
  ASSUME TreeInv, NEW d \in Departments, Detach(d)
  PROVE  TreeInv'
<1>. USE StaffingAssumption
<1>1. /\ RequestsOK' /\ pc' = pc /\ req' = req
      /\ ~overlap' => ~overlap /\ \A c \in Clients : ~Busy(c)
  BY InstantSolo DEF TreeInv, Detach
<1>2. ParentOK'
  BY DEF TreeInv, ParentOK, Detach
<1>3. \A c \in Clients : SearchOK(c)'
  BY <1>1 DEF TreeInv, SearchOK, Searching, Busy
<1>4. DepartmentsAreTrees'
  <2>. SUFFICES ASSUME ~overlap', NEW D \in SUBSET Departments, D # {}
                PROVE  \E e \in D : parent'[e] \notin D
    BY DEF DepartmentsAreTrees
  <2>1. PICK e \in D : parent[e] \notin D
    BY <1>1 DEF TreeInv, DepartmentsAreTrees
  <2>2. parent'[e] \in {parent[e], None}
    BY DEF TreeInv, ParentOK, Detach
  <2>. QED
    BY <2>1, <2>2
<1>. QED
  BY <1>1, <1>2, <1>3, <1>4 DEF TreeInv

\* Every other step leaves the parents alone and starts no search.
LEMMA TreeOtherStep ==
  ASSUME TreeInv, NEW c \in Clients,
         \/ \E e \in Employees, p \in Positions : StartHire(c, e, p)
         \/ \E p \in Positions, n \in 0 .. MaxSlots : StartResize(c, p, n)
         \/ CommitHire(c) \/ CommitResize(c) \/ StaffAbort(c) \/ StaffBeside(c)
  PROVE  TreeInv'
<1>0. RequestsOK
  BY DEF TreeInv
<1>1. CASE \E e \in Employees, p \in Positions : StartHire(c, e, p)
  <2>1. RequestsOK' /\ Solo(c) /\ pc'[c] = "hire" /\ parent' = parent
    BY <1>0, <1>1, BeginSolo DEF StartHire
  <2>. QED
    BY <2>1, SameParents DEF SearchOK
<1>2. CASE \E p \in Positions, n \in 0 .. MaxSlots : StartResize(c, p, n)
  <2>1. RequestsOK' /\ Solo(c) /\ pc'[c] = "resize" /\ parent' = parent
    BY <1>0, <1>2, BeginSolo DEF StartResize
  <2>. QED
    BY <2>1, SameParents DEF SearchOK
<1>3. CASE CommitHire(c) \/ CommitResize(c) \/ StaffAbort(c)
  <2>1. Busy(c) /\ Finish(c) /\ parent' = parent
    BY <1>3 DEF CommitHire, CommitResize, StaffAbort, Busy, staffVars
  <2>2. RequestsOK' /\ Solo(c) /\ pc'[c] = "idle"
    BY <1>0, <2>1, FinishSolo
  <2>. QED
    BY <2>1, <2>2, SameParents DEF SearchOK
<1>4. CASE StaffBeside(c)
  <2>1. RequestsOK' /\ Solo(c) /\ pc'[c] \notin StaffSteps
    BY <1>0, <1>4, ElsewhereSolo DEF StaffBeside
  <2>2. parent' = parent
    BY <1>4 DEF StaffBeside, staffVars
  <2>. QED
    BY <2>1, <2>2, SameParents DEF SearchOK, StaffSteps
<1>. QED
  BY <1>1, <1>2, <1>3, <1>4

\* A step of one statement leaves the walks as they are.
LEMMA TreeInstant ==
  ASSUME TreeInv, Instant, parent' = parent
  PROVE  TreeInv'
<1>1. /\ RequestsOK' /\ pc' = pc /\ req' = req
      /\ ~overlap' => ~overlap
  BY InstantSolo DEF TreeInv
<1>2. ParentOK' /\ DepartmentsAreTrees'
  BY <1>1 DEF TreeInv, ParentOK, DepartmentsAreTrees
<1>3. \A c \in Clients : SearchOK(c)'
  BY <1>1 DEF TreeInv, SearchOK, Searching, Closed
<1>. QED
  BY <1>1, <1>2, <1>3 DEF TreeInv

\* Every step of staffing keeps the departments and the walks in order.
LEMMA TreeStep == TreeInv /\ [StaffNext]_staffAll => TreeInv'
<1>. SUFFICES ASSUME TreeInv, [StaffNext]_staffAll PROVE TreeInv'
  OBVIOUS
<1>1. CASE StaffInstant
  <2>1. CASE \E e \in Employees : Leave(e)
    BY <2>1, TreeInstant DEF Leave
  <2>2. CASE \E d \in Departments : Detach(d)
    BY <2>2, TreeDetach
  <2>. QED
    BY <1>1, <2>1, <2>2 DEF StaffInstant
<1>2. CASE Instant /\ UNCHANGED staffVars
  BY <1>2, TreeInstant DEF staffVars
<1>3. CASE \E c \in Clients : StaffStart(c) \/ StaffStep(c) \/ StaffAbort(c) \/ StaffBeside(c)
  BY <1>3, TreeSearchStep, TreeOtherStep DEF StaffStart, StaffStep
<1>4. CASE UNCHANGED staffAll
  BY <1>4 DEF staffAll, staffVars, requestVars, TreeInv, RequestsOK, ParentOK, SearchOK, Searching,
              Closed, DepartmentsAreTrees, Busy
<1>. QED
  BY <1>1, <1>2, <1>3, <1>4 DEF StaffNext

\* The departments of the organization form trees as long as no request overlaps
\* with another: the search of assertParentNoCycle is enough.
THEOREM Trees == StaffSpec => []DepartmentsAreTrees
<1>1. TreeInv => DepartmentsAreTrees
  BY DEF TreeInv
<1>. QED
  BY <1>1, TreeInit, TreeStep, PTL DEF StaffSpec, staffAll

-----------------------------------------------------------------------------
(* The slots of the positions *)

PlaceOK ==
  /\ place \in [Employees -> Positions \cup {None}]
  /\ slots \in [Positions -> Nat]
  /\ resized \in BOOLEAN

\* A hire in flight: those that it counted leave a slot, whoever has left since.
HireOK(c) ==
  pc[c] = "hire" =>
    /\ req[c].op = "HIRE"
    /\ req[c].employee \in Employees /\ req[c].position \in Positions
    /\ req[c].from # req[c].position /\ req[c].seen \subseteq Employees
    /\ resized \/ Cardinality(req[c].seen \ {req[c].employee}) < slots[req[c].position]

\* A change of slots in flight: nobody is hired beside it, so its count still holds.
ResizeOK(c) ==
  pc[c] = "resize" =>
    /\ req[c].op = "RESIZE"
    /\ req[c].position \in Positions /\ req[c].slots \in Nat
    /\ resized \/ Cardinality(Occupants(req[c].position)) <= req[c].slots

NotMixed ==
  resized \/ \A c, d \in Clients : ~(pc[c] = "hire" /\ pc[d] = "resize")

SlotInv ==
  /\ RequestsOK /\ PlaceOK
  /\ \A c \in Clients : HireOK(c) /\ ResizeOK(c)
  /\ NotMixed /\ SlotsSuffice

\* A part of the employees is finite, and a part of it is not larger.
LEMMA Counted ==
  ASSUME NEW B \in SUBSET Employees, NEW C \in SUBSET B
  PROVE  /\ IsFiniteSet(B) /\ Cardinality(B) \in Nat
         /\ Cardinality(C) \in Nat /\ Cardinality(C) <= Cardinality(B)
<1>1. IsFiniteSet(Employees)
  BY StaffingAssumption
<1>2. IsFiniteSet(B) /\ IsFiniteSet(C) /\ Cardinality(C) <= Cardinality(B)
  BY <1>1, FS_Subset
<1>. QED
  BY <1>2, FS_CardinalityType

\* At first no position is taken.
LEMMA SlotInit == StaffInit /\ RequestInit => SlotInv
<1>. SUFFICES ASSUME StaffInit, RequestInit PROVE SlotInv
  OBVIOUS
<1>1. RequestsOK
  BY DEF RequestsOK, RequestInit, Busy
<1>2. PlaceOK
  BY DEF PlaceOK, StaffInit
<1>3. (\A c \in Clients : HireOK(c) /\ ResizeOK(c)) /\ NotMixed
  BY DEF HireOK, ResizeOK, NotMixed, RequestInit
<1>4. SlotsSuffice
  <2>1. \A p \in Positions : Occupants(p) = {}
    BY StaffingAssumption DEF StaffInit, Occupants
  <2>. QED
    BY <2>1, FS_EmptySet DEF SlotsSuffice, StaffInit
<1>. QED
  BY <1>1, <1>2, <1>3, <1>4 DEF SlotInv

\* What a step needs to keep the invariant: the row of client c is right, no
\* position gains an employee or loses a slot, and "resized" is kept.
LEMMA SlotFrame ==
  ASSUME SlotInv, NEW c \in Clients, RequestsOK', Solo(c), PlaceOK',
         resized => resized', slots' = slots,
         \A p \in Positions : Occupants(p)' \subseteq Occupants(p),
         HireOK(c)', ResizeOK(c)',
         ~resized' => \A d \in Clients \ {c} :
                        ~(pc'[c] = "hire" /\ pc[d] = "resize") /\ ~(pc'[c] = "resize" /\ pc[d] = "hire")
  PROVE  SlotInv'
<1>1. \A p \in Positions : Cardinality(Occupants(p)') <= Cardinality(Occupants(p))
                           /\ Cardinality(Occupants(p)) \in Nat /\ Cardinality(Occupants(p)') \in Nat
  <2>. SUFFICES ASSUME NEW p \in Positions
                PROVE  Cardinality(Occupants(p)') <= Cardinality(Occupants(p))
                       /\ Cardinality(Occupants(p)) \in Nat /\ Cardinality(Occupants(p)') \in Nat
    OBVIOUS
  <2>1. Occupants(p) \in SUBSET Employees
    BY DEF Occupants
  <2>2. Occupants(p)' \in SUBSET Occupants(p)
    OBVIOUS
  <2>. QED
    BY <2>1, <2>2, Counted
<1>2. \A d \in Clients : HireOK(d)'
  <2>. SUFFICES ASSUME NEW d \in Clients, d # c PROVE HireOK(d)'
    OBVIOUS
  <2>1. pc'[d] = pc[d] /\ req'[d] = req[d] /\ HireOK(d)
    BY DEF SlotInv, Solo
  <2>. QED
    BY <2>1 DEF HireOK
<1>3. \A d \in Clients : ResizeOK(d)'
  <2>. SUFFICES ASSUME NEW d \in Clients, d # c, pc'[d] = "resize" PROVE ResizeOK(d)'
    BY DEF ResizeOK
  <2>1. pc'[d] = pc[d] /\ req'[d] = req[d] /\ ResizeOK(d)
    BY DEF SlotInv, Solo
  <2>2. req[d].op = "RESIZE" /\ req[d].position \in Positions /\ req[d].slots \in Nat
    BY <2>1 DEF ResizeOK
  <2>3. resized' \/ Cardinality(Occupants(req[d].position)') <= req[d].slots
    BY <1>1, <2>1, <2>2 DEF ResizeOK
  <2>. QED
    BY <2>1, <2>2, <2>3 DEF ResizeOK
<1>4. NotMixed'
  BY DEF SlotInv, NotMixed, Solo
<1>5. SlotsSuffice'
  BY <1>1 DEF SlotInv, SlotsSuffice, PlaceOK
<1>. QED
  BY <1>2, <1>3, <1>4, <1>5 DEF SlotInv

\* The count of a hire and the count of a change of slots.
LEMMA SlotStart ==
  ASSUME SlotInv, NEW c \in Clients,
         \/ \E e \in Employees, p \in Positions : StartHire(c, e, p)
         \/ \E p \in Positions, n \in 0 .. MaxSlots : StartResize(c, p, n)
  PROVE  SlotInv'
<1>. USE StaffingAssumption
<1>0. RequestsOK /\ PlaceOK
  BY DEF SlotInv
<1>1. ASSUME NEW e \in Employees, NEW p \in Positions, StartHire(c, e, p)
      PROVE  SlotInv'
  <2>1. /\ RequestsOK' /\ Solo(c) /\ pc'[c] = "hire"
        /\ req'[c] = [op |-> "HIRE", employee |-> e, from |-> place[e], position |-> p, seen |-> Occupants(p)]
    BY <1>0, <1>1, BeginSolo DEF StartHire
  <2>2. place' = place /\ slots' = slots /\ resized' = (resized \/ Mixes("RESIZE"))
    BY <1>1 DEF StartHire
  <2>3. PlaceOK' /\ (resized => resized')
    BY <1>0, <2>2 DEF PlaceOK, Mixes
  <2>4. \A q \in Positions : Occupants(q)' \subseteq Occupants(q)
    BY <2>2 DEF Occupants
  <2>5. HireOK(c)' /\ ResizeOK(c)'
    BY <1>1, <2>1, <2>2 DEF HireOK, ResizeOK, StartHire, Free, Occupants
  <2>6. ~resized' => \A d \in Clients : pc[d] # "resize"
    BY <2>2 DEF SlotInv, ResizeOK, Mixes
  <2>. QED
    BY <2>1, <2>2, <2>3, <2>4, <2>5, <2>6, SlotFrame
<1>2. ASSUME NEW p \in Positions, NEW n \in 0 .. MaxSlots, StartResize(c, p, n)
      PROVE  SlotInv'
  <2>1. /\ RequestsOK' /\ Solo(c) /\ pc'[c] = "resize"
        /\ req'[c] = [op |-> "RESIZE", position |-> p, slots |-> n]
    BY <1>0, <1>2, BeginSolo DEF StartResize
  <2>2. place' = place /\ slots' = slots /\ resized' = (resized \/ Mixes("HIRE"))
    BY <1>2 DEF StartResize
  <2>3. PlaceOK' /\ (resized => resized')
    BY <1>0, <2>2 DEF PlaceOK, Mixes
  <2>4. \A q \in Positions : Occupants(q)' = Occupants(q)
    BY <2>2 DEF Occupants
  <2>5. Cardinality(Occupants(p)) <= n /\ n \in Nat
    BY <1>2 DEF StartResize
  <2>6. HireOK(c)' /\ ResizeOK(c)'
    BY <2>1, <2>4, <2>5 DEF HireOK, ResizeOK
  <2>7. ~resized' => \A d \in Clients : pc[d] # "hire"
    BY <2>2 DEF SlotInv, HireOK, Mixes
  <2>. QED
    BY <2>1, <2>2, <2>3, <2>4, <2>6, <2>7, SlotFrame
<1>. QED
  BY <1>1, <1>2

\* The commit of a hire: those it finds on the position are among those it counted,
\* and it is none of them.
LEMMA SlotHire ==
  ASSUME SlotInv, NEW c \in Clients, CommitHire(c)
  PROVE  SlotInv'
<1>. DEFINE r == req[c]
<1>0. RequestsOK /\ PlaceOK /\ HireOK(c) /\ pc[c] = "hire" /\ slots' = slots /\ resized' = resized
  BY DEF SlotInv, CommitHire
<1>1. RequestsOK' /\ Solo(c) /\ pc'[c] = "idle"
  BY <1>0, FinishSolo DEF CommitHire, Busy
<1>2. HireOK(c)' /\ ResizeOK(c)'
  BY <1>1 DEF HireOK, ResizeOK
<1>3. CASE ~Undisturbed(r)
  <2>1. place' = place
    BY <1>3 DEF CommitHire
  <2>2. PlaceOK' /\ \A q \in Positions : Occupants(q)' = Occupants(q)
    BY <1>0, <2>1 DEF PlaceOK, Occupants
  <2>. QED
    BY <1>0, <1>1, <1>2, <2>2, SlotFrame
<1>4. CASE Undisturbed(r)
  <2>1. PICK e \in Employees, p \in Positions, seen \in SUBSET Employees :
          /\ place' = [place EXCEPT ![e] = p]
          /\ place[e] # p /\ Occupants(p) \subseteq seen
          /\ resized \/ Cardinality(seen \ {e}) < slots[p]
    BY <1>0, <1>4 DEF HireOK, CommitHire, Undisturbed
  <2>2. PlaceOK'
    BY <1>0, <2>1 DEF PlaceOK
  <2>3. \A q \in Positions \ {p} : Occupants(q)' \subseteq Occupants(q)
    BY <1>0, <2>1 DEF PlaceOK, Occupants
  <2>4. Occupants(p)' = Occupants(p) \cup {e}
    BY <1>0, <2>1 DEF PlaceOK, Occupants
  <2>5. Occupants(p) \subseteq seen \ {e}
    BY <2>1 DEF Occupants
  <2>6. resized \/ Cardinality(Occupants(p)') <= slots[p]
    <3>1. /\ IsFiniteSet(Occupants(p)) /\ Cardinality(Occupants(p)) \in Nat
          /\ Cardinality(seen \ {e}) \in Nat
          /\ Cardinality(Occupants(p)) <= Cardinality(seen \ {e})
      <4>1. Occupants(p) \in SUBSET (seen \ {e}) /\ seen \ {e} \in SUBSET Employees
        BY <2>1, <2>5
      <4>2. Occupants(p) \in SUBSET Employees
        BY <4>1
      <4>. QED
        BY <4>1, <4>2, Counted
    <3>2. Cardinality(Occupants(p)') <= Cardinality(Occupants(p)) + 1
          /\ Cardinality(Occupants(p)') \in Nat
      <4>. DEFINE O == Occupants(p)
      <4>1. IsFiniteSet(O \cup {e}) /\ Cardinality(O \cup {e}) = IF e \in O THEN Cardinality(O) ELSE Cardinality(O) + 1
        BY <3>1, FS_AddElement
      <4>2. Cardinality(O \cup {e}) \in Nat
        BY <4>1, FS_CardinalityType
      <4>3. Cardinality(O) \in Nat
        BY <3>1
      <4>. HIDE DEF O
      <4>4. Cardinality(O \cup {e}) <= Cardinality(O) + 1
        BY <4>1, <4>3
      <4>. QED
        BY <2>4, <4>2, <4>4 DEF O
    <3>3. slots[p] \in Nat
      BY <1>0, <2>1 DEF PlaceOK
    <3>. QED
      BY <2>1, <3>1, <3>2, <3>3
  <2>7. SlotsSuffice'
    <3>. SUFFICES ASSUME ~resized, NEW q \in Positions, q # p
                  PROVE  Cardinality(Occupants(q)') <= slots[q]
      BY <1>0, <2>6 DEF SlotsSuffice
    <3>1. Occupants(q) \in SUBSET Employees /\ Occupants(q)' \in SUBSET Occupants(q)
      BY <2>3 DEF Occupants
    <3>2. /\ Cardinality(Occupants(q)') <= Cardinality(Occupants(q))
          /\ Cardinality(Occupants(q)') \in Nat /\ Cardinality(Occupants(q)) \in Nat
      BY <3>1, Counted
    <3>3. slots[q] \in Nat /\ Cardinality(Occupants(q)) <= slots[q]
      BY <1>0 DEF PlaceOK, SlotInv, SlotsSuffice
    <3>. QED
      BY <3>2, <3>3
  <2>8. \A d \in Clients : HireOK(d)' /\ ResizeOK(d)'
    <3>. SUFFICES ASSUME NEW d \in Clients, d # c PROVE HireOK(d)' /\ ResizeOK(d)'
      BY <1>2
    <3>1. pc'[d] = pc[d] /\ req'[d] = req[d] /\ HireOK(d) /\ ResizeOK(d)
      BY <1>1 DEF SlotInv, Solo
    <3>2. HireOK(d)'
      BY <1>0, <3>1 DEF HireOK
    <3>3. pc[d] = "resize" => resized
      BY <1>0 DEF SlotInv, NotMixed
    <3>4. ResizeOK(d)'
      BY <1>0, <3>1, <3>3 DEF ResizeOK
    <3>. QED
      BY <3>2, <3>4
  <2>9. NotMixed'
    BY <1>0, <1>1 DEF SlotInv, NotMixed, Solo
  <2>. QED
    BY <1>1, <2>2, <2>7, <2>8, <2>9 DEF SlotInv
<1>. QED
  BY <1>3, <1>4

\* The commit of a change of slots: nobody was hired since its count.
LEMMA SlotResize ==
  ASSUME SlotInv, NEW c \in Clients, CommitResize(c)
  PROVE  SlotInv'
<1>. DEFINE r == req[c]
<1>0. /\ RequestsOK /\ PlaceOK /\ pc[c] = "resize" /\ place' = place /\ resized' = resized
      /\ slots' = [slots EXCEPT ![r.position] = r.slots]
  BY DEF SlotInv, CommitResize
<1>1. RequestsOK' /\ Solo(c) /\ pc'[c] = "idle"
  BY <1>0, FinishSolo DEF CommitResize, Busy
<1>2. /\ r.position \in Positions /\ r.slots \in Nat
      /\ resized \/ Cardinality(Occupants(r.position)) <= r.slots
  BY <1>0 DEF SlotInv, ResizeOK
<1>. HIDE DEF r
<1>3. PlaceOK'
  BY <1>0, <1>2 DEF PlaceOK
<1>4. \A q \in Positions : Occupants(q)' = Occupants(q)
  BY <1>0 DEF Occupants
<1>5. \A q \in Positions : slots'[q] = IF q = r.position THEN r.slots ELSE slots[q]
  BY <1>0, <1>2 DEF PlaceOK
<1>6. SlotsSuffice'
  BY <1>0, <1>2, <1>4, <1>5 DEF SlotInv, SlotsSuffice
<1>7. \A d \in Clients : HireOK(d)' /\ ResizeOK(d)'
  <2>. SUFFICES ASSUME NEW d \in Clients PROVE HireOK(d)' /\ ResizeOK(d)'
    OBVIOUS
  <2>1. CASE d = c
    BY <1>1, <2>1 DEF HireOK, ResizeOK
  <2>2. CASE d # c
    <3>1. pc'[d] = pc[d] /\ req'[d] = req[d] /\ HireOK(d) /\ ResizeOK(d)
      BY <1>1, <2>2 DEF SlotInv, Solo
    <3>2. pc[d] = "hire" => resized
      BY <1>0 DEF SlotInv, NotMixed
    <3>3. HireOK(d)'
      BY <1>0, <3>1, <3>2 DEF HireOK
    <3>4. ResizeOK(d)'
      BY <1>0, <1>4, <3>1 DEF ResizeOK
    <3>. QED
      BY <3>3, <3>4
  <2>. QED
    BY <2>1, <2>2
<1>8. NotMixed'
  BY <1>0, <1>1 DEF SlotInv, NotMixed, Solo
<1>. QED
  BY <1>1, <1>3, <1>6, <1>7, <1>8 DEF SlotInv

\* A request ends without its commit, or does not touch employees and slots.
LEMMA SlotOther ==
  ASSUME SlotInv, NEW c \in Clients,
         \/ \E d, p \in Departments : StartMove(c, d, p)
         \/ Walk(c) \/ WalkEnd(c) \/ CommitMove(c) \/ StaffAbort(c) \/ StaffBeside(c)
  PROVE  SlotInv'
<1>0. RequestsOK /\ PlaceOK
  BY DEF SlotInv
<1>1. place' = place /\ slots' = slots /\ resized' = resized
  BY DEF StartMove, Walk, WalkEnd, CommitMove, StaffAbort, StaffBeside, staffVars
<1>2. RequestsOK' /\ Solo(c) /\ pc'[c] \notin {"hire", "resize"}
  <2>1. CASE \E d, p \in Departments : StartMove(c, d, p)
    BY <1>0, <2>1, BeginSolo DEF StartMove
  <2>2. CASE Walk(c) \/ WalkEnd(c) \/ CommitMove(c) \/ StaffAbort(c)
    BY <1>0, <2>2, GotoSolo DEF Walk, WalkEnd, CommitMove, StaffAbort, Busy, Finish
  <2>3. CASE StaffBeside(c)
    BY <1>0, <2>3, ElsewhereSolo DEF StaffSteps, StaffBeside
  <2>. QED
    BY <2>1, <2>2, <2>3
<1>3. PlaceOK' /\ \A q \in Positions : Occupants(q)' = Occupants(q)
  BY <1>0, <1>1 DEF PlaceOK, Occupants
<1>4. HireOK(c)' /\ ResizeOK(c)'
  BY <1>2 DEF HireOK, ResizeOK
<1>. QED
  BY <1>1, <1>2, <1>3, <1>4, SlotFrame

\* Departures and statements of other components.
LEMMA SlotInstant ==
  ASSUME SlotInv, Instant, PlaceOK', slots' = slots, resized' = resized,
         \A p \in Positions : Occupants(p)' \subseteq Occupants(p)
  PROVE  SlotInv'
<1>1. RequestsOK' /\ pc' = pc /\ req' = req
  BY InstantSolo DEF SlotInv
<1>2. \A p \in Positions : Cardinality(Occupants(p)') <= Cardinality(Occupants(p))
                           /\ Cardinality(Occupants(p)) \in Nat /\ Cardinality(Occupants(p)') \in Nat
  <2>. SUFFICES ASSUME NEW p \in Positions
                PROVE  Cardinality(Occupants(p)') <= Cardinality(Occupants(p))
                       /\ Cardinality(Occupants(p)) \in Nat /\ Cardinality(Occupants(p)') \in Nat
    OBVIOUS
  <2>1. Occupants(p) \in SUBSET Employees /\ Occupants(p)' \in SUBSET Occupants(p)
    BY DEF Occupants
  <2>. QED
    BY <2>1, Counted
<1>3. \A c \in Clients : HireOK(c)'
  BY <1>1 DEF SlotInv, HireOK
<1>4. \A c \in Clients : ResizeOK(c)'
  <2>. SUFFICES ASSUME NEW c \in Clients, pc[c] = "resize" PROVE ResizeOK(c)'
    BY <1>1 DEF ResizeOK
  <2>1. ResizeOK(c)
    BY DEF SlotInv
  <2>2. resized \/ Cardinality(Occupants(req[c].position)') <= req[c].slots
    BY <1>1, <1>2, <2>1 DEF ResizeOK
  <2>. QED
    BY <1>1, <2>1, <2>2 DEF ResizeOK
<1>5. NotMixed' /\ SlotsSuffice'
  BY <1>1, <1>2 DEF SlotInv, NotMixed, SlotsSuffice, PlaceOK
<1>. QED
  BY <1>1, <1>3, <1>4, <1>5 DEF SlotInv

\* Every step of staffing keeps the slots and what was counted.
LEMMA SlotStep == SlotInv /\ [StaffNext]_staffAll => SlotInv'
<1>. SUFFICES ASSUME SlotInv, [StaffNext]_staffAll PROVE SlotInv'
  OBVIOUS
<1>0. PlaceOK
  BY DEF SlotInv
<1>1. CASE StaffInstant
  <2>1. ASSUME NEW e \in Employees, Leave(e) PROVE SlotInv'
    <3>1. PlaceOK' /\ slots' = slots /\ resized' = resized /\ Instant
      BY <1>0, <2>1 DEF PlaceOK, Leave
    <3>2. \A p \in Positions : Occupants(p)' \subseteq Occupants(p)
      BY <1>0, <2>1, StaffingAssumption DEF PlaceOK, Leave, Occupants
    <3>. QED
      BY <3>1, <3>2, SlotInstant
  <2>2. ASSUME NEW d \in Departments, Detach(d) PROVE SlotInv'
    <3>1. PlaceOK' /\ slots' = slots /\ resized' = resized /\ Instant
      BY <1>0, <2>2 DEF PlaceOK, Detach
    <3>2. \A p \in Positions : Occupants(p)' \subseteq Occupants(p)
      BY <2>2 DEF Detach, Occupants
    <3>. QED
      BY <3>1, <3>2, SlotInstant
  <2>. QED
    BY <1>1, <2>1, <2>2 DEF StaffInstant
<1>2. CASE Instant /\ UNCHANGED staffVars
  <2>1. PlaceOK' /\ slots' = slots /\ resized' = resized /\ \A p \in Positions : Occupants(p)' = Occupants(p)
    BY <1>0, <1>2 DEF PlaceOK, staffVars, Occupants
  <2>. QED
    BY <1>2, <2>1, SlotInstant
<1>3. CASE \E c \in Clients : StaffStart(c) \/ StaffStep(c) \/ StaffAbort(c) \/ StaffBeside(c)
  BY <1>3, SlotStart, SlotHire, SlotResize, SlotOther DEF StaffStart, StaffStep
<1>4. CASE UNCHANGED staffAll
  <2>1. PlaceOK' /\ RequestsOK'
    BY <1>4 DEF SlotInv, staffAll, staffVars, requestVars, PlaceOK, RequestsOK, Busy
  <2>2. \A p \in Positions : Occupants(p)' = Occupants(p)
    BY <1>4 DEF staffAll, staffVars, Occupants
  <2>3. \A c \in Clients : HireOK(c)' /\ ResizeOK(c)'
    BY <1>4, <2>2 DEF SlotInv, staffAll, staffVars, requestVars, HireOK, ResizeOK
  <2>4. NotMixed' /\ SlotsSuffice'
    BY <1>4, <2>2 DEF SlotInv, staffAll, staffVars, requestVars, NotMixed, SlotsSuffice
  <2>. QED
    BY <2>1, <2>3, <2>4 DEF SlotInv
<1>. QED
  BY <1>1, <1>2, <1>3, <1>4 DEF StaffNext

\* However hires and moves overlap, no position has more employees than slots, unless
\* a change of its slots runs beside them: the serializable count is enough.
THEOREM Slots == StaffSpec => []SlotsSuffice
<1>1. SlotInv => SlotsSuffice
  BY DEF SlotInv
<1>. QED
  BY <1>1, SlotInit, SlotStep, PTL DEF StaffSpec, staffAll

-----------------------------------------------------------------------------
(* Billing *)

billAll == <<billVars, requestVars>>

Standings == {"ACTIVE", "SOFT_BLOCK", "HARD_BLOCK"}

\* The rows have the shape that the actions give them.
BillOK(i) ==
  /\ i = [nr |-> i.nr, period |-> i.period, items |-> i.items, paid |-> i.paid]
  /\ i.period \in Int /\ i.items \subseteq Companies /\ i.paid \in BOOLEAN

RowsOK ==
  /\ month \in Int /\ plan \subseteq Companies
  /\ standing \in [Companies -> Standings]
  /\ off \in [Companies -> SUBSET Int]
  /\ row = [b \in Companies |-> row[b]]
  /\ \A b \in Companies : row[b] # None => row[b].since \in Int
  /\ \A i \in bills : BillOK(i)

\* A company has a row only while it has the module, and all the time since then;
\* the months it was without are over, and billed ones too.
Calendar ==
  /\ \A b \in Companies : \A m \in off[b] : m <= month
  /\ \A i \in bills : i.period < month
  /\ \A b \in Companies : row[b] # None => b \in plan /\ \A m \in off[b] : m <= row[b].since

\* What a request in flight has read: the shape of it, and what nobody has changed
\* if it is alone.
RunShape(r) ==
  /\ r = [op |-> "RUN", period |-> r.period, left |-> r.left, items |-> r.items]
  /\ r.period \in Int /\ r.left \subseteq Companies /\ r.items \subseteq Companies

RunSteps == {"expired", "estimate", "block", "deactivate", "pending"}

Shaped(c) ==
  /\ pc[c] \in RunSteps => RunShape(req[c])
  /\ pc[c] = "expired" => req[c].items = {}
  /\ pc[c] \in {"unpaid", "hard"} =>
       /\ req[c] = [op |-> "ESCALATE", period |-> req[c].period, hard |-> req[c].hard]
       /\ req[c].hard \subseteq Companies
  /\ pc[c] = "toggle" => req[c].company \in Companies

Fresh(c) ==
  /\ pc[c] = "toggle" /\ ~req[c].on => req[c].company \in plan
  /\ pc[c] \in RunSteps => req[c].period = month - 1
  /\ pc[c] = "estimate" =>
       /\ Duplicates(req[c].period) = {}
       /\ \A b \in req[c].items : req[c].period \notin off[b]
  /\ pc[c] = "block" => \E i \in bills : i.items = req[c].items /\ ~i.paid
  /\ pc[c] = "hard" => \A b \in req[c].hard : \E i \in bills : ~i.paid /\ b \in i.items

BillInv ==
  /\ RequestsOK /\ RowsOK
  /\ \A c \in Clients : Shaped(c)
  /\ overlap \/ (Calendar /\ \A c \in Clients : Fresh(c))
  /\ OneInvoicePerMonth /\ BlockFollowsDebt /\ OnlyFullMonthsBilled

\* At first the rows match the modules, and nothing is billed.
LEMMA BillInitial == BillInit /\ RequestInit => BillInv
<1>. SUFFICES ASSUME BillInit, RequestInit PROVE BillInv
  OBVIOUS
<1>. USE BillingAssumption
<1>1. RequestsOK
  BY DEF RequestsOK, RequestInit, Busy
<1>2. RowsOK
  <2>1. /\ month \in Int /\ plan \subseteq Companies /\ bills = {}
        /\ row = [b \in Companies |-> row[b]]
    BY DEF BillInit
  <2>2. standing \in [Companies -> Standings]
    BY DEF BillInit, Standings
  <2>3. off \in [Companies -> SUBSET Int]
    BY DEF BillInit
  <2>4. \A b \in Companies : row[b] # None => row[b].since \in Int
    BY DEF BillInit, Row
  <2>. QED
    BY <2>1, <2>2, <2>3, <2>4 DEF RowsOK
<1>3. \A c \in Clients : Shaped(c) /\ Fresh(c)
  BY DEF Shaped, Fresh, RequestInit, RunSteps
<1>4. Calendar
  <2>1. month = 1 /\ bills = {} /\ \A b \in Companies : off[b] = IF b \in plan THEN {} ELSE {1}
    BY DEF BillInit
  <2>2. \A b \in Companies : row[b] # None => b \in plan
    BY DEF BillInit
  <2>. QED
    BY <2>1, <2>2 DEF Calendar
<1>5. OneInvoicePerMonth /\ BlockFollowsDebt /\ OnlyFullMonthsBilled
  BY DEF OneInvoicePerMonth, BlockFollowsDebt, OnlyFullMonthsBilled, BillInit
<1>. QED
  BY <1>1, <1>2, <1>3, <1>4, <1>5 DEF BillInv

\* What is left to show of a step of client c: the requests of the others are as they
\* were, and if the step is alone they wait at no step.
LEMMA StepFrame ==
  ASSUME BillInv, NEW c \in Clients, Solo(c), RequestsOK', RowsOK', Shaped(c)',
         ~overlap' => Calendar' /\ Fresh(c)' /\ OneInvoicePerMonth' /\ BlockFollowsDebt' /\ OnlyFullMonthsBilled'
  PROVE  BillInv'
<1>1. \A d \in Clients : Shaped(d)'
  <2>. SUFFICES ASSUME NEW d \in Clients, d # c PROVE Shaped(d)'
    OBVIOUS
  <2>1. pc'[d] = pc[d] /\ req'[d] = req[d] /\ Shaped(d)
    BY DEF BillInv, Solo
  <2>. QED
    BY <2>1 DEF Shaped, RunShape
<1>2. ASSUME ~overlap', NEW d \in Clients PROVE Fresh(d)'
  <2>1. CASE d = c
    BY <1>2, <2>1
  <2>2. CASE d # c
    <3>1. pc'[d] = "idle"
      BY <1>2, <2>2 DEF BillInv, Solo, RequestsOK, Busy
    <3>. QED
      BY <3>1 DEF Fresh, RunSteps
  <2>. QED
    BY <2>1, <2>2
<1>3. OneInvoicePerMonth' /\ BlockFollowsDebt' /\ OnlyFullMonthsBilled'
  BY DEF OneInvoicePerMonth, BlockFollowsDebt, OnlyFullMonthsBilled
<1>. QED
  BY <1>1, <1>2, <1>3 DEF BillInv

\* The same for a step that changes no row.
LEMMA ReadFrame ==
  ASSUME BillInv, NEW c \in Clients, Solo(c), RequestsOK', UNCHANGED billVars, Shaped(c)',
         ~overlap' => Fresh(c)'
  PROVE  BillInv'
<1>1. RowsOK'
  BY DEF BillInv, RowsOK, BillOK, billVars
<1>2. ~overlap' => Calendar' /\ OneInvoicePerMonth' /\ BlockFollowsDebt' /\ OnlyFullMonthsBilled'
  BY DEF BillInv, Calendar, OneInvoicePerMonth, BlockFollowsDebt, OnlyFullMonthsBilled, billVars, Solo
<1>. QED
  BY <1>1, <1>2, StepFrame

\* A step that is alone finds what was read still true.
LEMMA AloneInv ==
  ASSUME BillInv, NEW c \in Clients, Solo(c), ~overlap'
  PROVE  Calendar /\ Fresh(c) /\ OneInvoicePerMonth /\ BlockFollowsDebt /\ OnlyFullMonthsBilled
BY DEF BillInv, Solo, OneInvoicePerMonth, BlockFollowsDebt, OnlyFullMonthsBilled

-----------------------------------------------------------------------------
(* Toggles *)

\* A toggle that starts has read its company.
LEMMA ToggleStart ==
  ASSUME BillInv, NEW c \in Clients, NEW b \in Companies, NEW on \in BOOLEAN, StartToggle(c, b, on)
  PROVE  BillInv'
<1>1. /\ RequestsOK' /\ Solo(c) /\ pc'[c] = "toggle"
      /\ req'[c] = [op |-> "TOGGLE", company |-> b, on |-> on, again |-> Scheduled(row[b], month)]
  BY BeginSolo DEF BillInv, StartToggle
<1>2. Shaped(c)'
  BY <1>1 DEF Shaped, RunSteps
<1>3. Fresh(c)'
  BY <1>1 DEF Fresh, StartToggle, RunSteps, billVars
<1>. QED
  BY <1>1, <1>2, <1>3, ReadFrame DEF StartToggle

\* A toggle writes a row of a company that has the module, from then on or since before.
LEMMA ToggleCommit ==
  ASSUME BillInv, NEW c \in Clients, CommitToggle(c)
  PROVE  BillInv'
<1>1. RequestsOK' /\ Solo(c) /\ pc'[c] = "idle"
  BY FinishSolo DEF BillInv, CommitToggle, Busy
<1>2. Shaped(c)' /\ Fresh(c)'
  BY <1>1 DEF Shaped, Fresh, RunSteps
<1>3. PICK b \in Companies : b = req[c].company
  BY DEF BillInv, Shaped, CommitToggle
<1>4. /\ month' = month /\ bills' = bills /\ standing' = standing /\ off' = off
      /\ plan' = plan \/ plan' = plan \cup {b}
  BY <1>3 DEF CommitToggle, TurnOn, TurnOff
<1>5. RowsOK
  BY DEF BillInv
<1>6. /\ row' = [d \in Companies |-> row'[d]]
      /\ \A d \in Companies \ {b} : row'[d] = row[d]
      /\ \/ row'[b] = row[b]
         \/ \E until, pending : row'[b] = Row(month, until, pending) /\ (b \in plan' \/ ~req[c].on)
         \/ row[b] # None /\ \E until, pending : row'[b] = Row(row[b].since, until, pending)
  <2>0. row = [d \in Companies |-> row[d]] /\ req[c].company = b
    BY <1>3, <1>5 DEF RowsOK
  <2>1. CASE req[c].on /\ req[c].again
    BY <2>0, <2>1 DEF CommitToggle, TurnOn
  <2>2. CASE req[c].on /\ ~req[c].again
    <3>1. row' = [row EXCEPT ![b] = Row(month, None, FALSE)] /\ plan' = plan \cup {b}
      BY <2>0, <2>2 DEF CommitToggle, TurnOn
    <3>2. row'[b] = Row(month, None, FALSE) /\ b \in plan'
      BY <2>0, <3>1
    <3>. QED
      BY <2>0, <3>1, <3>2
  <2>3. CASE ~req[c].on
    <3>1. row' = [row EXCEPT ![b] = Row(IF row[b] = None THEN month ELSE row[b].since, month, TRUE)]
      BY <2>0, <2>3 DEF CommitToggle, TurnOff
    <3>2. row'[b] = Row(IF row[b] = None THEN month ELSE row[b].since, month, TRUE)
      BY <2>0, <3>1
    <3>3. CASE row[b] = None
      BY <2>0, <2>3, <3>1, <3>2, <3>3
    <3>4. CASE row[b] # None
      BY <2>0, <2>3, <3>1, <3>2, <3>4
    <3>. QED
      BY <3>3, <3>4
  <2>. QED
    BY <2>1, <2>2, <2>3
<1>7. row'[b] # None => row'[b].since \in Int /\ (row'[b].since = month \/ (row[b] # None /\ row'[b].since = row[b].since))
  BY <1>5, <1>6 DEF Row, RowsOK
<1>8. RowsOK'
  <2>1. \A d \in Companies : row'[d] # None => row'[d].since \in Int
    BY <1>5, <1>6, <1>7 DEF RowsOK
  <2>2. plan' \subseteq Companies /\ month' \in Int /\ standing' \in [Companies -> Standings] /\ off' \in [Companies -> SUBSET Int]
    BY <1>4, <1>5 DEF RowsOK
  <2>3. \A i \in bills' : BillOK(i)
    BY <1>4, <1>5 DEF RowsOK
  <2>. QED
    BY <1>6, <2>1, <2>2, <2>3 DEF RowsOK, BillOK
<1>9. ASSUME ~overlap' PROVE Calendar' /\ OneInvoicePerMonth' /\ BlockFollowsDebt' /\ OnlyFullMonthsBilled'
  <2>1. Calendar /\ Fresh(c) /\ OneInvoicePerMonth /\ BlockFollowsDebt /\ OnlyFullMonthsBilled /\ ~overlap
    BY <1>1, <1>9, AloneInv DEF Solo
  <2>2. \A d \in Companies : row'[d] # None => d \in plan' /\ \A m \in off[d] : m <= row'[d].since
    <3>1. CASE row[b] = None \/ row'[b].since = month
      <4>1. row'[b] # None => b \in plan'
        BY <1>3, <1>4, <1>6, <2>1 DEF Fresh, CommitToggle, Calendar
      <4>2. row'[b] # None => row'[b].since = month
        BY <1>7, <3>1
      <4>. QED
        BY <1>4, <1>6, <2>1, <4>1, <4>2 DEF Calendar
    <3>2. CASE row[b] # None /\ row'[b].since # month
      BY <1>4, <1>6, <1>7, <2>1, <3>2 DEF Calendar
    <3>. QED
      BY <3>1, <3>2
  <2>3. Calendar'
    BY <1>4, <2>1, <2>2 DEF Calendar
  <2>. QED
    BY <1>4, <2>1, <2>3 DEF OneInvoicePerMonth, BlockFollowsDebt, OnlyFullMonthsBilled
<1>. QED
  BY <1>1, <1>2, <1>8, <1>9, StepFrame

-----------------------------------------------------------------------------
(* The monthly run *)

\* A run that starts bills the month before.
LEMMA RunStart == ASSUME BillInv, NEW c \in Clients, StartRun(c) PROVE BillInv'
<1>1. /\ RequestsOK' /\ Solo(c) /\ pc'[c] = "expired"
      /\ req'[c] = [op |-> "RUN", period |-> month - 1,
                    left |-> {b \in Companies : Lapsed(row[b], month)}, items |-> {}]
  BY BeginSolo DEF BillInv, StartRun
<1>2. Shaped(c)'
  BY <1>1 DEF Shaped, RunSteps, RunShape, BillInv, RowsOK
<1>3. Fresh(c)'
  BY <1>1 DEF Fresh, StartRun, RunSteps, billVars
<1>. QED
  BY <1>1, <1>2, <1>3, ReadFrame DEF StartRun

\* A company that loses the module is without it from this month on, which is not
\* billed yet.
LEMMA RunRemoves == ASSUME BillInv, NEW c \in Clients, Remove(c) PROVE BillInv'
<1>0. RowsOK /\ RequestsOK /\ RunShape(req[c]) /\ Busy(c)
  BY DEF BillInv, Shaped, Remove, RunSteps, Busy
<1>1. PICK b \in req[c].left :
       IF row[b] = None
         THEN Finish(c) /\ UNCHANGED <<row, plan, off, ended>>
         ELSE /\ row' = [row EXCEPT ![b] = None]
              /\ plan' = plan \ {b}
              /\ off' = [off EXCEPT ![b] = @ \cup {month}]
              /\ ended' = ended \cup {[company |-> b, row |-> row[b]]}
              /\ Goto(c, pc[c], [req[c] EXCEPT !.left = @ \ {b}])
  BY DEF Remove
<1>2. /\ month' = month /\ first' = first /\ bills' = bills /\ standing' = standing /\ billed' = billed
      /\ pc[c] \in {"expired", "pending"}
  BY DEF Remove
<1>3. b \in Companies
  BY <1>0, <1>1 DEF RunShape
<1>4. CASE row[b] = None
  <2>1. Finish(c) /\ UNCHANGED billVars
    BY <1>1, <1>2, <1>4 DEF billVars
  <2>2. RequestsOK' /\ Solo(c) /\ pc'[c] = "idle"
    BY <1>0, <2>1, FinishSolo
  <2>3. Shaped(c)' /\ Fresh(c)'
    BY <2>2 DEF Shaped, Fresh, RunSteps
  <2>. QED
    BY <2>1, <2>2, <2>3, ReadFrame
<1>5. CASE row[b] # None
  <2>1. /\ row' = [row EXCEPT ![b] = None] /\ plan' = plan \ {b}
        /\ off' = [off EXCEPT ![b] = @ \cup {month}]
        /\ Goto(c, pc[c], [req[c] EXCEPT !.left = @ \ {b}])
    BY <1>1, <1>5
  <2>2. RequestsOK' /\ Solo(c) /\ pc'[c] = pc[c] /\ req'[c] = [req[c] EXCEPT !.left = @ \ {b}]
    BY <1>0, <2>1, GotoSolo
  <2>3. req'[c] = [op |-> "RUN", period |-> req[c].period, left |-> req[c].left \ {b}, items |-> req[c].items]
    BY <1>0, <2>2 DEF RunShape
  <2>4. Shaped(c)'
    <3>1. pc[c] = "expired" => req[c].items = {}
      BY DEF BillInv, Shaped
    <3>. QED
      BY <1>0, <1>2, <2>2, <2>3, <3>1 DEF Shaped, RunShape
  <2>5. /\ row' = [d \in Companies |-> row'[d]] /\ row'[b] = None
        /\ \A d \in Companies \ {b} : row'[d] = row[d] /\ off'[d] = off[d]
        /\ off' \in [Companies -> SUBSET Int] /\ off'[b] = off[b] \cup {month}
    BY <1>0, <1>3, <2>1 DEF RowsOK
  <2>6. RowsOK'
    <3>1. \A d \in Companies : row'[d] # None => row'[d].since \in Int
      BY <1>0, <2>5 DEF RowsOK
    <3>2. \A i \in bills' : BillOK(i)
      BY <1>0, <1>2 DEF RowsOK
    <3>3. plan' \subseteq Companies /\ month' \in Int /\ standing' \in [Companies -> Standings]
      BY <1>0, <1>2, <2>1 DEF RowsOK
    <3>. QED
      BY <2>5, <3>1, <3>2, <3>3 DEF RowsOK, BillOK
  <2>7. ASSUME ~overlap'
        PROVE  Calendar' /\ Fresh(c)' /\ OneInvoicePerMonth' /\ BlockFollowsDebt' /\ OnlyFullMonthsBilled'
    <3>1. /\ Calendar /\ Fresh(c) /\ OneInvoicePerMonth /\ BlockFollowsDebt /\ OnlyFullMonthsBilled
          /\ ~overlap
      BY <2>2, <2>7, AloneInv DEF Solo
    <3>2. \A d \in Companies : \A m \in off'[d] : m <= month /\ (m \in off[d] \/ m = month)
      BY <1>0, <2>5, <3>1 DEF Calendar, RowsOK
    <3>3. Calendar'
      BY <1>2, <2>1, <2>5, <3>1, <3>2 DEF Calendar
    <3>4. Fresh(c)'
      BY <1>2, <2>2, <2>3, <3>1 DEF Fresh, RunSteps
    <3>5. OneInvoicePerMonth' /\ BlockFollowsDebt'
      BY <1>2, <3>1 DEF OneInvoicePerMonth, BlockFollowsDebt
    <3>6. ASSUME NEW i \in bills, NEW d \in i.items PROVE i.period \notin off'[d]
      <4>1. i.period < month /\ i.period \notin off[d] /\ d \in Companies /\ i.period \in Int
        BY <1>0, <3>1, <3>6 DEF Calendar, OnlyFullMonthsBilled, RowsOK, BillOK
      <4>. QED
        BY <1>0, <3>2, <4>1 DEF RowsOK
    <3>7. OnlyFullMonthsBilled'
      BY <1>2, <3>6 DEF OnlyFullMonthsBilled
    <3>. QED
      BY <3>3, <3>4, <3>5, <3>7
  <2>. QED
    BY <2>2, <2>4, <2>6, <2>7, StepFrame
<1>. QED
  BY <1>4, <1>5

\* The run goes on to the estimate only if nobody has an invoice of the period.
LEMMA RunSeeks == ASSUME BillInv, NEW c \in Clients, SeekInvoice(c) PROVE BillInv'
<1>0. /\ RequestsOK /\ RunShape(req[c]) /\ Busy(c) /\ pc[c] = "expired" /\ req[c].items = {}
      /\ UNCHANGED billVars
  BY DEF BillInv, Shaped, SeekInvoice, RunSteps, Busy
<1>1. CASE Duplicates(req[c].period) = {}
  <2>1. Goto(c, "estimate", [req[c] EXCEPT !.left = Companies])
    BY <1>1 DEF SeekInvoice
  <2>2. RequestsOK' /\ Solo(c) /\ pc'[c] = "estimate" /\ req'[c] = [req[c] EXCEPT !.left = Companies]
    BY <1>0, <2>1, GotoSolo
  <2>3. req'[c] = [op |-> "RUN", period |-> req[c].period, left |-> Companies, items |-> {}]
    BY <1>0, <2>2 DEF RunShape
  <2>4. Shaped(c)'
    BY <1>0, <2>2, <2>3 DEF Shaped, RunShape, RunSteps
  <2>5. ASSUME ~overlap' PROVE Fresh(c)'
    <3>1. Fresh(c)
      BY <2>2, <2>5, AloneInv
    <3>. QED
      BY <1>0, <1>1, <2>2, <2>3, <3>1 DEF Fresh, RunSteps, Duplicates, billVars
  <2>. QED
    BY <1>0, <2>2, <2>4, <2>5, ReadFrame
<1>2. CASE Duplicates(req[c].period) # {}
  <2>1. Goto(c, "deactivate", req[c])
    BY <1>2 DEF SeekInvoice
  <2>2. RequestsOK' /\ Solo(c) /\ pc'[c] = "deactivate" /\ req'[c] = req[c]
    BY <1>0, <2>1, GotoSolo
  <2>3. Shaped(c)'
    BY <1>0, <2>2 DEF Shaped, RunShape, RunSteps
  <2>4. ASSUME ~overlap' PROVE Fresh(c)'
    <3>1. Fresh(c)
      BY <2>2, <2>4, AloneInv
    <3>. QED
      BY <1>0, <2>2, <3>1 DEF Fresh, RunSteps, billVars
  <2>. QED
    BY <1>0, <2>2, <2>3, <2>4, ReadFrame
<1>. QED
  BY <1>1, <1>2

\* A company that is added up has had the module since before the period.
LEMMA RunEstimates == ASSUME BillInv, NEW c \in Clients, Estimate(c) PROVE BillInv'
<1>0. /\ RequestsOK /\ RowsOK /\ RunShape(req[c]) /\ Busy(c) /\ pc[c] = "estimate" /\ UNCHANGED billVars
  BY DEF BillInv, Shaped, Estimate, RunSteps, Busy
<1>1. PICK b \in req[c].left :
        Goto(c, "estimate",
             [req[c] EXCEPT !.left = @ \ {b},
                            !.items = @ \cup (IF Billable(row[b], req[c].period) THEN {b} ELSE {})])
  BY DEF Estimate
<1>2. b \in Companies
  BY <1>0 DEF RunShape
<1>3. PICK more, left, items :
        /\ more = IF Billable(row[b], req[c].period) THEN {b} ELSE {}
        /\ left = req[c].left \ {b} /\ items = req[c].items \cup more
  OBVIOUS
<1>4. Goto(c, "estimate", [req[c] EXCEPT !.left = left, !.items = items])
  BY <1>1, <1>3
<1>5. /\ RequestsOK' /\ Solo(c) /\ pc'[c] = "estimate"
      /\ req'[c] = [req[c] EXCEPT !.left = left, !.items = items]
  BY <1>0, <1>4, GotoSolo
<1>6. req'[c] = [op |-> "RUN", period |-> req[c].period, left |-> left, items |-> items]
  <2>1. PICK r, p, old, found : r = req[c] /\ p = r.period /\ r = [op |-> "RUN", period |-> p, left |-> old, items |-> found]
    BY <1>0 DEF RunShape
  <2>2. [r EXCEPT !.left = left, !.items = items] = [op |-> "RUN", period |-> p, left |-> left, items |-> items]
    <3>1. PICK r1 : r1 = [r EXCEPT !.left = left]
      OBVIOUS
    <3>2. r1 = [op |-> "RUN", period |-> p, left |-> left, items |-> found]
      BY <2>1, <3>1
    <3>3. [r1 EXCEPT !.items = items] = [op |-> "RUN", period |-> p, left |-> left, items |-> items]
      BY <3>2
    <3>4. [r EXCEPT !.left = left, !.items = items] = [r1 EXCEPT !.items = items]
      BY <3>1, Zenon
    <3>. QED
      BY <3>3, <3>4
  <2>. QED
    BY <1>5, <2>1, <2>2
<1>7. more \subseteq Companies /\ (more # {} => more = {b} /\ Billable(row[b], req[c].period))
  BY <1>2, <1>3
<1>9. Shaped(c)'
  BY <1>0, <1>3, <1>5, <1>6, <1>7 DEF Shaped, RunShape, RunSteps
<1>10. ASSUME ~overlap' PROVE Fresh(c)'
  <2>1. Fresh(c) /\ Calendar
    BY <1>5, <1>10, AloneInv
  <2>2. ASSUME more # {} PROVE req[c].period \notin off[b]
    <3>1. row[b] # None /\ row[b].since < req[c].period
      BY <1>7, <2>2 DEF Billable
    <3>2. \A m \in off[b] : m <= row[b].since /\ m \in Int
      BY <1>0, <1>2, <2>1, <3>1 DEF Calendar, RowsOK
    <3>. QED
      BY <1>0, <1>2, <3>1, <3>2 DEF RowsOK, RunShape
  <2>3. \A d \in items : req[c].period \notin off[d]
    BY <1>0, <1>3, <1>7, <2>1, <2>2 DEF Fresh
  <2>. QED
    BY <1>0, <1>5, <1>6, <2>1, <2>3 DEF Fresh, RunSteps, Duplicates, billVars
<1>. QED
  BY <1>0, <1>5, <1>9, <1>10, ReadFrame

\* The only invoice of the period, and its companies were not without the module in it.
LEMMA RunInvoices == ASSUME BillInv, NEW c \in Clients, CreateInvoice(c) PROVE BillInv'
<1>0. /\ RequestsOK /\ RowsOK /\ RunShape(req[c]) /\ Busy(c) /\ pc[c] = "estimate"
      /\ UNCHANGED <<month, first, plan, row, standing, off, ended, billed>>
  BY DEF BillInv, Shaped, CreateInvoice, RunSteps, Busy
<1>1. CASE req[c].items = {}
  <2>1. Goto(c, "deactivate", req[c]) /\ UNCHANGED billVars
    BY <1>0, <1>1 DEF CreateInvoice, billVars
  <2>2. RequestsOK' /\ Solo(c) /\ pc'[c] = "deactivate" /\ req'[c] = req[c]
    BY <1>0, <2>1, GotoSolo
  <2>3. Shaped(c)'
    BY <1>0, <2>2 DEF Shaped, RunShape, RunSteps
  <2>4. ASSUME ~overlap' PROVE Fresh(c)'
    <3>1. Fresh(c)
      BY <2>2, <2>4, AloneInv
    <3>. QED
      BY <1>0, <2>2, <3>1 DEF Fresh, RunSteps, billVars
  <2>. QED
    BY <2>1, <2>2, <2>3, <2>4, ReadFrame
<1>2. CASE req[c].items # {}
  <2>1. PICK nr, p, items : nr = Cardinality(bills) + 1 /\ p = req[c].period /\ items = req[c].items
    OBVIOUS
  <2>2. PICK i : i = [nr |-> nr, period |-> p, items |-> items, paid |-> FALSE]
    OBVIOUS
  <2>3. bills' = bills \cup {i} /\ Goto(c, "block", req[c])
    BY <1>2, <2>1, <2>2 DEF CreateInvoice
  <2>4. RequestsOK' /\ Solo(c) /\ pc'[c] = "block" /\ req'[c] = req[c]
    BY <1>0, <2>3, GotoSolo
  <2>5. Shaped(c)'
    BY <1>0, <2>4 DEF Shaped, RunShape, RunSteps
  <2>6. p \in Int /\ items \subseteq Companies /\ i.period = p /\ i.items = items /\ i.paid = FALSE
    BY <1>0, <2>1, <2>2 DEF RunShape
  <2>7. RowsOK'
    <3>1. BillOK(i)
      BY <2>2, <2>6 DEF BillOK
    <3>2. \A j \in bills' : BillOK(j)
      BY <1>0, <2>3, <3>1 DEF RowsOK
    <3>. QED
      BY <1>0, <3>2 DEF RowsOK, BillOK
  <2>8. ASSUME ~overlap'
        PROVE  Calendar' /\ Fresh(c)' /\ OneInvoicePerMonth' /\ BlockFollowsDebt' /\ OnlyFullMonthsBilled'
    <3>1. /\ Calendar /\ Fresh(c) /\ OneInvoicePerMonth /\ BlockFollowsDebt /\ OnlyFullMonthsBilled
          /\ ~overlap
      BY <2>4, <2>8, AloneInv DEF Solo
    <3>2. /\ p = month - 1 /\ \A j \in bills : j.period # p
          /\ \A b \in items : p \notin off[b]
      BY <1>0, <2>1, <3>1 DEF Fresh, Duplicates, RunSteps
    <3>3. Calendar'
      BY <1>0, <2>3, <2>6, <3>1, <3>2 DEF Calendar, RowsOK
    <3>4. Fresh(c)'
      BY <1>0, <2>1, <2>3, <2>4, <2>6, <3>1 DEF Fresh, RunSteps
    <3>5. OneInvoicePerMonth'
      BY <2>3, <2>6, <3>1, <3>2 DEF OneInvoicePerMonth
    <3>6. BlockFollowsDebt'
      BY <1>0, <2>3, <3>1 DEF BlockFollowsDebt
    <3>7. OnlyFullMonthsBilled'
      BY <1>0, <2>3, <2>6, <3>1, <3>2 DEF OnlyFullMonthsBilled
    <3>. QED
      BY <3>3, <3>4, <3>5, <3>6, <3>7
  <2>. QED
    BY <2>4, <2>5, <2>7, <2>8, StepFrame
<1>. QED
  BY <1>1, <1>2

\* A block of companies that have an unpaid invoice.
LEMMA Blocks ==
  ASSUME BillInv, NEW c \in Clients, RequestsOK', Solo(c), Shaped(c)', ~overlap' => Fresh(c)',
         NEW set \in SUBSET Companies, NEW s \in Standings,
         ~overlap' => \A b \in set : \E i \in bills : ~i.paid /\ b \in i.items,
         standing' = [b \in Companies |-> IF b \in set THEN s ELSE standing[b]],
         UNCHANGED <<month, first, plan, row, bills, off, ended, billed>>
  PROVE  BillInv'
<1>1. RowsOK
  BY DEF BillInv
<1>2. standing' \in [Companies -> Standings]
  BY <1>1 DEF RowsOK
<1>3. RowsOK'
  BY <1>1, <1>2 DEF RowsOK, BillOK
<1>4. ASSUME ~overlap' PROVE Calendar' /\ OneInvoicePerMonth' /\ BlockFollowsDebt' /\ OnlyFullMonthsBilled'
  <2>1. Calendar /\ OneInvoicePerMonth /\ BlockFollowsDebt /\ OnlyFullMonthsBilled /\ ~overlap
    BY <1>4, AloneInv DEF Solo
  <2>2. Calendar' /\ OneInvoicePerMonth' /\ OnlyFullMonthsBilled'
    BY <2>1 DEF Calendar, OneInvoicePerMonth, OnlyFullMonthsBilled
  <2>3. BlockFollowsDebt'
    BY <1>4, <2>1 DEF BlockFollowsDebt
  <2>. QED
    BY <2>2, <2>3
<1>. QED
  BY <1>3, <1>4, StepFrame

\* The run blocks the companies of the invoice that it has created.
LEMMA RunBlocks == ASSUME BillInv, NEW c \in Clients, BlockBilled(c) PROVE BillInv'
<1>0. /\ RequestsOK /\ RunShape(req[c]) /\ Busy(c) /\ pc[c] = "block" /\ Goto(c, "deactivate", req[c])
      /\ UNCHANGED <<month, first, plan, row, bills, off, ended, billed>>
  BY DEF BillInv, Shaped, BlockBilled, RunSteps, Busy
<1>1. RequestsOK' /\ Solo(c) /\ pc'[c] = "deactivate" /\ req'[c] = req[c]
  BY <1>0, GotoSolo
<1>2. Shaped(c)'
  BY <1>0, <1>1 DEF Shaped, RunShape, RunSteps
<1>3. ~overlap' => Fresh(c)'
  BY <1>0, <1>1, AloneInv DEF Fresh, RunSteps
<1>4. ~overlap' => \A b \in req[c].items : \E i \in bills : ~i.paid /\ b \in i.items
  BY <1>0, <1>1, AloneInv DEF Fresh
<1>5. PICK items \in SUBSET Companies : items = req[c].items
  BY <1>0 DEF RunShape
<1>6. standing' = [b \in Companies |-> IF b \in items THEN "SOFT_BLOCK" ELSE standing[b]]
  BY <1>5 DEF BlockBilled
<1>7. "SOFT_BLOCK" \in Standings
  BY DEF Standings
<1>. QED
  BY <1>0, <1>1, <1>2, <1>3, <1>4, <1>5, <1>6, <1>7, Blocks

\* The run reads the modules that are pending.
LEMMA RunReadsPending == ASSUME BillInv, NEW c \in Clients, ReadPending(c) PROVE BillInv'
<1>0. /\ RequestsOK /\ RunShape(req[c]) /\ Busy(c) /\ pc[c] = "deactivate" /\ UNCHANGED billVars
  BY DEF BillInv, Shaped, ReadPending, RunSteps, Busy
<1>1. PICK left : left = {b \in Companies : row[b] # None /\ row[b].pending}
  OBVIOUS
<1>2. RequestsOK' /\ Solo(c) /\ pc'[c] = "pending" /\ req'[c] = [req[c] EXCEPT !.left = left]
  BY <1>0, <1>1, GotoSolo DEF ReadPending
<1>3. req'[c] = [op |-> "RUN", period |-> req[c].period, left |-> left, items |-> req[c].items]
  BY <1>0, <1>2 DEF RunShape
<1>4. Shaped(c)'
  BY <1>0, <1>1, <1>2, <1>3 DEF Shaped, RunShape, RunSteps
<1>5. ~overlap' => Fresh(c)'
  BY <1>0, <1>2, <1>3, AloneInv DEF Fresh, RunSteps, billVars
<1>. QED
  BY <1>0, <1>2, <1>4, <1>5, ReadFrame

\* A request ends and what it has written since its last step touches no proof.
LEMMA Ends ==
  ASSUME BillInv, NEW c \in Clients, Busy(c), Finish(c),
         UNCHANGED <<month, first, plan, row, bills, standing, off>>
  PROVE  BillInv'
<1>1. RequestsOK' /\ Solo(c) /\ pc'[c] = "idle"
  BY FinishSolo DEF BillInv
<1>2. Shaped(c)' /\ Fresh(c)'
  BY <1>1 DEF Shaped, Fresh, RunSteps
<1>3. RowsOK'
  BY DEF BillInv, RowsOK, BillOK
<1>4. ASSUME ~overlap' PROVE Calendar' /\ OneInvoicePerMonth' /\ BlockFollowsDebt' /\ OnlyFullMonthsBilled'
  <2>1. Calendar /\ OneInvoicePerMonth /\ BlockFollowsDebt /\ OnlyFullMonthsBilled /\ ~overlap
    BY <1>1, <1>4, AloneInv DEF Solo
  <2>. QED
    BY <2>1 DEF Calendar, OneInvoicePerMonth, BlockFollowsDebt, OnlyFullMonthsBilled
<1>. QED
  BY <1>1, <1>2, <1>3, <1>4, StepFrame

\* The end of the run, and a crash anywhere.
LEMMA RunEnds == ASSUME BillInv, NEW c \in Clients, EndRun(c) \/ BillAbort(c) PROVE BillInv'
BY Ends DEF EndRun, BillAbort, Busy, billVars

-----------------------------------------------------------------------------
(* The escalation, payments, the calendar *)

\* The escalation reads the companies with a soft block.
LEMMA EscalationStart == ASSUME BillInv, NEW c \in Clients, StartEscalation(c) PROVE BillInv'
<1>1. PICK soft : soft = {b \in Companies : standing[b] = "SOFT_BLOCK"}
  OBVIOUS
<1>2. PICK r : r = [op |-> "ESCALATE", period |-> month - 1, hard |-> soft]
  OBVIOUS
<1>3. Begin(c, "unpaid", r) /\ UNCHANGED billVars
  BY <1>1, <1>2 DEF StartEscalation
<1>4. RequestsOK' /\ Solo(c) /\ pc'[c] = "unpaid" /\ req'[c] = r
  BY <1>3, BeginSolo DEF BillInv
<1>5. Shaped(c)' /\ Fresh(c)'
  BY <1>1, <1>2, <1>4 DEF Shaped, Fresh, RunSteps
<1>. QED
  BY <1>3, <1>4, <1>5, ReadFrame

\* It keeps those that have an unpaid invoice.
LEMMA EscalationReads == ASSUME BillInv, NEW c \in Clients, ReadUnpaid(c) PROVE BillInv'
<1>0. /\ RequestsOK /\ Busy(c) /\ pc[c] = "unpaid" /\ UNCHANGED billVars
      /\ req[c] = [op |-> "ESCALATE", period |-> req[c].period, hard |-> req[c].hard]
      /\ req[c].hard \subseteq Companies
  BY DEF BillInv, Shaped, ReadUnpaid, Busy
<1>1. PICK unpaid : unpaid = {b \in req[c].hard : \E i \in bills : i.period = req[c].period /\ ~i.paid /\ b \in i.items}
  OBVIOUS
<1>2. IF unpaid = {} THEN Finish(c) ELSE Goto(c, "hard", [req[c] EXCEPT !.hard = unpaid])
  BY <1>1 DEF ReadUnpaid
<1>3. CASE unpaid = {}
  BY <1>0, <1>2, <1>3, Ends DEF billVars
<1>4. CASE unpaid # {}
  <2>1. RequestsOK' /\ Solo(c) /\ pc'[c] = "hard" /\ req'[c] = [req[c] EXCEPT !.hard = unpaid]
    BY <1>0, <1>2, <1>4, GotoSolo
  <2>2. req'[c] = [op |-> "ESCALATE", period |-> req[c].period, hard |-> unpaid]
    BY <1>0, <2>1
  <2>3. unpaid \subseteq Companies /\ \A b \in unpaid : \E i \in bills : ~i.paid /\ b \in i.items
    BY <1>0, <1>1
  <2>4. Shaped(c)'
    BY <2>1, <2>2, <2>3 DEF Shaped, RunSteps
  <2>5. Fresh(c)'
    BY <1>0, <2>1, <2>2, <2>3 DEF Fresh, RunSteps, billVars
  <2>. QED
    BY <1>0, <2>1, <2>4, <2>5, ReadFrame
<1>. QED
  BY <1>3, <1>4

\* It blocks them.
LEMMA EscalationBlocks == ASSUME BillInv, NEW c \in Clients, BlockHard(c) PROVE BillInv'
<1>0. /\ RequestsOK /\ Busy(c) /\ pc[c] = "hard" /\ Finish(c)
      /\ req[c].hard \subseteq Companies
      /\ UNCHANGED <<month, first, plan, row, bills, off, ended, billed>>
  BY DEF BillInv, Shaped, BlockHard, Busy
<1>1. RequestsOK' /\ Solo(c) /\ pc'[c] = "idle"
  BY <1>0, FinishSolo
<1>2. Shaped(c)' /\ Fresh(c)'
  BY <1>1 DEF Shaped, Fresh, RunSteps
<1>3. ~overlap' => \A b \in req[c].hard : \E i \in bills : ~i.paid /\ b \in i.items
  BY <1>0, <1>1, AloneInv DEF Fresh
<1>4. PICK hard \in SUBSET Companies : hard = req[c].hard
  BY <1>0
<1>5. standing' = [b \in Companies |-> IF b \in hard THEN "HARD_BLOCK" ELSE standing[b]]
  BY <1>4 DEF BlockHard
<1>6. "HARD_BLOCK" \in Standings
  BY DEF Standings
<1>. QED
  BY <1>0, <1>1, <1>2, <1>3, <1>4, <1>5, <1>6, Blocks

\* A step while no request is under way.
LEMMA InstantFrame ==
  ASSUME BillInv, Instant, RowsOK',
         ~overlap' /\ Calendar /\ OneInvoicePerMonth /\ BlockFollowsDebt /\ OnlyFullMonthsBilled /\ ~overlap
           => Calendar' /\ OneInvoicePerMonth' /\ BlockFollowsDebt' /\ OnlyFullMonthsBilled'
  PROVE  BillInv'
<1>1. RequestsOK' /\ pc' = pc /\ req' = req /\ (~overlap' => ~overlap /\ \A d \in Clients : ~Busy(d))
  BY InstantSolo DEF BillInv
<1>2. \A d \in Clients : Shaped(d)'
  BY <1>1 DEF BillInv, Shaped, RunShape
<1>3. ASSUME ~overlap', NEW d \in Clients PROVE Fresh(d)'
  <2>1. pc'[d] = "idle"
    BY <1>1, <1>3 DEF Busy
  <2>. QED
    BY <2>1 DEF Fresh, RunSteps
<1>4. ~overlap' => Calendar' /\ OneInvoicePerMonth' /\ BlockFollowsDebt' /\ OnlyFullMonthsBilled'
  BY <1>1 DEF BillInv
<1>5. OneInvoicePerMonth' /\ BlockFollowsDebt' /\ OnlyFullMonthsBilled'
  BY <1>4 DEF OneInvoicePerMonth, BlockFollowsDebt, OnlyFullMonthsBilled
<1>. QED
  BY <1>1, <1>2, <1>3, <1>4, <1>5 DEF BillInv

\* A payment lifts the blocks of the companies on the invoice, so those left are blocked
\* for another one.
LEMMA Payment == ASSUME BillInv, NEW i \in bills, PayInvoice(i) PROVE BillInv'
<1>0. RowsOK /\ BillOK(i) /\ UNCHANGED <<month, first, plan, row, off, ended, billed>> /\ Instant
  BY DEF BillInv, RowsOK, PayInvoice
<1>1. PICK j : j = [i EXCEPT !.paid = TRUE]
  OBVIOUS
<1>2. j = [nr |-> i.nr, period |-> i.period, items |-> i.items, paid |-> TRUE]
  BY <1>0, <1>1 DEF BillOK
<1>3. /\ bills' = (bills \ {i}) \cup {j}
      /\ standing' = [b \in Companies |-> IF b \in i.items THEN "ACTIVE" ELSE standing[b]]
  BY <1>1 DEF PayInvoice, Lifted
<1>4. RowsOK'
  <2>1. BillOK(j)
    BY <1>0, <1>2 DEF BillOK
  <2>2. \A k \in bills' : BillOK(k)
    BY <1>0, <1>3, <2>1 DEF RowsOK
  <2>3. standing' \in [Companies -> Standings]
    BY <1>0, <1>3 DEF RowsOK, Standings
  <2>. QED
    BY <1>0, <2>2, <2>3 DEF RowsOK, BillOK
<1>5. ASSUME Calendar, OneInvoicePerMonth, BlockFollowsDebt, OnlyFullMonthsBilled, ~overlap
      PROVE  Calendar' /\ OneInvoicePerMonth' /\ BlockFollowsDebt' /\ OnlyFullMonthsBilled'
  <2>1. j.period = i.period /\ j.items = i.items
    BY <1>2
  <2>2. Calendar'
    BY <1>0, <1>3, <1>5, <2>1 DEF Calendar
  <2>3. OneInvoicePerMonth'
    BY <1>3, <1>5, <2>1 DEF OneInvoicePerMonth
  <2>4. BlockFollowsDebt'
    BY <1>3, <1>5 DEF BlockFollowsDebt
  <2>5. OnlyFullMonthsBilled'
    BY <1>0, <1>3, <1>5, <2>1 DEF OnlyFullMonthsBilled
  <2>. QED
    BY <2>2, <2>3, <2>4, <2>5
<1>. QED
  BY <1>0, <1>4, <1>5, InstantFrame

\* Another payment of a company lifts its block.
LEMMA OtherPayment == ASSUME BillInv, NEW b \in Companies, PayOrder(b) PROVE BillInv'
<1>0. /\ RowsOK /\ UNCHANGED <<month, first, plan, row, bills, off, ended, billed>> /\ Instant
      /\ standing' = [standing EXCEPT ![b] = "ACTIVE"]
  BY DEF BillInv, PayOrder
<1>1. /\ standing' \in [Companies -> Standings]
      /\ \A d \in Companies : standing'[d] # "ACTIVE" => standing[d] # "ACTIVE"
  BY <1>0 DEF RowsOK, Standings
<1>2. RowsOK'
  BY <1>0, <1>1 DEF RowsOK, BillOK
<1>3. ASSUME Calendar, OneInvoicePerMonth, BlockFollowsDebt, OnlyFullMonthsBilled, ~overlap
      PROVE  Calendar' /\ OneInvoicePerMonth' /\ BlockFollowsDebt' /\ OnlyFullMonthsBilled'
  BY <1>0, <1>1, <1>3 DEF Calendar, OneInvoicePerMonth, BlockFollowsDebt, OnlyFullMonthsBilled
<1>. QED
  BY <1>0, <1>2, <1>3, InstantFrame

\* A new month is later than every billed one; a company without the module has no row.
LEMMA NewDay == ASSUME BillInv, NextBillDay PROVE BillInv'
<1>0. RowsOK /\ UNCHANGED <<plan, row, bills, standing, ended, billed>> /\ Instant
  BY DEF BillInv, NextBillDay
<1>1. month' \in Int /\ month <= month'
  BY <1>0 DEF NextBillDay, RowsOK
<1>2. PICK m : m = month'
  OBVIOUS
<1>3. off' = [b \in Companies |-> IF b \in plan THEN off[b] ELSE off[b] \cup {m}]
  BY <1>2 DEF NextBillDay
<1>4. RowsOK'
  <2>1. off' \in [Companies -> SUBSET Int]
    BY <1>0, <1>1, <1>2, <1>3 DEF RowsOK
  <2>. QED
    BY <1>0, <1>1, <2>1 DEF RowsOK, BillOK
<1>5. ASSUME Calendar, OneInvoicePerMonth, BlockFollowsDebt, OnlyFullMonthsBilled, ~overlap
      PROVE  Calendar' /\ OneInvoicePerMonth' /\ BlockFollowsDebt' /\ OnlyFullMonthsBilled'
  <2>1. \A i \in bills : i.period \in Int /\ i.period < m /\ i.items \subseteq Companies
    BY <1>0, <1>1, <1>2, <1>5 DEF Calendar, RowsOK, BillOK
  <2>2. \A b \in Companies : \A k \in off'[b] : k <= m /\ (k \in off[b] \/ k = m)
    BY <1>0, <1>1, <1>2, <1>3, <1>5 DEF Calendar, RowsOK
  <2>3. \A b \in Companies : row[b] # None => b \in plan /\ off'[b] = off[b]
    BY <1>3, <1>5 DEF Calendar
  <2>4. Calendar'
    BY <1>0, <1>2, <1>5, <2>1, <2>2, <2>3 DEF Calendar
  <2>5. OneInvoicePerMonth' /\ BlockFollowsDebt'
    BY <1>0, <1>5 DEF OneInvoicePerMonth, BlockFollowsDebt
  <2>6. ASSUME NEW i \in bills, NEW b \in i.items PROVE i.period \notin off'[b]
    BY <1>5, <2>1, <2>2, <2>6 DEF OnlyFullMonthsBilled
  <2>7. OnlyFullMonthsBilled'
    BY <1>0, <2>6 DEF OnlyFullMonthsBilled
  <2>. QED
    BY <2>4, <2>5, <2>7
<1>. QED
  BY <1>0, <1>4, <1>5, InstantFrame

\* Other components only make the clients busy.
LEMMA BesideBilling ==
  ASSUME BillInv, UNCHANGED billVars, Instant \/ \E c \in Clients : BillBeside(c)
  PROVE  BillInv'
<1>1. CASE Instant
  <2>1. RowsOK'
    BY DEF BillInv, RowsOK, BillOK, billVars
  <2>2. Calendar /\ OneInvoicePerMonth /\ BlockFollowsDebt /\ OnlyFullMonthsBilled /\ ~overlap
          => Calendar' /\ OneInvoicePerMonth' /\ BlockFollowsDebt' /\ OnlyFullMonthsBilled'
    BY DEF Calendar, OneInvoicePerMonth, BlockFollowsDebt, OnlyFullMonthsBilled, billVars
  <2>. QED
    BY <1>1, <2>1, <2>2, InstantFrame
<1>2. ASSUME NEW c \in Clients, BillBeside(c) PROVE BillInv'
  <2>1. RequestsOK' /\ Solo(c) /\ pc'[c] \notin BillSteps
    BY <1>2, ElsewhereSolo DEF BillInv, BillBeside
  <2>2. Shaped(c)' /\ Fresh(c)'
    BY <2>1 DEF Shaped, Fresh, RunSteps, BillSteps
  <2>. QED
    BY <2>1, <2>2, ReadFrame
<1>. QED
  BY <1>1, <1>2

-----------------------------------------------------------------------------
(* The specification *)

\* The invariant is inductive.
LEMMA BillingInvariant == BillSpec => []BillInv
<1>1. BillInv /\ [BillNext]_billAll => BillInv'
  <2>. SUFFICES ASSUME BillInv, [BillNext]_billAll PROVE BillInv'
    OBVIOUS
  <2>1. CASE UNCHANGED billAll
    <3>1. /\ UNCHANGED billVars /\ pc' = pc /\ req' = req /\ overlap' = overlap
      BY <2>1 DEF billAll, requestVars
    <3>2. RequestsOK' /\ RowsOK' /\ \A c \in Clients : Shaped(c)' /\ (Fresh(c) => Fresh(c)')
      BY <3>1 DEF BillInv, RequestsOK, Busy, RowsOK, BillOK, billVars, Shaped, RunShape, Fresh, Duplicates
    <3>3. /\ Calendar => Calendar'
          /\ OneInvoicePerMonth' /\ BlockFollowsDebt' /\ OnlyFullMonthsBilled'
      BY <3>1 DEF BillInv, Calendar, OneInvoicePerMonth, BlockFollowsDebt, OnlyFullMonthsBilled, billVars
    <3>. QED
      BY <3>1, <3>2, <3>3 DEF BillInv
  <2>2. CASE BillInstant \/ (Instant /\ UNCHANGED billVars)
    BY <2>2, NewDay, Payment, OtherPayment, BesideBilling DEF BillInstant
  <2>3. ASSUME NEW c \in Clients, BillStart(c) \/ BillBeside(c) \/ BillAbort(c) PROVE BillInv'
    <3>1. CASE BillStart(c)
      BY <3>1, ToggleStart, RunStart, EscalationStart DEF BillStart
    <3>2. CASE BillBeside(c)
      BY <3>2, BesideBilling DEF BillBeside
    <3>. QED
      BY <2>3, <3>1, <3>2, RunEnds
  <2>4. ASSUME NEW c \in Clients, BillStep(c) PROVE BillInv'
    BY <2>4, ToggleCommit, RunRemoves, RunSeeks, RunEstimates, RunInvoices, RunBlocks, RunReadsPending,
       RunEnds, EscalationReads, EscalationBlocks DEF BillStep
  <2>. QED
    BY <2>1, <2>2, <2>3, <2>4 DEF BillNext
<1>. QED
  BY <1>1, BillInitial, PTL DEF BillSpec, billAll

\* One invoice of the owner for a month, whatever is repeated, paid or cut short by a
\* crash, unless requests overlap (runMonthlyBilling, billing-monthly.service.ts).
THEOREM OneInvoice == BillSpec => []OneInvoicePerMonth
BY BillingInvariant, PTL DEF BillInv

\* A blocked company has an unpaid invoice, unless requests overlap
\* (finalizePaidSubscriptionInvoice, runHardBlockEscalationCron).
THEOREM BlockDebt == BillSpec => []BlockFollowsDebt
BY BillingInvariant, PTL DEF BillInv

\* Only months are invoiced through which a company had the module, unless requests
\* overlap (estimatePostpaidMonthlyAznForOrganization).
THEOREM FullMonths == BillSpec => []OnlyFullMonthsBilled
BY BillingInvariant, PTL DEF BillInv

-----------------------------------------------------------------------------
(* The whole office *)

\* The steps at which requests of the other components wait.
LedgerSteps == {"post", "rows", "sums", "merge", "close", "patch"}
CashSteps == {"gap", "open", "book", "mark", "spend"}
PaySteps == {"send", "paid", "pay", "drafts", "registries", "settle"}

\* Requests of Ledger wait at its steps.
LEMMA ClosingUses == ASSUME NEW c \in Clients, Closing(c) PROVE Uses(c, LedgerSteps)
<1>1. CASE \E m \in Months, op \in {"CLOSE", "DEPRECIATE"} : StartClose(c, op, m)
  BY <1>1, UsesBegin DEF StartClose, LedgerSteps
<1>2. CASE \E u \in Locks : StartPatch(c, u)
  BY <1>2, UsesBegin DEF StartPatch, LedgerSteps
<1>3. CASE PostDepreciation(c)
  BY <1>3, UsesGoto, UsesFinish DEF PostDepreciation, CheckOpen, LedgerSteps
<1>4. CASE Accrue(c)
  BY <1>4, UsesGoto, UsesFinish DEF Accrue, LedgerSteps
<1>5. CASE TakeSums(c)
  BY <1>5, UsesGoto DEF TakeSums, At, LedgerSteps
<1>6. CASE MergeClosed(c)
  BY <1>6, UsesGoto DEF MergeClosed, At, LedgerSteps
<1>7. CASE CommitClose(c) \/ CommitDepreciation(c) \/ CommitPatch(c)
  BY <1>7, UsesFinish DEF CommitClose, CommitDepreciation, CommitPatch, At, LedgerSteps
<1>8. CASE FindRow(c)
  BY <1>8, UsesGoto DEF FindRow, LedgerSteps
<1>. QED
  BY <1>1, <1>2, <1>3, <1>4, <1>5, <1>6, <1>7, <1>8 DEF Closing, LedgerStep

\* Requests of the cash desk wait at its steps.
LEMMA CashingUses == ASSUME NEW c \in Clients, Cashing(c) PROVE Uses(c, CashSteps)
<1>1. CASE \E o \in Orders : StartPost(c, o)
  BY <1>1, UsesBegin DEF StartPost, CashSteps
<1>2. CASE \E d \in Days : StartExpense(c, d)
  BY <1>2, UsesBegin DEF StartExpense, CashSteps
<1>3. CASE TestGap(c)
  BY <1>3, UsesGoto, UsesFinish DEF TestGap, At, CashSteps
<1>4. CASE TestOpen(c)
  BY <1>4, UsesGoto, UsesFinish DEF TestOpen, CheckOpen, At, CashSteps
<1>5. CASE BookOrder(c) \/ Spend(c)
  BY <1>5, UsesFinish DEF BookOrder, Spend, At, CashSteps
<1>. QED
  BY <1>1, <1>2, <1>3, <1>4, <1>5 DEF Cashing, CashStep

\* Requests of payroll and the bank lines wait at their steps.
LEMMA PayingUses == ASSUME NEW c \in Clients, Paying(c) PROVE Uses(c, PaySteps)
<1>1. CASE \E g \in Registries, m \in Months : CreateRegistry(c, g, m)
  BY <1>1, UsesBegin DEF CreateRegistry, PaySteps
<1>2. CASE \E g \in Registries : StartPaid(c, g)
  BY <1>2, UsesBegin DEF StartPaid, PaySteps
<1>3. CASE \E p \in Drafts : CreateDraft(c, p)
  BY <1>3, UsesBegin DEF CreateDraft, PaySteps
<1>4. CASE \E l \in Lines : ImportLine(c, l)
  BY <1>4, UsesBegin DEF ImportLine, PaySteps
<1>5. CASE SendRegistry(c) \/ SendDraft(c) \/ CommitPaid(c) \/ Settle(c)
  BY <1>5, UsesFinish DEF SendRegistry, SendDraft, CommitPaid, Settle, At, PaySteps
<1>6. CASE TestPaid(c)
  BY <1>6, UsesGoto, UsesFinish DEF TestPaid, CheckOpen, At, PaySteps
<1>7. CASE ReadDrafts(c)
  BY <1>7, UsesGoto DEF ReadDrafts, Choose, At, PaySteps
<1>8. CASE ReadRegistries(c)
  BY <1>8, UsesGoto, UsesFinish DEF ReadRegistries, Choose, At, PaySteps
<1>. QED
  BY <1>1, <1>2, <1>3, <1>4, <1>5, <1>6, <1>7, <1>8 DEF Paying, PayStep

\* Requests of billing wait at its steps.
LEMMA BillingUses == ASSUME NEW c \in Clients, Billing(c) PROVE Uses(c, BillSteps)
<1>1. CASE \E b \in Companies, on \in BOOLEAN : StartToggle(c, b, on)
  BY <1>1, UsesBegin DEF StartToggle, BillSteps
<1>2. CASE StartRun(c) \/ StartEscalation(c)
  BY <1>2, UsesBegin DEF StartRun, StartEscalation, BillSteps
<1>3. CASE CommitToggle(c) \/ EndRun(c) \/ BlockHard(c)
  BY <1>3, UsesFinish DEF CommitToggle, EndRun, BlockHard, BillSteps
<1>4. CASE Remove(c)
  BY <1>4, UsesGoto, UsesFinish DEF Remove, BillSteps
<1>5. CASE SeekInvoice(c)
  BY <1>5, UsesGoto DEF SeekInvoice, BillSteps
<1>8. CASE Estimate(c)
  <2>1. PICK r : Goto(c, "estimate", r)
    BY <1>8 DEF Estimate
  <2>. QED
    BY <1>8, <2>1, UsesGoto DEF Estimate, BillSteps
<1>6. CASE CreateInvoice(c) \/ BlockBilled(c) \/ ReadPending(c)
  BY <1>6, UsesGoto DEF CreateInvoice, BlockBilled, ReadPending, BillSteps
<1>7. CASE ReadUnpaid(c)
  BY <1>7, UsesGoto, UsesFinish DEF ReadUnpaid, BillSteps
<1>. QED
  BY <1>1, <1>2, <1>3, <1>4, <1>5, <1>6, <1>7, <1>8 DEF Billing, BillStart, BillStep

\* Requests of staffing wait at its steps.
LEMMA EmployingUses == ASSUME NEW c \in Clients, Employing(c) PROVE Uses(c, StaffSteps)
<1>1. CASE StaffStart(c)
  <2>1. ASSUME NEW e \in Employees, NEW p \in Positions, StartHire(c, e, p) PROVE Uses(c, StaffSteps)
    BY <2>1, UsesBegin DEF StartHire, StaffSteps
  <2>2. ASSUME NEW p \in Positions, NEW n \in 0 .. MaxSlots, StartResize(c, p, n) PROVE Uses(c, StaffSteps)
    BY <2>2, UsesBegin DEF StartResize, StaffSteps
  <2>3. ASSUME NEW d \in Departments, NEW p \in Departments, StartMove(c, d, p) PROVE Uses(c, StaffSteps)
    BY <2>3, UsesBegin DEF StartMove, StaffSteps
  <2>. QED
    BY <1>1, <2>1, <2>2, <2>3 DEF StaffStart
<1>2. CASE CommitHire(c) \/ CommitResize(c) \/ CommitMove(c)
  BY <1>2, UsesFinish DEF CommitHire, CommitResize, CommitMove, StaffSteps
<1>3. CASE Walk(c) \/ WalkEnd(c)
  BY <1>3, UsesGoto, UsesFinish DEF Walk, WalkEnd, StaffSteps
<1>. QED
  BY <1>1, <1>2, <1>3 DEF Employing, StaffStart, StaffStep

\* What a component does is elsewhere for staffing and for billing.
LEMMA Besides ==
  ASSUME NEW c \in Clients, Closing(c) \/ Cashing(c) \/ Paying(c)
  PROVE  Elsewhere(c, StaffSteps) /\ Elsewhere(c, BillSteps)
<1>1. /\ LedgerSteps \cap StaffSteps = {} /\ CashSteps \cap StaffSteps = {} /\ PaySteps \cap StaffSteps = {}
      /\ LedgerSteps \cap BillSteps = {} /\ CashSteps \cap BillSteps = {} /\ PaySteps \cap BillSteps = {}
      /\ "idle" \notin LedgerSteps \cup CashSteps \cup PaySteps \cup StaffSteps \cup BillSteps
  BY DEF LedgerSteps, CashSteps, PaySteps, StaffSteps, BillSteps
<1>. QED
  BY <1>1, ClosingUses, CashingUses, PayingUses, UsesElsewhere

\* Billing is elsewhere for staffing, and the other way round.
LEMMA Apart ==
  ASSUME NEW c \in Clients
  PROVE  (Billing(c) => Elsewhere(c, StaffSteps)) /\ (Employing(c) => Elsewhere(c, BillSteps))
<1>1. StaffSteps \cap BillSteps = {} /\ BillSteps \cap StaffSteps = {} /\ "idle" \notin StaffSteps \cup BillSteps
  BY DEF StaffSteps, BillSteps
<1>. QED
  BY <1>1, BillingUses, EmployingUses, UsesElsewhere

-----------------------------------------------------------------------------
(* Staffing in the office *)

\* A request of a client is one of staffing or runs beside it.
LEMMA StaffClient ==
  ASSUME NEW c \in Clients,
         Closing(c) \/ Cashing(c) \/ Paying(c) \/ Employing(c) \/ Billing(c) \/ Abort(c)
  PROVE  StaffNext
<1>1. CASE Closing(c) \/ Cashing(c) \/ Paying(c)
  BY <1>1, Besides DEF Closing, Cashing, Paying, StaffBeside, StaffNext
<1>2. CASE Billing(c)
  BY <1>2, Apart DEF Billing, StaffBeside, StaffNext
<1>3. CASE Employing(c)
  BY <1>3 DEF Employing, StaffStart, StaffNext
<1>4. CASE Abort(c)
  BY <1>4 DEF Abort, StaffAbort, StaffNext
<1>. QED
  BY <1>1, <1>2, <1>3, <1>4

\* Requests of one statement, and the calendar.
LEMMA StaffOthers ==
  ASSUME \/ Drafting
         \/ PayInstant /\ UNCHANGED <<cashVars, staffVars, billVars>>
         \/ BillInstant /\ UNCHANGED <<ledgerVars, cashVars, payVars, staffVars>>
  PROVE  StaffNext \/ UNCHANGED staffAll
<1>1. CASE Drafting
  BY <1>1 DEF Drafting, NextDay, CreateOrder, StaffNext, staffAll
<1>2. CASE PayInstant /\ UNCHANGED <<cashVars, staffVars, billVars>>
  BY <1>2 DEF PayInstant, CreateRun, PostRun, StaffNext
<1>3. CASE BillInstant /\ UNCHANGED <<ledgerVars, cashVars, payVars, staffVars>>
  BY <1>3 DEF BillInstant, NextBillDay, PayInvoice, PayOrder, StaffNext
<1>. QED
  BY <1>1, <1>2, <1>3

\* Every step of the office is a step of staffing.
LEMMA StaffSimulates == [Next]_officeVars => [StaffNext]_staffAll
<1>. SUFFICES ASSUME [Next]_officeVars PROVE StaffNext \/ UNCHANGED staffAll
  OBVIOUS
<1>1. CASE UNCHANGED officeVars
  BY <1>1 DEF officeVars, staffAll
<1>2. CASE Drafting \/ ("WAGES" \in scene /\ PayInstant /\ UNCHANGED <<cashVars, staffVars, billVars>>)
           \/ ("BILL" \in scene /\ BillInstant /\ UNCHANGED <<ledgerVars, cashVars, payVars, staffVars>>)
  BY <1>2, StaffOthers
<1>3. CASE StaffInstant
  BY <1>3 DEF StaffNext
<1>. QED
  BY <1>1, <1>2, <1>3, StaffClient DEF Next

\* The office implements its staffing: every behaviour of it is one of StaffSpec.
THEOREM OfficeStaffs == Spec => StaffSpec
<1>1. Init => StaffInit /\ RequestInit
  BY DEF Init
<1>. QED
  BY <1>1, StaffSimulates, PTL DEF Spec, StaffSpec, staffAll

\* Whatever the office does beside, departments form trees unless requests overlap
\* (updateDepartment, hr.service.ts).
THEOREM OfficeTrees == Spec => []DepartmentsAreTrees
BY OfficeStaffs, Trees, PTL

\* Whatever the office does beside, hires never exceed the slots of a position
\* (createEmployee, hr.service.ts).
THEOREM OfficeSlots == Spec => []SlotsSuffice
BY OfficeStaffs, Slots, PTL

-----------------------------------------------------------------------------
(* Billing in the office *)

\* A request of a client is one of billing or runs beside it.
LEMMA BillClient ==
  ASSUME NEW c \in Clients,
         Closing(c) \/ Cashing(c) \/ Paying(c) \/ Employing(c) \/ Billing(c) \/ Abort(c)
  PROVE  BillNext
<1>1. CASE Closing(c) \/ Cashing(c) \/ Paying(c)
  BY <1>1, Besides DEF Closing, Cashing, Paying, BillBeside, BillNext
<1>2. CASE Employing(c)
  BY <1>2, Apart DEF Employing, BillBeside, BillNext
<1>3. CASE Billing(c)
  BY <1>3 DEF Billing, BillNext
<1>4. CASE Abort(c)
  BY <1>4 DEF Abort, BillAbort, BillNext
<1>. QED
  BY <1>1, <1>2, <1>3, <1>4

\* Every step of the office is a step of billing.
LEMMA BillSimulates == [Next]_officeVars => [BillNext]_billAll
<1>. SUFFICES ASSUME [Next]_officeVars PROVE BillNext \/ UNCHANGED billAll
  OBVIOUS
<1>1. CASE UNCHANGED officeVars
  BY <1>1 DEF officeVars, billAll
<1>2. CASE Drafting
  BY <1>2 DEF Drafting, NextDay, CreateOrder, BillNext, billAll
<1>3. CASE PayInstant /\ UNCHANGED <<cashVars, staffVars, billVars>>
  BY <1>3 DEF PayInstant, CreateRun, PostRun, BillNext
<1>4. CASE StaffInstant /\ UNCHANGED <<ledgerVars, cashVars, payVars, billVars>>
  BY <1>4 DEF StaffInstant, Leave, Detach, BillNext
<1>5. CASE BillInstant
  BY <1>5 DEF BillNext
<1>. QED
  BY <1>1, <1>2, <1>3, <1>4, <1>5, BillClient DEF Next

\* The office implements its billing: every behaviour of it is one of BillSpec.
THEOREM OfficeBills == Spec => BillSpec
<1>1. Init => BillInit /\ RequestInit
  BY DEF Init
<1>. QED
  BY <1>1, BillSimulates, PTL DEF Spec, BillSpec, billAll

\* Whatever the office does beside, billing keeps to one invoice for a month, to blocks
\* that follow the debt and to full months, unless requests overlap.
THEOREM OfficeInvoices == Spec => [](OneInvoicePerMonth /\ BlockFollowsDebt /\ OnlyFullMonthsBilled)
BY OfficeBills, OneInvoice, BlockDebt, FullMonths, PTL
=============================================================================
