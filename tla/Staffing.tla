------------------------------ MODULE Staffing ------------------------------
(***************************************************************************)
(* Employees on positions with a limited number of slots, and the tree of  *)
(* departments (employees.service.ts, org-structure.service.ts).           *)
(*                                                                         *)
(* Hiring and moving count the employees of the position and write in one  *)
(* SERIALIZABLE transaction: of two that count the same position only one  *)
(* commits.  The change of the slots of a position and the departures run  *)
(* at READ COMMITTED and take no part in that.  The test that a new parent *)
(* of a department closes no cycle reads one department after the other.   *)
(***************************************************************************)
EXTENDS Requests

CONSTANTS
  Employees,
  Positions,
  Departments, \* all of them roots at first
  MaxSlots     \* bound of the model: the largest number of slots asked for

ASSUME StaffingAssumption ==
  /\ IsFiniteSet(Employees)
  /\ MaxSlots \in Nat
  /\ None \notin Positions \cup Departments

VARIABLES
  place,  \* the position of each employee, None without a row
  slots,  \* totalSlots of each position
  parent, \* parentId of each department
  resized \* history: a change of slots ran beside another request

staffVars == <<place, slots, parent, resized>>

Occupants(p) == {e \in Employees : place[e] = p}

StaffInit ==
  /\ place = [e \in Employees |-> None]
  /\ slots = [p \in Positions |-> 1]
  /\ parent = [d \in Departments |-> None]
  /\ resized = FALSE

-----------------------------------------------------------------------------
(* Pure parts.  X_Y is a faulty variant of X that no action uses. *)

\* The count of assertPositionSlotAvailableTx, the employee excluded.
Free_Full(e, p) == Cardinality(Occupants(p) \ {e}) <= slots[p]
Free(e, p) == Cardinality(Occupants(p) \ {e}) < slots[p]

\* What SERIALIZABLE adds: the employee is where it was, and nobody has joined the
\* position since it was counted.
Undisturbed_Committed(r) == place[r.employee] = r.from
Undisturbed(r) == place[r.employee] = r.from /\ Occupants(r.position) \subseteq r.seen

\* assertParentNoCycle: the next department on the way up from the new parent.
Above_Parent(d) == None
Above(d) == parent[d]

-----------------------------------------------------------------------------
(* Employees *)

Mixes(op) == \E c \in Clients : req[c].op = op

\* create, or update with another position: the count.
StartHire(c, e, p) ==
  /\ place[e] # p /\ Free(e, p)
  /\ Begin(c, "hire", [op |-> "HIRE", employee |-> e, from |-> place[e], position |-> p,
                      seen |-> Occupants(p)])
  /\ resized' = (resized \/ Mixes("RESIZE"))
  /\ UNCHANGED <<place, slots, parent>>

\* The row and the commit; a serialization failure ends the request instead.
CommitHire(c) ==
  LET r == req[c]
  IN  /\ pc[c] = "hire"
      /\ place' = IF Undisturbed(r) THEN [place EXCEPT ![r.employee] = r.position] ELSE place
      /\ Finish(c)
      /\ UNCHANGED <<slots, parent, resized>>

\* remove
Leave(e) ==
  /\ place[e] # None
  /\ place' = [place EXCEPT ![e] = None]
  /\ Instant
  /\ UNCHANGED <<slots, parent, resized>>

\* updateJobPosition: the count of the employees.
StartResize(c, p, n) ==
  /\ Cardinality(Occupants(p)) <= n
  /\ Begin(c, "resize", [op |-> "RESIZE", position |-> p, slots |-> n])
  /\ resized' = (resized \/ Mixes("HIRE"))
  /\ UNCHANGED <<place, slots, parent>>

CommitResize(c) ==
  /\ pc[c] = "resize"
  /\ slots' = [slots EXCEPT ![req[c].position] = req[c].slots]
  /\ Finish(c)
  /\ UNCHANGED <<place, parent, resized>>

-----------------------------------------------------------------------------
(* Departments *)

\* updateDepartment with a parent: the walk starts at the parent.
StartMove(c, d, p) ==
  /\ p # d
  /\ Begin(c, "walk", [op |-> "MOVE", department |-> d, under |-> p, at |-> p, seen |-> {}])
  /\ UNCHANGED staffVars

\* One step of the walk: refused, a cycle that exists, or one department further up.
Walk(c) ==
  LET r == req[c]
  IN  /\ pc[c] = "walk" /\ r.at # None
      /\ \/ r.at = r.department /\ Finish(c)
         \/ r.at # r.department /\ r.at \in r.seen /\ Goto(c, "move", r)
         \/ /\ r.at # r.department /\ r.at \notin r.seen
            /\ Goto(c, "walk", [op |-> "MOVE", department |-> r.department, under |-> r.under,
                                at |-> Above(r.at), seen |-> r.seen \cup {r.at}])
      /\ UNCHANGED staffVars

\* The walk ends at a root.
WalkEnd(c) ==
  /\ pc[c] = "walk" /\ req[c].at = None
  /\ Goto(c, "move", req[c])
  /\ UNCHANGED staffVars

\* The update of the department.
CommitMove(c) ==
  /\ pc[c] = "move"
  /\ parent' = [parent EXCEPT ![req[c].department] = req[c].under]
  /\ Finish(c)
  /\ UNCHANGED <<place, slots, resized>>

Detach(d) ==
  /\ parent[d] # None
  /\ parent' = [parent EXCEPT ![d] = None]
  /\ Instant
  /\ UNCHANGED <<place, slots, resized>>

-----------------------------------------------------------------------------
StaffInstant == (\E e \in Employees : Leave(e)) \/ (\E d \in Departments : Detach(d))

StaffStart(c) ==
  \/ \E e \in Employees, p \in Positions : StartHire(c, e, p)
  \/ \E p \in Positions, n \in 0 .. MaxSlots : StartResize(c, p, n)
  \/ \E d, p \in Departments : StartMove(c, d, p)

StaffStep(c) ==
  CommitHire(c) \/ CommitResize(c) \/ Walk(c) \/ WalkEnd(c) \/ CommitMove(c)

\* A crash, a time-out or a refusal.
StaffAbort(c) == Busy(c) /\ Finish(c) /\ UNCHANGED staffVars

\* Requests of other components run beside: they use clients and no row of this one.
StaffSteps == {"hire", "resize", "walk", "move"}

StaffBeside(c) == Elsewhere(c, StaffSteps) /\ UNCHANGED staffVars

StaffNext ==
  \/ StaffInstant
  \/ Instant /\ UNCHANGED staffVars
  \/ \E c \in Clients : StaffStart(c) \/ StaffStep(c) \/ StaffAbort(c) \/ StaffBeside(c)

StaffSpec == (StaffInit /\ RequestInit) /\ [][StaffNext]_<<staffVars, requestVars>>

-----------------------------------------------------------------------------
(* Properties *)

\* However hires and moves overlap, no position has more employees than slots,
\* unless a change of its slots runs beside them.
SlotsSuffice ==
  resized \/ \A p \in Positions : Cardinality(Occupants(p)) <= slots[p]

\* Every set of departments has one whose parent is not in it: the departments
\* form trees, unless two changes of parents overlap.
DepartmentsAreTrees ==
  overlap \/ \A D \in SUBSET Departments : D # {} => \E d \in D : parent[d] \notin D
=============================================================================
