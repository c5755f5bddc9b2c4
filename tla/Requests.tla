------------------------------ MODULE Requests ------------------------------
(***************************************************************************)
(* Requests of several clients to the API, and how they overlap.           *)
(*                                                                         *)
(* A handler is asynchronous code over a database at READ COMMITTED: other *)
(* requests run between any two of its reads and before its transaction    *)
(* commits.  Modules that extend this one give a handler one action per    *)
(* read that later decides something, and one for the commit; "req" holds  *)
(* what the handler has read so far.  A crash, a time-out or a refused     *)
(* statement ends a request wherever it is.                                *)
(***************************************************************************)
EXTENDS Integers, FiniteSets

CONSTANTS
  Clients,      \* concurrent requests
  MaxRequests,  \* bound of the model: requests of several steps that are started
  None

ASSUME RequestsAssumption == MaxRequests \in Nat

VARIABLES
  pc,      \* the next step of each client's request
  req,     \* the request and what it has read
  started, \* history: requests of several steps so far
  overlap  \* history: a request ran while another was under way

requestVars == <<pc, req, started, overlap>>

NoRequest == [op |-> "NONE"]

RequestInit ==
  /\ pc = [c \in Clients |-> "idle"]
  /\ req = [c \in Clients |-> NoRequest]
  /\ started = 0
  /\ overlap = FALSE

Busy(c) == pc[c] # "idle"
At(c, op, step) == pc[c] = step /\ req[c].op = op

\* A request starts, with what its first reads found.
Begin(c, step, r) ==
  /\ ~Busy(c) /\ started < MaxRequests
  /\ pc' = [pc EXCEPT ![c] = step]
  /\ req' = [req EXCEPT ![c] = r]
  /\ started' = started + 1
  /\ overlap' = (overlap \/ \E d \in Clients : Busy(d))

\* It goes on, with what it has read meanwhile.
Goto(c, step, r) ==
  /\ pc' = [pc EXCEPT ![c] = step]
  /\ req' = [req EXCEPT ![c] = r]
  /\ UNCHANGED <<started, overlap>>

\* It ends: it is done, refused or rolled back.
Finish(c) == Goto(c, "idle", NoRequest)

\* A request that is one statement.
Instant ==
  /\ overlap' = (overlap \/ \E d \in Clients : Busy(d))
  /\ UNCHANGED <<pc, req, started>>

\* A component sees the requests of the others only as clients that are busy: they
\* wait at none of its own steps.
Elsewhere(c, steps) ==
  \E step, r :
    /\ step \notin steps
    /\ \/ Begin(c, step, r)
       \/ Busy(c) /\ pc[c] \notin steps /\ Goto(c, step, r)
=============================================================================
