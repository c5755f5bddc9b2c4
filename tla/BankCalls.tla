----------------------------- MODULE BankCalls -----------------------------
(***************************************************************************)
(* Calls to one bank of direct banking: payment drafts, salary registries  *)
(* and balances (banking-gateway.service.ts, the adapters of the banks,    *)
(* integration-reliability.service.ts).                                    *)
(*                                                                         *)
(* Two breakers stand before the bank.  The gateway counts errors in the   *)
(* memory of the process; the reliability service counts answers 5xx in    *)
(* Redis, claims the idempotency key of a write for a while, and repeats a *)
(* call that failed for a moment.  The adapter of Birbank puts a draft     *)
(* into a second such loop around its HTTP calls; Pasha and ABB use one.   *)
(* The bank may have taken an instruction whose answer is lost.  Times are *)
(* what is left of them, so that the clock needs no bound.                 *)
(***************************************************************************)
EXTENDS Integers, FiniteSets

CONSTANTS
  Callers,    \* concurrent requests
  Uses,       \* bound of the model: an adapter, "birbank" or "abb", the callers that use
              \* it, what they send, and whether they read balances
  Drafts,     \* payment drafts
  Transfers,  \* files of salary registries (ABB); a registry that was not sent may be sent
              \* again, as a further one with the same key
  KeyOf,      \* their idempotency keys: the draft's own, the hash of the file
  MaxTries,   \* maxAttempts
  Threshold,  \* breakerThreshold, of both breakers
  OpenTime,   \* how long a breaker stays open
  KeyTime,    \* how long a key is claimed
  Balances    \* the request of a caller that sends nothing

Instructions == Drafts \cup Transfers
Keys == {KeyOf[o] : o \in Instructions}

ASSUME BankCallsAssumption ==
  /\ Uses \subseteq [bank : {"birbank", "abb"}, by : SUBSET Callers,
                      sends : SUBSET Instructions, reads : BOOLEAN]
  /\ MaxTries \in Nat \ {0} /\ Threshold \in Nat \ {0} /\ OpenTime \in Nat \ {0} /\ KeyTime \in Nat \ {0}
  /\ Balances \notin Instructions /\ Drafts \cap Transfers = {}

VARIABLES
  use,      \* the adapter of this behaviour
  gate,     \* the gateway's breaker: errors in a row, opened, time left
  circuit,  \* the reliability service's breaker: answers 5xx in a row, time left
  claim,    \* time left of each claimed key
  status,   \* of each draft and registry
  call,     \* what each caller is doing
  taken,    \* history: how often the bank took each instruction
  heard,    \* history: how often its confirmation arrived
  unlogged, \* history: instructions that ended by an error of Redis
  expired   \* history: keys whose claim ran out

callVars == <<use, gate, circuit, claim, status, call, taken, heard, unlogged, expired>>

Closed == [errors |-> 0, opened |-> FALSE, left |-> 0]

\* A caller: its step, its instruction (or Balances), the attempts of the outer and
\* of the inner loop, whether its token was renewed, which loop runs, the last answer.
Rest == [step |-> "idle", of |-> Balances, outer |-> 1, inner |-> 1, renewed |-> FALSE, loop |-> "inner", answer |-> "ok"]

CallInit ==
  /\ use \in Uses
  /\ gate = Closed
  /\ circuit = [fives |-> 0, left |-> 0]
  /\ claim = [k \in Keys |-> 0]
  /\ status = [o \in Instructions |-> "NONE"]
  /\ call = [c \in Callers |-> Rest]
  /\ taken = [o \in Instructions |-> 0]
  /\ heard = [o \in Instructions |-> 0]
  /\ unlogged = {} /\ expired = {}

-----------------------------------------------------------------------------
(* Pure parts.  X_Y is a faulty variant of X that no action uses. *)

\* isTransient: 429 and errors of the network ("soft"), or 5xx.
Transient(a) == a \in {"5xx", "soft"}

\* Another attempt follows.
Retries_OneMore(n) == n <= MaxTries
Retries(n) == n < MaxTries

\* assertCircuitClosed, when it passes: a breaker whose time is over is reset.
Admitted(g) == IF g.opened THEN Closed ELSE g

\* onProviderFailure; what exceeds the threshold makes no difference.
Failed(g) ==
  IF g.errors + 1 >= Threshold
    THEN [errors |-> Threshold, opened |-> TRUE, left |-> OpenTime]
    ELSE [g EXCEPT !.errors = @ + 1]

\* onSuccess and onFailure of the reliability service.
Fives(n, a) == IF a # "5xx" THEN 0 ELSE IF n + 1 >= Threshold THEN Threshold ELSE n + 1

\* Time passes.
Less(n) == IF n = 0 THEN 0 ELSE n - 1

\* SET NX: a key is claimed by the first.
Free(k) == claim[k] = 0

\* A request that finds the gateway's breaker open.  getBalances catches the refusal
\* with the errors of the bank and counts it.
Refused_Counted(kind, g) == Failed(g)
Refused(kind, g) == IF kind = "balances" THEN Failed(g) ELSE g

-----------------------------------------------------------------------------
Step(c) == call[c].step
Idle(c) == Step(c) = "idle" /\ c \in use.by
Go(c, r) == call' = [call EXCEPT ![c] = r]
To(c, step) == Go(c, [call[c] EXCEPT !.step = step])

\* The adapter runs a loop of its own around this call.
Looped(c) == use.bank = "birbank" /\ call[c].of # Balances

ToFirst(c, loop) == Go(c, [call[c] EXCEPT !.step = "ensure", !.loop = loop, !.inner = 1, !.answer = "ok"])

\* The gateway gets an answer, or an error; a registry does not pass through it.
Ended(c, good) ==
  LET o == call[c].of
  IN  /\ gate' = IF o \in Transfers THEN gate ELSE IF good THEN Closed ELSE Failed(gate)
      /\ status' = IF o = Balances THEN status
                   ELSE [status EXCEPT ![o] = IF good THEN "SENT" ELSE IF o \in Drafts THEN "REJECTED" ELSE @]
      /\ Go(c, Rest)

\* authorizedRequest throws: the outer loop tries again or gives up; without one the
\* call ends.
Raise(c, a) ==
  LET r == call[c]
  IN  IF ~Looped(c) THEN Ended(c, FALSE)
      ELSE /\ Go(c, IF Transient(a) /\ Retries(r.outer)
                      THEN [Rest EXCEPT !.step = "token", !.of = r.of, !.outer = r.outer + 1]
                      ELSE [Rest EXCEPT !.step = "count", !.of = r.of, !.outer = r.outer, !.loop = "outer", !.answer = a])
           /\ UNCHANGED <<gate, status>>

\* authorizedRequest returns.
Answered(c) ==
  IF ~Looped(c) THEN Ended(c, TRUE)
  ELSE /\ Go(c, [Rest EXCEPT !.step = "count", !.of = call[c].of, !.outer = call[c].outer, !.loop = "outer"])
       /\ UNCHANGED <<gate, status>>

-----------------------------------------------------------------------------
(* The gateway *)

SendDraft(c, d) ==
  /\ Idle(c) /\ status[d] = "NONE" /\ d \in use.sends /\ gate.left = 0
  /\ gate' = Admitted(gate)
  /\ status' = [status EXCEPT ![d] = "PENDING"]
  /\ Go(c, [Rest EXCEPT !.step = IF use.bank = "birbank" THEN "enter" ELSE "token", !.of = d])
  /\ UNCHANGED <<use, circuit, claim, taken, heard, unlogged, expired>>

\* prepareSalaryRegistry: past the gateway's breaker, to ABB only.
SendTransfer(c, o) ==
  /\ Idle(c) /\ status[o] = "NONE" /\ o \in use.sends /\ use.bank = "abb"
  /\ status' = [status EXCEPT ![o] = "PENDING"]
  /\ Go(c, [Rest EXCEPT !.step = "token", !.of = o])
  /\ UNCHANGED <<use, gate, circuit, claim, taken, heard, unlogged, expired>>

ReadBalances(c) ==
  /\ Idle(c) /\ use.reads /\ gate.left = 0
  /\ gate' = Admitted(gate)
  /\ Go(c, [Rest EXCEPT !.step = "token"])
  /\ UNCHANGED <<use, circuit, claim, status, taken, heard, unlogged, expired>>

Refuse(kind) ==
  /\ gate.left > 0 /\ (kind = "balances" => use.reads)
  /\ gate' = Refused(kind, gate)
  /\ UNCHANGED <<use, circuit, claim, status, call, taken, heard, unlogged, expired>>

-----------------------------------------------------------------------------
(* executeWithPolicies *)

\* ensureCircuitClosed of the outer loop.
Enter(c) ==
  /\ Step(c) = "enter"
  /\ IF circuit.left > 0 THEN Ended(c, FALSE) ELSE To(c, "claim") /\ UNCHANGED <<gate, status>>
  /\ UNCHANGED <<use, circuit, claim, taken, heard, unlogged, expired>>

\* claimIdempotency, in the outermost loop; it is never given back.
Claim(c) ==
  LET k == KeyOf[call[c].of]
  IN  /\ Step(c) = "claim"
      /\ \/ /\ Free(k)
            /\ claim' = [claim EXCEPT ![k] = KeyTime]
            /\ To(c, IF Looped(c) THEN "token" ELSE "http")
            /\ UNCHANGED <<gate, status>>
         \/ /\ ~Free(k)
            /\ Ended(c, FALSE)
            /\ UNCHANGED claim
      /\ UNCHANGED <<use, circuit, taken, heard, unlogged, expired>>

\* getAccessToken: a cached one, which may run out at any time, or a call for a new one.
Token(c) ==
  /\ Step(c) = "token"
  /\ \/ ToFirst(c, "token")
     \/ IF call[c].renewed THEN To(c, "again") ELSE ToFirst(c, "inner")
  /\ UNCHANGED <<use, gate, circuit, claim, status, taken, heard, unlogged, expired>>

\* ensureCircuitClosed: the refusal is an error 503.
Ensure(c) ==
  /\ Step(c) = "ensure"
  /\ IF circuit.left > 0 THEN Raise(c, "5xx")
     ELSE /\ To(c, IF call[c].loop = "inner" /\ call[c].of # Balances /\ ~Looped(c) THEN "claim" ELSE "http")
          /\ UNCHANGED <<gate, status>>
  /\ UNCHANGED <<use, circuit, claim, taken, heard, unlogged, expired>>

\* What the bank does with a call: an error for a moment may hide that it took it.
Bank(c, a) ==
  LET o == call[c].of
  IN  IF call[c].loop = "token" \/ o = Balances THEN UNCHANGED <<taken, heard>>
      ELSE /\ \E n \in IF a = "ok" THEN {1} ELSE IF Transient(a) THEN {0, 1} ELSE {0} : taken' = [taken EXCEPT ![o] = @ + n]
           /\ heard' = [heard EXCEPT ![o] = @ + IF a = "ok" THEN 1 ELSE 0]

Answers == {"ok", "5xx", "soft", "4xx", "401"}

\* One attempt.
Http(c) ==
  /\ Step(c) = "http"
  /\ \E a \in Answers :
       /\ Bank(c, a)
       /\ Go(c, IF Transient(a) /\ Retries(call[c].inner)
                  THEN [call[c] EXCEPT !.inner = @ + 1]
                  ELSE [call[c] EXCEPT !.step = "count", !.inner = 1, !.answer = a])
  /\ UNCHANGED <<use, gate, circuit, claim, status, unlogged, expired>>

\* What follows when a loop is over and counted.
Leave(c) ==
  LET r == call[c]
  IN  CASE r.loop = "outer" -> Ended(c, r.answer = "ok")
        [] r.loop = "token" /\ r.answer = "ok" ->
             /\ IF r.renewed THEN Go(c, [r EXCEPT !.step = "again", !.loop = "inner"]) ELSE ToFirst(c, "inner")
             /\ UNCHANGED <<gate, status>>
        [] r.loop = "inner" /\ r.answer = "ok" -> Answered(c)
        [] r.loop = "inner" /\ r.answer = "401" ->
             /\ Go(c, [r EXCEPT !.step = "token", !.renewed = TRUE, !.answer = "ok"])
             /\ UNCHANGED <<gate, status>>
        [] OTHER -> Raise(c, r.answer)

\* onSuccess, onFailure: the counter of answers 5xx.
Count(c) ==
  LET a == call[c].answer
  IN  /\ Step(c) = "count"
      /\ circuit' = [circuit EXCEPT !.fives = Fives(@, a)]
      /\ IF Fives(circuit.fives, a) >= Threshold
           THEN To(c, "trip") /\ UNCHANGED <<gate, status>>
           ELSE Leave(c)
      /\ UNCHANGED <<use, claim, taken, heard, unlogged, expired>>

\* onFailure: the breaker opens.
Trip(c) ==
  /\ Step(c) = "trip"
  /\ circuit' = [circuit EXCEPT !.left = OpenTime]
  /\ Leave(c)
  /\ UNCHANGED <<use, claim, taken, heard, unlogged, expired>>

\* One more attempt with the new token, outside of the loops.
Again(c) ==
  /\ Step(c) = "again"
  /\ \E a \in Answers :
       /\ Bank(c, a)
       /\ IF a = "ok" THEN Answered(c) ELSE Raise(c, a)
  /\ UNCHANGED <<use, circuit, claim, unlogged, expired>>

\* What the breaker holds when Redis failed: a write of onSuccess or onFailure has
\* arrived or not; a loop around the call catches the error and counts it, as one
\* that is no answer 5xx, if Redis is back by then.
Caught(c) == Looped(c) /\ call[c].loop # "outer" /\ Step(c) \notin {"enter", "claim"}
Written(c) ==
  [fives : {circuit.fives} \cup (IF Step(c) = "count" THEN {Fives(circuit.fives, call[c].answer)} ELSE {})
             \cup (IF Caught(c) THEN {0} ELSE {}),
   left : {circuit.left} \cup (IF Step(c) = "trip" THEN {OpenTime} ELSE {})]

\* Redis does not answer: no loop repeats that, the call ends wherever it is.
LoseRedis(c) ==
  /\ Step(c) \in {"enter", "claim", "token", "ensure", "count", "trip"}
  /\ circuit' \in Written(c)
  /\ unlogged' = unlogged \cup {o \in Instructions : o = call[c].of /\ heard[o] > 0}
  /\ Ended(c, FALSE)
  /\ UNCHANGED <<use, claim, taken, heard, expired>>

\* The process starts again: its calls and the gateway's breaker are forgotten.
Restart ==
  /\ gate' = Closed
  /\ call' = [c \in Callers |-> Rest]
  /\ UNCHANGED <<use, circuit, claim, status, taken, heard, unlogged, expired>>

Tick ==
  /\ gate' = [gate EXCEPT !.left = Less(@)]
  /\ circuit' = [circuit EXCEPT !.left = Less(@)]
  /\ claim' = [k \in Keys |-> Less(claim[k])]
  /\ expired' = expired \cup {k \in Keys : claim[k] = 1}
  /\ UNCHANGED <<use, status, call, taken, heard, unlogged>>

CallStep(c) ==
  \/ Enter(c) \/ Claim(c) \/ Token(c) \/ Ensure(c) \/ Http(c) \/ Count(c) \/ Trip(c) \/ Again(c) \/ LoseRedis(c)

CallNext ==
  \/ \E c \in Callers :
       \/ CallStep(c) \/ ReadBalances(c)
       \/ \E d \in Drafts : SendDraft(c, d)
       \/ \E o \in Transfers : SendTransfer(c, o)
  \/ \E kind \in {"balances", "draft"} : Refuse(kind)
  \/ Restart \/ Tick

\* Time passes; nothing is assumed of the callers and the bank.
CallSpec == CallInit /\ [][CallNext]_callVars /\ WF_callVars(Tick)

-----------------------------------------------------------------------------
(* Properties *)

\* Types of the variables.
CallTypeOK ==
  /\ use \in Uses
  /\ gate \in [errors : 0 .. Threshold, opened : BOOLEAN, left : 0 .. OpenTime]
  /\ circuit \in [fives : 0 .. Threshold, left : 0 .. OpenTime]
  /\ claim \in [Keys -> 0 .. KeyTime]
  /\ status \in [Instructions -> {"NONE", "PENDING", "SENT", "REJECTED"}]
  /\ taken \in [Instructions -> Nat] /\ heard \in [Instructions -> Nat]
  /\ unlogged \subseteq Instructions /\ expired \subseteq Keys
  /\ call \in [Callers ->
       [step : {"idle", "enter", "claim", "token", "ensure", "http", "count", "trip", "again"},
        of : Instructions \cup {Balances}, outer : 1 .. MaxTries, inner : 1 .. MaxTries,
        renewed : BOOLEAN, loop : {"outer", "inner", "token"}, answer : Answers]]

\* The attempts of an instruction, in all its loops.
Tries == IF use.bank = "birbank" THEN MaxTries * MaxTries ELSE MaxTries

\* The bank takes an instruction no more often than the loops try it, and its
\* confirmation is the last of it: what is SENT was confirmed, what was confirmed is
\* not repeated, nor REJECTED unless Redis failed.  Two files of one key are not both
\* taken before the key has run out.
InstructedOnce ==
  \A o \in Instructions :
    /\ taken[o] <= Tries /\ heard[o] <= 1 /\ heard[o] <= taken[o]
    /\ status[o] = "SENT" => heard[o] = 1
    /\ status[o] = "REJECTED" => heard[o] = 0 \/ o \in unlogged
    /\ \A p \in Instructions \ {o} :
         KeyOf[p] = KeyOf[o] /\ taken[o] > 0 /\ taken[p] > 0 => KeyOf[o] \in expired

\* No breaker keeps the bank out for ever: both are closed again and again, the
\* gateway's unless balances are asked for while it is open, again and again.
ProbedAgain ==
  /\ []<>(circuit.left = 0)
  /\ []<>(gate.left = 0) \/ []<><<Refuse("balances")>>_callVars
=============================================================================
