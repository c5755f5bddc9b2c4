----------------------------- MODULE Providers -----------------------------
(***************************************************************************)
(* What the system exchanges with banks: the card payments of              *)
(* subscriptions (PaymentOrders) and the calls of direct banking           *)
(* (BankCalls).  They share no state, so that a behaviour of both is one   *)
(* of each, interleaved: every behaviour here is of one "side".            *)
(***************************************************************************)
EXTENDS PaymentOrders, BankCalls

CONSTANT Sides \* bound of the model: the sides considered

ASSUME SidesAssumption == Sides \subseteq {"orders", "calls"}

VARIABLE side

providerVars == <<vars, callVars, side>>

ProvidersInit ==
  /\ side \in Sides
  /\ Init /\ CallInit
  /\ side = "orders" => use = CHOOSE u \in Uses : TRUE

ProvidersNext ==
  \/ side = "orders" /\ Next /\ UNCHANGED <<callVars, side>>
  \/ side = "calls" /\ CallNext /\ UNCHANGED <<vars, side>>

\* The fairness of PaymentOrders and of BankCalls.
ProvidersFairness ==
  /\ \A h \in Handlers : WF_providerVars(side = "orders" /\ Finalize(h) /\ UNCHANGED <<callVars, side>>)
  /\ \A o \in Orders : SF_providerVars(side = "orders" /\ (\E h \in Handlers : Receive(h, o)) /\ UNCHANGED <<callVars, side>>)
  /\ WF_providerVars(side = "calls" /\ Tick /\ UNCHANGED <<vars, side>>)

ProvidersSpec == ProvidersInit /\ [][ProvidersNext]_providerVars /\ ProvidersFairness

-----------------------------------------------------------------------------
\* Types of the variables.
ProvidersTypeOK == TypeOK /\ CallTypeOK
=============================================================================
