-------------------------- MODULE MCPaymentOrders --------------------------
(* Constants of the model-checking run of PaymentOrders alone. *)
EXTENDS PaymentOrders, TLC

CONSTANTS h1, h2, o1, o2

MCMonths == o1 :> 1 @@ o2 :> 3
=============================================================================
