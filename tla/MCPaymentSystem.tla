--------------------------- MODULE MCPaymentSystem ---------------------------
(* Two requests with one key.                                              *)
EXTENDS PaymentSystem

CONSTANT k1

OneKey == [p \in Payments |-> k1]

=============================================================================
