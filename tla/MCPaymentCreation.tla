-------------------------- MODULE MCPaymentCreation --------------------------
(* Three requests that carry one key, and one that carries another.        *)
EXTENDS PaymentCreation, TLC

CONSTANTS r1, r2, r3, r4, k1, k2

TwoKeys == r1 :> k1 @@ r2 :> k1 @@ r3 :> k1 @@ r4 :> k2

=============================================================================
