--------------------------- MODULE PaymentLifecycle ---------------------------
(***************************************************************************)
(* What the service promises about a payment, without queue, consumer or   *)
(* database transactions: it is created pending, it is decided at most     *)
(* once, the decision never changes, and the merchant is told nothing but  *)
(* that decision.                                                          *)
(***************************************************************************)
EXTENDS Payment

CONSTANT Payments

VARIABLES payment,   \* payment[p]: its row
          told       \* told[p]: the results the merchant was sent for p

Init == /\ payment = [p \in Payments |-> NoRow]
        /\ told = [p \in Payments |-> {}]

Create(p) == /\ payment[p] = NoRow
             /\ payment' = [payment EXCEPT ![p] = PendingRow]
             /\ UNCHANGED told

Decide(p) == /\ payment[p] = PendingRow
             /\ \E o \in Outcomes : payment' = [payment EXCEPT ![p] = o]
             /\ UNCHANGED told

Tell(p) == /\ payment[p] \in Outcomes
           /\ told' = [told EXCEPT ![p] = @ \cup {payment[p]}]
           /\ UNCHANGED payment

Next == \E p \in Payments : Create(p) \/ Decide(p) \/ Tell(p)

Spec == Init /\ [][Next]_<<payment, told>>

=============================================================================
