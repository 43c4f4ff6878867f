-------------------------- MODULE IdempotentCreation --------------------------
(***************************************************************************)
(* What POST /api/v1/payments promises to clients that repeat requests     *)
(* with one Idempotency-Key, and to the consumer, without idempotency      *)
(* store, workers or transactions: the first payment created under a key   *)
(* stays the only one, it is announced once at most and never before it    *)
(* is there, and every response that accepts a request names it.           *)
(***************************************************************************)
EXTENDS Naturals

CONSTANTS Requests, Keys, KeyOf   \* see PaymentCreation

VARIABLES payments,   \* payments[k]: the payments created under key k
          sent,       \* sent[p]: messages about p
          named       \* named[r]: the payments that the response to r named

Init == /\ payments = [k \in Keys |-> {}]
        /\ sent = [p \in Requests |-> 0]
        /\ named = [r \in Requests |-> {}]

Create(r) == /\ payments[KeyOf[r]] = {}
             /\ payments' = [payments EXCEPT ![KeyOf[r]] = {r}]
             /\ UNCHANGED <<sent, named>>

Announce(r) == /\ r \in payments[KeyOf[r]]
               /\ sent[r] = 0
               /\ sent' = [sent EXCEPT ![r] = 1]
               /\ UNCHANGED <<payments, named>>

Accept(r) == /\ payments[KeyOf[r]] # {}
             /\ named[r] = {}
             /\ named' = [named EXCEPT ![r] = payments[KeyOf[r]]]
             /\ UNCHANGED <<payments, sent>>

Next == \E r \in Requests : Create(r) \/ Announce(r) \/ Accept(r)

Spec == Init /\ [][Next]_<<payments, sent, named>>

=============================================================================
