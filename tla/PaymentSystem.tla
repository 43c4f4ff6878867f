---------------------------- MODULE PaymentSystem ----------------------------
(***************************************************************************)
(* The API workers and the consumer together.  They share the table (row)  *)
(* and the queue: a message that a request sends becomes ready in queue    *)
(* `payments.new`.  The consumer is that of PaymentProcessing, which this  *)
(* module extends; its environment actions Store and Publish give way to   *)
(* the API that they stand for, the steps of PaymentCreation.              *)
(***************************************************************************)
EXTENDS PaymentProcessing

CONSTANTS Keys,       \* see PaymentCreation; its requests are Payments
          KeyOf,
          Invalid,
          NoPayment

ASSUME SystemAssumption ==
  /\ KeyOf \in [Payments -> Keys]
  /\ Invalid \subseteq Payments
  /\ NoPayment \notin Payments

VARIABLES sent, entry, at, found, answer

API == INSTANCE PaymentCreation WITH Requests <- Payments

apiVars == <<sent, entry, at, found, answer>>
systemVars == <<vars, apiVars>>

SystemInit == Init /\ API!Init

\* What the API publishes is routed to the queue by the default exchange.
APIStep == /\ API!Next
           /\ queue' = [p \in Payments |->
                          IF sent'[p] > sent[p] THEN "ready" ELSE queue[p]]
           /\ UNCHANGED <<overdue, deliveries, task, up, notified>>

ConsumerStep == /\ \/ \E p \in Payments : \/ Expire(p) \/ Deliver(p)
                                          \/ DlqHandle(p) \/ DlqExpire(p)
                   \/ \E h \in Handlers : Progress(h)
                   \/ Crash \/ Restart
                /\ UNCHANGED apiVars

SystemNext == APIStep \/ ConsumerStep

\* The fairness of the two components; see there.
SystemFairness ==
  /\ \A p \in Payments : /\ WF_systemVars(API!Serve(p) /\ APIStep)
                         /\ WF_systemVars(Deliver(p) /\ ConsumerStep)
                         /\ WF_systemVars(DlqHandle(p) /\ ConsumerStep)
  /\ \A h \in Handlers : WF_systemVars(Progress(h) /\ ConsumerStep)
  /\ WF_systemVars(Restart /\ ConsumerStep)

SystemSpec == SystemInit /\ [][SystemNext]_systemVars /\ SystemFairness

-----------------------------------------------------------------------------
(* Properties; KeepsLifecycle is that of PaymentProcessing.                *)

\* The API is an environment the consumer was verified in: it stores a payment
\* before it publishes it, and publishes it once.
RunsConsumer == Init /\ [][ReliableNext]_vars

\* One key is charged once: whatever requests carried it, and however they
\* raced or were repeated, one payment at most reached the payment gateway.
OneChargePerKey ==
  \A p, q \in Payments :
    deliveries[p] > 0 /\ deliveries[q] > 0 /\ KeyOf[p] = KeyOf[q] => p = q

\* One key is one series of webhook attempts: repeated requests, redeliveries and
\* crashes included, a single delivery of a single payment comes to send_webhook for a key.
OneSeriesPerKey ==
  \A g, h \in Handlers :
    task[g].attempts > 0 /\ task[h].attempts > 0 /\ KeyOf[g[1]] = KeyOf[h[1]] => g = h

\* The merchant is told of the payment that the responses named: a webhook for
\* a key never speaks of another payment than its 202 responses.
ToldWhatWasAnswered ==
  \A r, p \in Payments :
    answer[r].code = "accepted" /\ KeyOf[r] = KeyOf[p] /\ notified[p] # {}
      => answer[r].payment = p

\* README.md:89: the status of a created payment comes to differ from pending,
\* at least if the consumer stays up at last and the DLQ does not get the message.
CreatedIsDecided ==
  <>[]up => \A p \in Payments :
              answer[p] = API!Accepted(p) ~> Decided(row[p]) \/ queue[p] = "dropped"

=============================================================================
