-------------------------- MODULE PaymentProcessing --------------------------
(***************************************************************************)
(* The consumer process with the queue that feeds it and the table it      *)
(* writes.  A payment has one message in queue `payments.new`; each        *)
(* delivery of it runs payment_new_handler as an asyncio task of its own   *)
(* (the subscriber sets no prefetch, so tasks interleave at every await).  *)
(*                                                                         *)
(* Task <<p, n>> serves the n-th delivery of the message of payment p.     *)
(* Its steps are the awaits of ProcessPaymentUseCase:                      *)
(*                                                                         *)
(*   reading -> starting -> executing -> saving -> committing              *)
(*           -> notifying -> acking -> gone                                *)
(*                                                                         *)
(* with a failure leading to "nacking".  Every state-changing call of the  *)
(* code is one action; a database transaction is split where the code      *)
(* reads in one await and commits in another.                              *)
(***************************************************************************)
EXTENDS Payment, Naturals

CONSTANTS Payments,         \* the payments (their ids)
          DeliveryLimit,    \* x-delivery-limit of the queue
          WebhookAttempts,  \* attempts of stamina.retry on send_webhook
          WithWebhook,      \* payments that have a webhook_url
          Expiring,         \* payments that have an expired_at
          Unreadable        \* payments whose stored amount is 0.00

ASSUME ProcessingAssumption ==
  /\ DeliveryLimit \in Nat
  /\ WebhookAttempts \in Nat \ {0}
  /\ WithWebhook \subseteq Payments
  /\ Expiring \subseteq Payments
  /\ Unreadable \subseteq Payments

VARIABLES row,         \* row[p]: the row of p in table payments
          overdue,     \* overdue[p]: the clock is past expired_at of p
          queue,       \* queue[p]: where the message of p is
          deliveries,  \* deliveries[p]: how often it was delivered
          task,        \* task[h]: the handler task of a delivery
          up,          \* the consumer process runs
          notified     \* notified[p]: the results the webhook url of p received

vars == <<row, overdue, queue, deliveries, task, up, notified>>

Handlers == Payments \X (1 .. DeliveryLimit + 1)

\* absent: not published; ready, unacked: in payments.new; done: acknowledged;
\* dead: in payments.new.dlq; dropped: consumed or expired there.
Places == {"absent", "ready", "unacked", "done", "dead", "dropped"}

Steps == {"idle", "reading", "starting", "executing", "saving", "committing",
          "notifying", "acking", "nacking", "gone"}

Tasks == [at : Steps,
          late : BOOLEAN,            \* dt was past expired_at
          result : Rows,             \* updated_payment_dto
          loaded : Rows,             \* the row as save's SELECT returned it
          attempts : 0 .. WebhookAttempts,  \* attempts of send_webhook
          swallowed : BOOLEAN]       \* a WebhookDeliveryError was only logged

NewTask(at) == [at |-> at, late |-> FALSE, result |-> NoRow, loaded |-> NoRow,
                attempts |-> 0, swallowed |-> FALSE]

\* A task that ended; its locals are gone, what it did about the webhook is history.
Ended(t) == [NewTask("gone") EXCEPT !.attempts = t.attempts, !.swallowed = t.swallowed]

Live(h) == task[h].at \notin {"idle", "gone"}

\* The broker still waits for this task's acknowledgement; after a lost
\* connection it does not, and a settlement the task sends has no effect.
Owns(h) == queue[h[1]] = "unacked" /\ deliveries[h[1]] = h[2]

Goto(h, at) == task' = [task EXCEPT ![h].at = at]

TypeOK == /\ row \in [Payments -> Rows]
          /\ overdue \in [Payments -> BOOLEAN]
          /\ queue \in [Payments -> Places]
          /\ deliveries \in [Payments -> 0 .. DeliveryLimit + 1]
          /\ task \in [Handlers -> Tasks]
          /\ up \in BOOLEAN
          /\ notified \in [Payments -> SUBSET Outcomes]

Init == /\ row = [p \in Payments |-> NoRow]
        /\ overdue = [p \in Payments |-> FALSE]
        /\ queue = [p \in Payments |-> "absent"]
        /\ deliveries = [p \in Payments |-> 0]
        /\ task = [h \in Handlers |-> NewTask("idle")]
        /\ up = TRUE
        /\ notified = [p \in Payments |-> {}]

-----------------------------------------------------------------------------
(* The environment: the API that creates payments, and the clock.          *)

Store(p) == /\ row[p] = NoRow
            /\ row' = [row EXCEPT ![p] = PendingRow]
            /\ UNCHANGED <<overdue, queue, deliveries, task, up, notified>>

Publish(p) == /\ row[p] # NoRow
              /\ queue[p] = "absent"
              /\ queue' = [queue EXCEPT ![p] = "ready"]
              /\ UNCHANGED <<row, overdue, deliveries, task, up, notified>>

Expire(p) == /\ p \in Expiring
             /\ ~overdue[p]
             /\ overdue' = [overdue EXCEPT ![p] = TRUE]
             /\ UNCHANGED <<row, queue, deliveries, task, up, notified>>

-----------------------------------------------------------------------------
(* The broker.                                                             *)

\* Mutant: dead-lettered at the limit, not beyond it.
ReturnedEarly(p) == IF deliveries[p] >= DeliveryLimit THEN "dead" ELSE "ready"

\* Mutant: a queue declared without x-delivery-limit.
ReturnedAlways(p) == "ready"

\* A message that is returned is redelivered until it was returned more often
\* than the limit; then it goes through the dead-letter exchange to the DLQ.
Returned(p) == IF deliveries[p] > DeliveryLimit THEN "dead" ELSE "ready"

\* The connection or its consumer is gone: everything unacknowledged is returned.
ReturnAll == queue' = [p \in Payments |->
                         IF queue[p] = "unacked" THEN Returned(p) ELSE queue[p]]

\* Mutant: AckPolicy.ACK_FIRST.
DeliverAckFirst(p) ==
  /\ up
  /\ queue[p] = "ready"
  /\ queue' = [queue EXCEPT ![p] = "done"]
  /\ deliveries' = [deliveries EXCEPT ![p] = @ + 1]
  /\ task' = [task EXCEPT ![<<p, deliveries[p] + 1>>] = NewTask("reading")]
  /\ UNCHANGED <<row, overdue, up, notified>>

\* The broker hands a ready message to the consumer, which starts a task for it.
Deliver(p) == /\ up
              /\ queue[p] = "ready"
              /\ queue' = [queue EXCEPT ![p] = "unacked"]
              /\ deliveries' = [deliveries EXCEPT ![p] = @ + 1]
              /\ task' = [task EXCEPT ![<<p, deliveries[p] + 1>>] = NewTask("reading")]
              /\ UNCHANGED <<row, overdue, up, notified>>

\* The connection is lost and restored (the client reconnects by itself).  The
\* tasks that were running go on.
ConnectionLoss == /\ up
                  /\ \E p \in Payments : queue[p] = "unacked"
                  /\ ReturnAll
                  /\ UNCHANGED <<row, overdue, deliveries, task, up, notified>>

\* The x-message-ttl of the DLQ, which has no dead-letter exchange itself.
DlqExpire(p) == /\ queue[p] = "dead"
                /\ queue' = [queue EXCEPT ![p] = "dropped"]
                /\ UNCHANGED <<row, overdue, deliveries, task, up, notified>>

-----------------------------------------------------------------------------
(* The consumer: ProcessPaymentUseCase, run by payment_new_handler.        *)

\* Mutant: without the test of the status.
ReadAny(h) ==
  /\ task[h].at = "reading"
  /\ Goto(h, IF h[1] \in Unreadable THEN "nacking" ELSE "starting")
  /\ UNCHANGED <<row, overdue, queue, deliveries, up, notified>>

\* get_payment_by_id_from_repo: PaymentDBMapper.to_entity raises on a row whose
\* amount was rounded to 0.00; a payment that is not pending is skipped.
Read(h) ==
  /\ task[h].at = "reading"
  /\ Goto(h, IF h[1] \in Unreadable THEN "nacking"
             ELSE IF IsPending(row[h[1]]) THEN "starting" ELSE "acking")
  /\ UNCHANGED <<row, overdue, queue, deliveries, up, notified>>

\* ExecutePaymentUseCase takes the time before it sleeps ...
Start(h) ==
  /\ task[h].at = "starting"
  /\ task' = [task EXCEPT ![h].at = "executing", ![h].late = overdue[h[1]]]
  /\ UNCHANGED <<row, overdue, queue, deliveries, up, notified>>

\* Mutant: a gateway that gives no answer leaves the payment pending.
ExecuteUndecided(h) ==
  /\ task[h].at = "executing"
  /\ \E r \in Executed(task[h].late) \cup {PendingRow} :
       task' = [task EXCEPT ![h].at = "saving", ![h].result = r]
  /\ UNCHANGED <<row, overdue, queue, deliveries, up, notified>>

\* ... and compares expired_at with that time after it.
Execute(h) ==
  /\ task[h].at = "executing"
  /\ \E r \in Executed(task[h].late) :
       task' = [task EXCEPT ![h].at = "saving", ![h].result = r]
  /\ UNCHANGED <<row, overdue, queue, deliveries, up, notified>>

\* The SELECT of PaymentRepositorySQLAlchemy.save; it has no FOR UPDATE and the
\* status it returns is not looked at.
LoadRow(h) ==
  /\ task[h].at = "saving"
  /\ task' = [task EXCEPT ![h].at = "committing", ![h].loaded = row[h[1]]]
  /\ UNCHANGED <<row, overdue, queue, deliveries, up, notified>>

Update(h) == row' = [row EXCEPT ![h[1]] =
                       Written(@, task[h].loaded, task[h].result)]

\* The commit of SavePaymentToRepoUseCase's unit of work.
Commit(h) ==
  /\ task[h].at = "committing"
  /\ Update(h)
  /\ Goto(h, IF h[1] \in WithWebhook THEN "notifying" ELSE "acking")
  /\ UNCHANGED <<overdue, queue, deliveries, up, notified>>

\* The answer to the COMMIT is lost: it was done, and the code sees an error.
CommitUnknown(h) ==
  /\ task[h].at = "committing"
  /\ Update(h)
  /\ Goto(h, "nacking")
  /\ UNCHANGED <<overdue, queue, deliveries, up, notified>>

\* Any statement may fail; the unit of work rolls back and the error propagates.
DatabaseFails(h) ==
  /\ task[h].at \in {"reading", "saving", "committing"}
  /\ Goto(h, "nacking")
  /\ UNCHANGED <<row, overdue, queue, deliveries, up, notified>>

-----------------------------------------------------------------------------
(* The webhook: SendPaymentWebhookUseCase around send_webhook.             *)

\* One attempt of send_webhook; the merchant may get its POST whatever the client
\* sees of it.
Post(h, arrives, next, swallows) ==
  /\ task[h].at = "notifying"
  /\ task' = [task EXCEPT ![h].at = next, ![h].attempts = @ + 1,
                          ![h].swallowed = swallows]
  /\ notified' = IF arrives
                 THEN [notified EXCEPT ![h[1]] = @ \cup {task[h].result}]
                 ELSE notified
  /\ UNCHANGED <<row, overdue, queue, deliveries, up>>

PostAccepted(h) == Post(h, TRUE, "acking", FALSE)

\* Mutant: stamina.retry without attempts.
PostFailsForever(h) ==
  \E arrives \in BOOLEAN, next \in {"nacking", "notifying"} :
    Post(h, arrives, next, FALSE)

\* Mutant: send_webhook logs an httpx error and does not raise it again.
PostFailsSilently(h) == \E arrives \in BOOLEAN : Post(h, arrives, "acking", FALSE)

\* An httpx error, an answer 4xx or 5xx among them: stamina repeats the POST
\* until the attempts are used (or, sooner, its 45 seconds are over) and then
\* lets the httpx error through, which SendPaymentWebhookUseCase does not catch.
PostFails(h) ==
  \E arrives \in BOOLEAN :
    \/ Post(h, arrives, "nacking", FALSE)
    \/ task[h].attempts + 1 < WebhookAttempts /\ Post(h, arrives, "notifying", FALSE)

\* Any other error, before the POST was sent (an invalid url) or after it, becomes
\* WebhookDeliveryError: it is not repeated, and it is logged and swallowed.
PostUnexpected(h) == \E arrives \in BOOLEAN : Post(h, arrives, "acking", TRUE)

-----------------------------------------------------------------------------
(* AckPolicy.NACK_ON_ERROR and the life of the process.                    *)

\* The task ends; what it tells the broker counts only if it owns the message.
Settle(h, place) ==
  /\ task' = [task EXCEPT ![h] = Ended(@)]
  /\ queue' = IF Owns(h) THEN [queue EXCEPT ![h[1]] = place] ELSE queue
  /\ UNCHANGED <<row, overdue, deliveries, up, notified>>

\* The handler returned: the message is acknowledged.
Ack(h) == task[h].at = "acking" /\ Settle(h, "done")

\* Mutant: AckPolicy.ACK, which acknowledges whatever happened.
NackByAck(h) == task[h].at = "nacking" /\ Settle(h, "done")

\* Mutant: AckPolicy.MANUAL without a nack.
NackForgotten(h) == task[h].at = "nacking" /\ Settle(h, "unacked")

\* An exception returns the message to the broker.
Nack(h) == task[h].at = "nacking" /\ Settle(h, Returned(h[1]))

\* payment_new_dlq_handler logs the message and returns, which acknowledges it.
DlqHandle(p) == /\ up
                /\ queue[p] = "dead"
                /\ queue' = [queue EXCEPT ![p] = "dropped"]
                /\ UNCHANGED <<row, overdue, deliveries, task, up, notified>>

\* The process ends, by a crash or a deployment: its tasks are lost.
Crash ==
  /\ up
  /\ up' = FALSE
  /\ task' = [h \in Handlers |-> IF Live(h) THEN Ended(task[h]) ELSE task[h]]
  /\ ReturnAll
  /\ UNCHANGED <<row, overdue, deliveries, notified>>

Restart == /\ ~up
           /\ up' = TRUE
           /\ UNCHANGED <<row, overdue, queue, deliveries, task, notified>>

-----------------------------------------------------------------------------

\* The steps of a handler task that the event loop runs by itself.
Progress(h) == \/ Read(h) \/ Start(h) \/ Execute(h) \/ LoadRow(h)
               \/ Commit(h) \/ CommitUnknown(h) \/ DatabaseFails(h)
               \/ PostAccepted(h) \/ PostFails(h) \/ PostUnexpected(h)
               \/ Ack(h) \/ Nack(h)

\* All steps but the loss of the broker connection.
ReliableNext == \/ \E p \in Payments : \/ Store(p) \/ Publish(p) \/ Expire(p)
                                       \/ Deliver(p)
                                       \/ DlqHandle(p) \/ DlqExpire(p)
                \/ \E h \in Handlers : Progress(h)
                \/ Crash \/ Restart

Next == ReliableNext \/ ConnectionLoss

\* Every await of a task ends, with a result or an error: the statements, the
\* POSTs and the sleep are bounded by timeouts.  A running consumer receives
\* what is ready, and takes from the DLQ.  Nothing is assumed of the API, the
\* clock, crashes, restarts and the connection.
Fairness == /\ \A h \in Handlers : WF_vars(Progress(h))
            /\ \A p \in Payments : WF_vars(Deliver(p)) /\ WF_vars(DlqHandle(p))

\* The consumer with a broker connection that is lost only with the process.
ReliableSpec == Init /\ [][ReliableNext]_vars /\ Fairness

\* The consumer as it is deployed.
Spec == Init /\ [][Next]_vars /\ Fairness

-----------------------------------------------------------------------------
(* Properties that hold whatever happens to the connection.                *)

\* A message is acknowledged only when its payment is decided: no failure
\* between delivery and acknowledgement makes the queue forget a payment that
\* is still pending (AckPolicy.NACK_ON_ERROR, ProcessPaymentUseCase).
AcknowledgedIsDecided == \A p \in Payments : queue[p] = "done" => Decided(row[p])

\* A message the broker holds as unacknowledged has a running handler that
\* will settle it: none is stuck until the next restart.
UnackedIsServed ==
  \A p \in Payments : queue[p] = "unacked" => Live(<<p, deliveries[p]>>)

\* A message is dead-lettered only after the broker's x-delivery-limit was used up
\* by returns of any kind, errors, crashes and lost connections counted together:
\* that is one delivery more than the limit.  README.md:33 says otherwise, see
\* DeadAfterThreeAttempts.
GivenUpAtLimit ==
  \A p \in Payments : queue[p] \in {"dead", "dropped"} => deliveries[p] = DeliveryLimit + 1

\* Whatever handlers run at once, old or new, no write takes a decided payment
\* back to pending or away (ProcessPaymentUseCase saves executed payments only).
NeverUndecided ==
  [][\A p \in Payments : Decided(row[p]) => Decided(row'[p])]_vars

\* A payment whose deadline had passed before its message was delivered for the
\* first time never succeeds, whichever delivery decides it
\* (ExecutePaymentUseCase, expired_at < dt).
OverdueNeverSucceeds ==
  \A p \in Payments :
    [](overdue[p] /\ deliveries[p] = 0 /\ IsPending(row[p])
       => [](row[p].status # "succeeded"))

\* The merchant was told the stored decision if the message was settled on its
\* first delivery, but for an error that SendPaymentWebhookUseCase swallowed: an
\* exhausted or failed attempt is never taken for a success.  A later delivery
\* gives no such promise: the process may end between the commit and the POST, and
\* the delivery after it finds a decided payment and skips it, webhook included.
FirstDeliveryTells ==
  \A p \in WithWebhook :
    queue[p] = "done" /\ deliveries[p] = 1 =>
      row[p] \in notified[p] \/ task[<<p, 1>>].swallowed

\* If the consumer stays up at last, every published message leaves the queue:
\* acknowledged for a decided payment, or through the DLQ.
Settles ==
  <>[]up => \A p \in Payments :
              queue[p] = "ready" ~> \/ queue[p] = "done" /\ Decided(row[p])
                                    \/ queue[p] = "dropped"

\* What a task has left to do at most: its steps to the commit, the attempts, and
\* the settlement.
Work(h) == CASE task[h].at = "reading" -> WebhookAttempts + 6
             [] task[h].at = "starting" -> WebhookAttempts + 5
             [] task[h].at = "executing" -> WebhookAttempts + 4
             [] task[h].at = "saving" -> WebhookAttempts + 3
             [] task[h].at = "committing" -> WebhookAttempts + 2
             [] task[h].at = "notifying" -> WebhookAttempts + 1 - task[h].attempts
             [] task[h].at \in {"acking", "nacking"} -> 1
             [] task[h].at \in {"idle", "gone"} -> 0

WorkGoesDown ==
  \A h \in Handlers :
    task'[h] = task[h] \/ task[h].at = "idle" \/ Work(h)' \in 0 .. Work(h) - 1

\* A message costs a bounded number of steps: whatever fails, each step brings a
\* task nearer to its end, and a task that ended is never taken up again.  With
\* the bound on deliveries, no message keeps the consumer busy for ever.
WorkIsBounded == [][WorkGoesDown]_vars

(* Properties that need a connection that lives as long as the process.    *)

\* At any time at most one task works on a payment, the one whose
\* acknowledgement the broker waits for.  It is what makes the unlocked
\* read-check-write of ProcessPaymentUseCase safe.
LiveIsOwner == \A h \in Handlers : Live(h) => Owns(h)

\* README.md:31, three attempts to send the webhook: of all deliveries of a message
\* one at most comes to send_webhook, so that its attempts bound those of the
\* payment, crashes and repeated deliveries included.
OneDeliveryPosts ==
  \A g, h \in Handlers :
    g[1] = h[1] /\ task[g].attempts > 0 /\ task[h].attempts > 0 => g = h

\* The consumer keeps the promises of PaymentLifecycle: a payment is decided
\* once, and the webhooks tell the merchant the stored decision.
Lifecycle == INSTANCE PaymentLifecycle WITH payment <- row, told <- notified

KeepsLifecycle == Lifecycle!Spec

(* Statements of the documentation and of the tests that the code refutes. *)

\* test_process_payment.py:97: a payment that is not pending is left alone.
DecidedIsLeftAlone ==
  [][\A p \in Payments : Decided(row[p]) => row'[p] = row[p]]_vars

\* README.md:33: an event goes to the DLQ after three attempts to handle it.
DeadAfterThreeAttempts ==
  \A p \in Payments : queue[p] \in {"dead", "dropped"} => deliveries[p] = 3

=============================================================================
