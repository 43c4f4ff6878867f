# TLA+ specifications of the payment processing service

This directory specifies the payment processing service in TLA+: how a payment
is created over HTTP, stored, announced to a consumer over RabbitMQ, decided,
and reported to the merchant by webhook. TLC checks the modules on small
instances; TLAPS proves the main properties for every value of the constants.

Paths below are relative to `src/payment_processing_service/` of the
repository, unless they name another top-level directory.

## 1. Inventory

### 1.1 The parts and how they interact

```
 client --POST--> API worker --INSERT--> table payments <--SELECT/UPDATE-- consumer --POST--> merchant
                   |   ^ |                                                   ^   |
                   |   | +--publish--> queue payments.new --deliver----------+   |
            lock / kept  (default exchange)  |  ^--return (error, crash, loss)---+
            response                         +--more returns than the limit--> payments.new.dlq --> DLQ handler
        idempotency store (Redis)
```

| Part | Code | State it keeps | Operations |
|---|---|---|---|
| HTTP front | `main.py`, `presentation/api/rest/middlewares/`, `presentation/api/rest/error_handling.py` | state of the circuit breaker (library) | API key test, request id and `Idempotency-Key`, exception to status code |
| Payment creation | `presentation/api/rest/v1/controllers/payment_controller.py`, `application/use_cases/create_payment.py`, `publish_payment_to_broker.py` | none of its own; idempotency store (external), table, queue | POST `/api/v1/payments` |
| Payment reading | the same controller, `application/use_cases/get_payment_from_repo.py` | none | GET `/api/v1/payments/{id}` |
| Table, repository, transactions | `infrastructures/db/models/payment.py`, `repositories/payment.py`, `payment_uow.py`, the migration `create_table_payments` | rows of `payments` | lookup by id and by key, save (insert or update), commit, rollback |
| Conversions | `presentation/api/rest/v1/mappers/`, `application/mappers.py`, `infrastructures/db/mappers/payment_db_mapper.py`, `infrastructures/mappers/payment.py`, `domain/` | none | schema, DTO, entity, model, row, response and payload into each other |
| Queue and DLQ | declared in `presentation/consumers/payments.py` | messages, delivery counts | deliver, acknowledge, return, dead-letter, expire |
| Consumer | `presentation/consumers/payments.py`, `application/use_cases/process_payment.py`, `execute_payment.py`, `save_payment_to_repo.py` | one asyncio task for each delivery | read, execute, save, notify, acknowledge or return |
| Webhook sender | `application/use_cases/send_payment_webhook.py`, `infrastructures/http/clients.py` | attempts of a delivery | POST with retries |
| UnitOfWork with mappers | `infrastructures/db/uow.py`, `mappers/payment_uow_mapper.py` | dictionaries new, dirty, deleted; mappers | register, assign, commit. Not wired into the service |
| Webhook receiver, health check | `controllers/webhook_controller.py`, `health_check_controller.py`, `process_payment_webhook.py` | none | a random or a constant answer |
| Container, sessions, connections | `infrastructures/ioc/provides.py`, `config/sqlalchemy.py`, `config/pgbouncer/` | one session for each request or message; a transaction and its connection; the broker of the API process | resolve, begin, commit, roll back, close |
| Settings, JSON helpers, telemetry, outbox tables, deployment | `config/`, `presentation/utils/`, `infrastructures/external/`, migrations `create_table_outbox*`, `docker-compose.yml`, `k8s/` | none, or unused (outbox) | - |

What the deployment fixes: several API workers serve requests at once
(`docker-compose.yml`, `k8s/`), and one consumer process runs with
`restart: always`. A session lives for one request or one message
(`Scope.REQUEST`), transactions run at READ COMMITTED, and no SELECT takes a
lock. The subscriber sets no prefetch, so all ready messages are handled at once
by tasks that interleave at every await.

### 1.2 What is hard here

- **Read, check and write are three things.** `ProcessPaymentUseCase` tests the
  status in one transaction and writes the decision seconds later in another;
  the save reads the row again but ignores its status
  (`application/use_cases/process_payment.py:30`,
  `infrastructures/db/repositories/payment.py:56`).
- **At-least-once delivery.** An exception, a crash or a lost connection at any
  await returns the message. After a lost connection the old task goes on
  beside the new one, and its acknowledgement is void.
- **Partial failure.** The decision is committed before the webhook is sent; the
  payment is stored before it is published, and a failed publication is
  swallowed; the answer to a COMMIT may be lost although it was done.
- **Racing requests.** Requests with one key pass the lookup together, and the
  idempotency store may forget its lock or response at any moment.
- **Rounding.** The entity is validated before the column rounds the amount, and
  again after every read; the payload of the webhook shows it as a float.
- **Shared connections.** Units of work nest over one session, jobs sleep and
  call a merchant inside them, PgBouncer has a bounded number of connections,
  and a scope ends in another task than the one that opened its session.
- **Schemas that disagree.** A request without a fio is valid, the response made
  from its payment is not.
- **Limits.** The delivery limit is counted over crashes, errors and losses
  alike; the webhook has three attempts within 45 seconds.

`PROJECT.json` lists each of these hazards with its line and the properties that
watch over it.

### 1.3 What correctness means, part by part

| Part | Properties |
|---|---|
| Consumer and queue | no message is acknowledged while its payment is pending; each unacknowledged one has a task that will settle it; a decided payment is never pending again; one decision only, and webhooks tell that decision, while the connection lives as long as the process; then one delivery at most attempts webhooks, so that the attempts of one are all there are; an overdue payment never succeeds; dead-lettering exactly beyond the limit; of a message settled on its first delivery the merchant was told the decision, unless the error of that attempt was swallowed; a task does a bounded amount of work; everything published is settled in the end |
| Creation | one payment and at most one message for a key; all accepted responses name the same stored, readable payment; nothing is published that is not stored; a request refused with 4xx left nothing behind; the first commit chooses the payment of a key for good; a request neither waits for another nor repeats a step |
| Both together | a key is charged once and gets one series of webhook attempts; an answered payment is decided, or it is known why not; the merchant is told of the payment that the client was told of; the API keeps to what the consumer assumes of it |
| Reading | a client never sees an older state than it was told or has read, nor one ahead of the table |
| Conversions | a response is the request, rounded once; a payload is the row, its amount a cent off at most and only above 2^46 units; the consumer's save changes the decision and nothing else |
| Sessions and connections | nobody holds a connection while waiting for somebody else; each scope closes its session; what a message or webhook tells is committed; a process without a broker stores nothing; a job repeats nothing; every job ends, with a single connection for all |
| UnitOfWork | with mappers that complete their calls: a change through a wrapper is in the table or tracked; a committed deletion wins over all changes before it |

## 2. Modules

| Module | Contents |
|---|---|
| `Payment` | the changing part of a row, the results of `ExecutePaymentUseCase`, what an UPDATE writes |
| `PaymentLifecycle` | abstract specification: a payment is created, decided at most once, and the merchant is told that decision only |
| `IdempotentCreation` | abstract specification: a key gets one payment for good, which is announced once and named by every accepted response |
| `PaymentProcessing` | queue, DLQ, consumer tasks and webhook sender; crash, restart, loss of the connection |
| `PaymentCreation` | concurrent POST requests, idempotency store, unique index, publication |
| `PaymentSystem` | composition of the two over one table and one queue |
| `RequestScope` | the REQUEST scopes of POST, GET and message: session, units of work, connection, and the waits between them |
| `PaymentReading` | polling clients through middlewares, `get_payment` and the session of the request, over the abstract lifecycle |
| `PaymentMapping` | one payment through the conversion chain, with amounts in thousandths |
| `UnitOfWork` | the identity-tracking unit of work and its mappers |
| `PaymentProcessing_proofs`, `PaymentProcessing_refinement`, `PaymentCreation_proofs`, `PaymentSystem_proofs`, `PaymentReading_proofs`, `PaymentMapping_proofs`, `UnitOfWork_proofs`, `RequestScope_proofs` | theorems |
| `MC*` | functions that a `.cfg` cannot write (which request carries which key, which amounts) |

`PaymentSystem` extends `PaymentProcessing` and takes `PaymentCreation` by
INSTANCE, with the payments as its requests. `PaymentProcessing` takes
`PaymentLifecycle` by INSTANCE as the property `KeepsLifecycle`, which
`PaymentSystem` has from it; `PaymentReading` takes it as its environment, so
that what holds there holds of the service wherever `KeepsLifecycle` does.
`PaymentCreation` takes `IdempotentCreation` by INSTANCE as the property
`KeepsPromise`.

### 2.1 PaymentProcessing

The task `<<p, n>>` serves the n-th delivery of the message of payment `p`. Its
`at` is the await it is in:

| `at` | code |
|---|---|
| reading | `get_payment_by_id_from_repo`, and the test of the status (`process_payment.py:28-30`) |
| starting, executing | `ExecutePaymentUseCase`: the time is taken (`execute_payment.py:31`), then the delay, then the outcome |
| saving, committing | `SavePaymentToRepoUseCase`: the SELECT of `save`, and the commit with its UPDATE |
| notifying | `SendPaymentWebhookUseCase`, one action for each attempt |
| acking, nacking | the handler returned or raised; `AckPolicy.NACK_ON_ERROR` settles the message |

A transaction is split where the code reads in one await and commits in another,
so that other tasks may run between. `Written` gives what an UPDATE does:
SQLAlchemy sends only the columns whose value differs from the one that was
loaded. One consequence of it, after a reconnection, is a succeeded payment that
keeps the error message a concurrent handler stored: a column assigned None over
a loaded None is not in the UPDATE (`payment_db_mapper.py:62`).

`queue[p]` is the place of the message. The broker is external; what is taken
from it is that it returns the unacknowledged messages of a lost consumer,
counts each return, and dead-letters a message when it was returned more often
than `x-delivery-limit` (`GivenUpAtLimit`). With the limit of 3 in
`config/consumer.py:18` that is after the fourth delivery, while `README.md:33` of
the repository speaks of three attempts to handle it, which the run `DeadLetters`
refutes.

`attempts` counts the calls of `send_webhook`, whether or not the merchant got
anything: `notified` has what arrived, and any attempt, failed or not, may have
arrived (`Post`). An error that is not one of httpx's requests and answers, such
as an invalid url, becomes a `WebhookDeliveryError`, which
`SendPaymentWebhookUseCase` logs and drops: `swallowed` records that. The message
is then acknowledged like one whose webhook was accepted, and `FirstDeliveryTells`
names it as the one exception. The property covers what is settled on its first
delivery. If the process ends between the commit and the POST, or all attempts
fail, the redelivery skips the decided payment and its webhook: nothing in the
code sends it, and no property says otherwise.

`Store`, `Publish` and `Expire` are the environment of the consumer: the API and
the clock.

`Work(h)` counts the steps a task has left at most; `WorkIsBounded` says that each
of its steps lowers it and that an ended task is not taken up again. It is the
part of `Settles` that needs no fairness, and what the stamina decorator of
`send_webhook` and the early returns of the use cases amount to. The attempts of
that decorator are counted for each call, and no code counts them over
deliveries; that they are nonetheless all that a merchant gets
(`OneDeliveryPosts`) rests on the test of the status, on commit before POST and
on the one live task for a payment.

### 2.2 PaymentCreation

A request and the payment it may create share a name, because `from_request`
draws a fresh uuid4. `Begin`, `Reply` and `Fail` are the decorator
`@idempotent`; `Lookup`, `Save`, `Insert`, `Publish` and `Reread` are the awaits
of `CreatePaymentUseCase`; each has its failures. The INSERT is sent by the
commit, hence the unique index speaks in `Insert`: of two requests that both
passed the lookup the later one fails with `IntegrityError`, and is answered with
an error rather than with the payment that took its key. An exception of the
domain is answered 4xx (`refusing`), any other 500 (`failing`). The domain
speaks before the row is stored, and once more when it is read back, where an
amount stored as 0.00 is refused after it was published: the exception that
`RefusedIsUntouched` makes. The store is free to
drop a lock or a response at any moment (`Forget`): the table alone must keep
the promises.

`Promise` maps this module to `IdempotentCreation`: the payments of a key are the
rows stored under it, the messages are those the broker accepted, and what a
response named is the payment of an `Accepted` answer. A commit that stores the
row is `Create`, whether or not the code learns of it; a publication is
`Announce`; a 202 response, new or replayed, is `Accept`. Everything else, and
all that the idempotency store does, is a stutter.

### 2.3 PaymentSystem

`APIStep` is any step of `PaymentCreation`; what it sends becomes ready in the
queue. `ConsumerStep` is any step of `PaymentProcessing` but `Store` and
`Publish`, the part of its environment that the API now plays. `RunsConsumer`
says that the API is such an environment, which carries what was proved of the
consumer over to the whole. The connection is taken to live as long as the
process here; losing it is studied in `PaymentProcessing` alone.

### 2.4 PaymentReading

A client sends one GET after the other, and is the merchant too: `heard` is what
webhooks had told of the payment when the GET began, `read` the last row the
client was answered. `Ask` is the breaker, the outermost middleware of `main.py`; `CheckKey`
is `ApiKeyHeaderMiddleware`; `Load` is the SELECT in the session that
`provide_async_session` makes for the request; `Respond` is `to_entity` and
`to_response`. For an id without a payment the use case returns None, whose
attributes `to_response` reads: it raises, where `payment_controller.py:30`
announces 404, and the client gets 500. So it does for a payment without a fio
(`Nameless`, see 2.5), while one stored as 0.00 (`Unreadable`) breaks the
validation of the entity and is answered 422. A GET that ends without a payment
is `Ended`: all that is left of it is its code. The payment may change between any two of them (`Serve`, a step of
`PaymentLifecycle`). An exception without a handler is `Raise`: 500, and the
breaker may open. The handler of `CircuitBreakerRemoteCallException` in
`error_handling.py` sits inside the breaker and never sees its exception; what a
rejected client gets is the library's to say, hence only "rejected".

### 2.5 PaymentMapping

One payment and its images in every layer. Each conversion is an operator with
the field that it alters, and `IsEntity` is evaluated where the code builds an
entity: before the insert and after each load. It says which requests the
constants `Invalid` and `Unreadable` of the other modules stand for. The
webhook url stands for all columns that are copied without being looked at.

`fio` is a field of its own: `PaymentMetaDataSchema` declares it as a string
whose default is None (`schemas/common.py:13`). A default is not validated, so a
POST without it is accepted, stored, executed and posted, but `to_response`
passes the None explicitly, which the schema refuses: every GET of the payment
raises, and `Respond` leaves it without a response. In `PaymentReading` such
payments are the `Nameless`.

The payload has `float(amount)`. Doubles are 1/64 apart from 2^46 units on, so
that the shortest decimal that names one may be the cent before or after the
stored one; `Floated` allows all three. The bound is the constant `FloatCents`;
`DECIMAL(16, 2)` goes a little beyond it, to 10^14 units.

### 2.6 UnitOfWork

The three dictionaries are sets. A commit that raises, for want of a mapper or
because a mapper does, has handled part of the dictionary it was in, and clears
nothing. `update` is `AsyncSession.merge`, which inserts a model that has no row,
so that it matters that a commit deletes after it has updated. `merge` and
`delete` are coroutine functions, and `PaymentUoWMapper` calls them without
awaiting them (lines 24 and 29): neither call has any effect, a deletion is never
carried out, and a change reaches the database only if the session tracks the
model by itself. `Completing` are the classes whose mapper does complete them, as
`DbMapperProtocol` asks. The run has classes of both kinds; the two invariants
speak of the first, and the theorem `UnawaitedOnlyInserts` of the second, which is
that of the repository's one mapper.

After a commit that raised, a model it already inserted is still in `new`, and
`register_deleted` then only drops it there: its row stays. `DeletedIsGone` is
therefore stated for clients whose commits succeeded. It is also about models
that were not changed again once their deletion was done, because such a change
registers them as dirty, and the next commit inserts them (`removed` in
`Assign`).

### 2.7 RequestScope

A job is a POST, a GET or a message; `at` is the query or the wait it is in.
`PostSteps`, `GetSteps` and `MessageSteps` are the use cases as sequences of
units of work and waits.

| Action | Code |
|---|---|
| `Resolve`, `BrokerStarts`, `BrokerFails` | dishka resolves the parameters before the controller runs (`provides.py:126-243`); the publisher needs the APP-scoped broker, which `get_broker` starts once (`provides.py:66-75`) |
| `Begin` | the first statement of a unit of work takes a connection of PgBouncer, if one is free |
| `Commit`, `CommitUnknown`, `Rollback`, `RollbackFails` | `__aexit__` of the inner unit of work (`payment_uow.py:24-42`) |
| `Leave` | `__aexit__` of the unit of work that `ProcessPaymentUseCase` puts around all of it (`process_payment.py:28`); the inner ones have committed and left nothing to do |
| `Publish`, `Execute`, `PostWebhook` | the waits for RabbitMQ, for the delay that stands for the gateway, and for the merchant |
| `Close` | the end of the REQUEST scope (`provides.py:103-111`) |

`provide_async_session` makes its session with `async_scoped_session` and
`scopefunc=current_task`. The middlewares derived from `BaseHTTPMiddleware` run
the controller in another task than the one in which dishka closes the scope, so
`remove()` finds another registry entry and closes nothing; it is the inner
`async with` that closes the session. The mutant `CloseByTask` is the code
without it, and loses a connection for each request whose rollback failed.

`PaymentProcessing` and `PaymentCreation` take from this module that a unit of
work is one transaction with a connection of its own, and that the decision is
committed before the webhook is sent.

## 3. Runs

Sizes are distinct states. All bounds are constants of the `.cfg`.

| Run | Instance | Shows |
|---|---|---|
| `ProcessingReliable` | 2 payments, limit 2 (three deliveries), 3 webhook attempts, one deadline, one unreadable row; about 38,000 | type correctness, one handler at most for a payment, dead-lettering exactly beyond the limit, one delivery that attempts webhooks, refinement of `PaymentLifecycle`, with every error and crash but without reconnections |
| `ProcessingReconnect` | 1 payment with webhook and deadline, limit 1 (two handlers at once), 2 attempts; about 113,000 | with reconnections: nothing is forgotten, nothing undecided again, overdue never succeeds, what was settled on its first delivery was told or its error swallowed, a task's work is bounded, everything is settled |
| `Creation` | 3 requests with one key (one of them for an amount stored as 0.00), 1 refused request with another; about 179,000 | one payment for a key, one message, agreeing and readable answers, nothing left behind by a refusal, refinement of `IdempotentCreation`, requests that repeat nothing |
| `SystemOneKey` | 2 requests with one key, limit 1, 1 attempt; about 108,000 | one charge and one series of webhook attempts for a key, webhooks and answers agree, `RunsConsumer` |
| `Reading` | 2 clients (symmetric), 3 payments, one stored as 0.00, one without a fio; about 1,154,000 | reads follow what was told and read before, and are never ahead of the table |
| `Mapping` | 11 amounts around zero, half a cent, a column of 10 units and a float that is exact below 9; with and without fio and webhook; 2,202 | the conversions |
| `Scope` | 2 POSTs, a GET, a message, 1 connection; about 80,000 | connections, sessions and commits of concurrent jobs, that a job repeats nothing, and that all jobs end |
| `UnitOfWorkProtocol` | 2 models (symmetric) of a class in `Completing`, 1 of a class outside; about 65,500 | tracking and deletion through failed and repeated commits |
| `Overwrite` | 1 payment, 2 handlers | **violated**: a payment that is not pending is not left alone (`tests/application/use_cases/test_process_payment.py:97`): two handlers read pending, and the later save overwrites the decision of the earlier one |
| `DeadLetters` | 1 payment, limit 3 as configured, 3 webhook attempts | **violated**: an event goes to the DLQ after three attempts to handle it (`README.md:33`): the limit counts returns, and the fourth attempt comes before the DLQ |
| `SystemUndecided` | 1 request | **violated**: an accepted payment may stay pending for ever (`README.md:89`): its publication failed and was swallowed |
| `ZeroAmount` | the amounts of `Mapping` | **violated**: a row may hold an amount that the entity refuses (`domain/entities/payment.py:41`): 0.004 passes, is stored as 0.00, and every later read raises |

**Why the bounds are enough.** Payments do not share state but the process and
its connection, so that two show what one does to the other. Two handlers are
needed for every race on a row, and a third adds nothing but another copy of
the second. Two clients are enough to let one GET load before and answer after
another's. A limit of 1 or 2 reaches the delivery before the last, the last,
and dead-lettering, and two attempts reach a retry and the last attempt; the
theorems of section 5 hold for any limit. Two requests race for a
key; a third comes late, to a key that is taken, answered or forgotten. The
amounts hold both sides of each boundary: zero, half a cent, a cent and a half,
the largest that fits and the smallest that is rounded above it. One connection is
the tightest pool: a job that keeps it, or asks for a second one, stops all
others at once; two POSTs race for the start of the broker.

**Deadlock.** Payments end: `CHECK_DEADLOCK FALSE` is set where all messages may
be settled and all requests answered. It is checked in the runs of `UnitOfWork`
and `PaymentReading`, whose clients never have to stop, and of `RequestScope`,
where a process may crash (a stutter, once all jobs are done).

## 4. Fairness

- `Progress(h)`, weak: the steps of a running task. The event loop runs a task
  that is ready, and every await ends: statements by the pool's and driver's
  timeouts, a POST by the timeout of httpx and the 45 seconds of stamina, the
  delay by itself.
- `Deliver(p)` and `DlqHandle(p)`, weak: a connected consumer without a prefetch
  limit is given what is ready in both queues.
- `Serve(r)`, weak: the steps of a request that is served, for the same reasons.
- In `PaymentSystem`, `Restart`, weak: `restart: always` of the deployment.
- In `RequestScope`, `Run(j)`, weak: what a job waits for is answered or times
  out, and PgBouncer gives a free connection to one that waits for it. `QueryFails`,
  which is also the timeout of that wait, is not part of it: jobs end without it.

Nothing is assumed of clients, the clock, crashes, the connection and the
idempotency store. `Settles` is conditional on a consumer that stays up at last
(`<>[]up`); crashes and losses before that are bounded by the delivery limit,
which is how the code bounds them. Every liveness property is checked under a
specification that states these conditions.

## 5. Proofs

All theorems hold for any payments, requests, keys, models, amounts and limits
that satisfy the assumptions the modules name (`ProcessingAssumption`,
`CreationAssumption`, `SystemAssumption`, `ReadingAssumption`, `MappingAssumption`,
`UnitOfWorkAssumption`, `ScopeAssumption`: constants have their types, sets of
different things do not meet, and the null values are not data).

- `PaymentProcessing_proofs` (`Spec`, reconnections included): `TypeCorrect`,
  `NothingAcknowledgedPending`, `NoOrphanedDelivery`, `DecisionsStay`,
  `DeadLetteredAtLimit`, `FirstDeliveryNotifies`, `OverdueFails`,
  `DeliveriesTakeBoundedWork`. The
  invariant adds to the properties what a task knows: one that acknowledges works
  on a decided payment, one that saves holds a decided result, one that exists
  had its delivery counted, and tasks run only while the process is up. A
  settlement is the delicate step: that of an old task must not touch the queue,
  which is `Owns`, and that of the owner must leave nothing live behind. For the first delivery, `FInv`
  adds that until the second one nobody but the first task decides, and that it
  comes to acknowledge its message only by way of its webhook. For
  `OverdueFails`, a payment is `Doomed` when it was overdue before its first
  delivery: each of its tasks is late and can store nothing but a failure, so
  that no interleaving of their commits makes it succeed. Bounded work is one
  inequality for each action, once it is known that a delivery which the broker
  makes is a new task and that attempts are counted up to the limit of attempts.
- `PaymentProcessing_refinement` (`ReliableSpec`): `OneHandlerPerPayment`, then
  `ImplementsLifecycle`. As only the owner is live, a task that decided to
  execute still finds its payment pending when it loads and when it commits, so
  that `Written` is its result; a task that notifies holds what the row holds.
  With that each step is a Create, Decide, Tell or stuttering step. For
  `AttemptsBoundPosts`, `PosterInv` adds that who came to `send_webhook` has decided
  its payment: a second one would have to commit, for which it needs the payment
  pending, which the lifecycle forbids.
- `PaymentCreation_proofs`: `TypeCorrect`, `UniquePayment`, `PublishedOnce`, `ReadableAnswer`,
  `SameAnswer`, `RefusedLeavesNothing`, `ImplementsPromise`, `RequestsTakeBoundedWork`.
  The invariant relates the step of a request to its row and its
  message (one that is publishing is stored and not sent) and what it found to
  the rows; uniqueness under a key then makes all answers agree, with no
  assumption on the idempotency store at all. It also makes the refinement of
  `IdempotentCreation` go through: the payment that a response names is readable,
  hence stored, hence the only one under its key. For the bound, each step of a
  request lowers what it has left.
- `PaymentSystem_proofs`, for the API and the consumer together:
  `SystemRunsConsumer` (each step of the API stores a row, publishes a message or
  changes nothing that the consumer sees, so that all its theorems hold of the
  whole), `SystemKeepsLifecycle`, `KeyChargedOnce`, `AnswersAndWebhooksAgree`,
  `SystemConsumes` and `SystemKeepsPromise` (the guarantees of consumer and API, now
  of both), `KeyPostedByOne`, and `UndecidedIsExplained`, which says what is left of
  the statement that the run `SystemUndecided` refutes. The
  invariant is that of each component and a link between them: the message in
  the queue is the one that the API has sent, and the row of the consumer is the
  one that it stored. The consumer keeps the promise of the API because it neither
  stores a payment nor removes one (`ConsumerRows`).
- `PaymentReading_proofs`: `TypeCorrect`, `ToldBeforeRead`,
  `ReadDecisionsStored`, `ReadsAreMonotonic`, from `PaymentLifecycle` alone. The
  invariant says of a row that a GET has loaded: it is the decision, if the
  client was told or has read one before; a decision never changes, so that this
  survives any steps of the rest before the answer.
- `PaymentMapping_proofs`: `RequestAnswered`, `MerchantToldRow` (whose amount is
  within a cent of the row's, and exact up to `FloatCents`), `DecisionOnly`.
  Row and DTO are images of the request that differ from it in the decision and
  the rounding; rounding a rounded amount changes nothing (`SavedAgain`).
- `UnitOfWork_proofs`: `NothingForgotten`, `DeletionsHappen`, for the classes in
  `Completing`: a model in `new` that no failed commit handled has no row, and one
  that was removed and is registered as dirty is still waiting for its deletion,
  so that no update can insert it afterwards. For classes outside, as
  `PaymentModel` is with `PaymentUoWMapper`, `UnawaitedOnlyInserts`.
- `RequestScope_proofs`: `TypeCorrect`, `WaitsDisconnected`, `ConnectionsComeBack`,
  `ToldIsCommitted`, `BrokerBeforeStore`, `JobsTakeBoundedWork`, for any jobs and any
  size of the pool. The
  invariant says of each step what its session holds: a connection only in a
  query, a rollback or a close, a write only in an open transaction, and a
  committed one wherever something may be told.

**Checked by TLC only:** the liveness properties `Settles` and `Ends`, whose steps
from fairness need ENABLED, which is out of the prover's reach, and the statements
that a run refutes. What can be proved of them is: each step of a task, a request
and a job brings it nearer to its end (`DeliveriesTakeBoundedWork`,
`RequestsTakeBoundedWork`, `JobsTakeBoundedWork`), deliveries are bounded
(`DeadLetteredAtLimit`), and what waits has somebody who works on it
(`NoOrphanedDelivery`, `WaitsDisconnected`). No definition
is recursive and no proof uses induction over data or ENABLED.

## 6. What is not modelled

- Of the HTTP front: CORS, the log context of `RequestProcessingTimeMiddleware`,
  the validation of bodies by pydantic. The circuit breaker is a library that the
  source only configures: it may open on an unhandled exception and closes at
  some time.
- Waiting times: delays, timeouts and the backoff between attempts are the
  possibility of the next step.
- The breaker around the whole application (a hazard without a property): which
  failures it counts and for how long it stays open is the library's. In
  `PaymentReading` any unhandled exception may open it, and it closes at some
  time; that the failures of one kind of request refuse the others is not stated.
- The webhook receiver is the merchant of a demonstration: it answers 200 or 400
  at random, which the POST of `PaymentProcessing` allows.
- Outbox tables: nothing writes or reads them.
- Of the container: the end of the APP scope (no code closes the container, so the
  broker and the HTTP client live as long as their process) and the lock under
  which dishka makes the objects of that scope. What a request or a message gets
  is `RequestScope`.
- `get_session_factory` in `infrastructures/db/session.py` and `from_dict` of the
  mapper have no caller but tests. The JSON encoder renders responses, the
  dictionary helpers read `pyproject.toml` at start; settings are read once;
  telemetry only observes; migrations run before the system.
- The disagreement of model and migration on `expired_at` (`nullable`): the
  migration makes the table, and allows null. A request without it stores None;
  those are the payments outside `Expiring`.

Taken from libraries and services (marked external in `PROJECT.json`): the
idempotency store as a lock or response per key with a time to live, RabbitMQ's
return and delivery count, the robust connection of aio-pika, and the process
manager of uvicorn, and the circuit breaker.

## 7. Plan

Done: `Payment`, `PaymentLifecycle`, `PaymentProcessing` with proofs and
refinement, `PaymentCreation` with proofs, `IdempotentCreation` with the
refinement, `PaymentSystem` with proofs,
`PaymentReading` with proofs, `PaymentMapping` with proofs, `UnitOfWork` with
proofs, `RequestScope` with proofs.

What could follow:

1. The message on the wire: `to_notification_dto`, its JSON form in the queue, and
   what the consumer and the DLQ handler take from it. Both use the id only, as
   `PaymentSystem` has it.
2. Requests to the end: that each POST is answered, from the fairness of
   `PaymentCreation`. On the instance of `Creation` the check of such a property takes
   longer than all others together; `RequestsGoOn` is its safety half.
3. A GET that reads the tables of `PaymentSystem` rather than of
   `PaymentLifecycle`, which would need no new argument: the lifecycle is
   refined.
