----------------------------- MODULE RequestScope -----------------------------
(***************************************************************************)
(* Sessions, transactions and connections: what the container gives to a   *)
(* POST, a GET or a message, and when it takes it back.                    *)
(*                                                                         *)
(* Each of these jobs runs in a REQUEST scope with one AsyncSession, which *)
(* its units of work share.  The session takes a connection at the first   *)
(* statement and gives it back when the transaction ends; PgBouncer, in    *)
(* pool_mode transaction, has PoolSize of them for all processes, while    *)
(* the pool of SQLAlchemy never blocks (max_overflow -1).                  *)
(* Between its units of work a job waits for RabbitMQ, for the payment     *)
(* gateway or for the merchant, for as long as these take.                 *)
(*                                                                         *)
(*   POST     lookup -> save -> publish -> reread                          *)
(*   GET      read                                                         *)
(*   message  read -> execute -> save -> webhook, in an outer unit of work *)
(***************************************************************************)
EXTENDS Naturals, FiniteSets

CONSTANTS Posts, Gets, Messages,   \* the jobs
          PoolSize                 \* connections PgBouncer opens to PostgreSQL

Jobs == Posts \cup Gets \cup Messages

ASSUME ScopeAssumption == /\ Posts \cap Gets = {} /\ Posts \cap Messages = {}
                          /\ Gets \cap Messages = {}
                          /\ PoolSize \in Nat \ {0}

VARIABLES at,        \* at[j]: the step of job j
          session,   \* session[j]: closed, idle, or open: in a transaction
          dirty,     \* dirty[j]: the transaction holds the write of j
          stored,    \* stored[j]: the write of j is committed
          told,      \* told[j]: a message or a webhook about it has left
          started    \* the API process has its RabbitBroker

vars == <<at, session, dirty, stored, told, started>>

Queries == {"lookup", "save", "reread", "read"}
Waits == {"starting", "publish", "execute", "webhook"}
Steps == Queries \cup Waits \cup {"new", "leaving", "rollback", "closing", "done"}

\* What may follow a step that did not raise: a payment found under the key, or
\* not pending, or without a webhook url ends the programme early.
PostSteps == [lookup |-> {"save", "closing"}, save |-> {"publish"},
              publish |-> {"reread"}, reread |-> {"closing"}]
GetSteps == [read |-> {"closing"}]
MessageSteps == [read |-> {"execute", "leaving"}, execute |-> {"save"},
                 save |-> {"webhook", "leaving"}, webhook |-> {"leaving"}]

\* The use case of a job is made of those of its steps (UseCaseProvider).
Follows(j) == IF j \in Posts THEN PostSteps
              ELSE IF j \in Gets THEN GetSteps ELSE MessageSteps

First(j) == IF j \in Posts THEN "lookup" ELSE "read"

Connected == {j \in Jobs : session[j] = "open"}

TypeOK == /\ at \in [Jobs -> Steps]
          /\ session \in [Jobs -> {"closed", "idle", "open"}]
          /\ dirty \in [Jobs -> BOOLEAN]
          /\ stored \in [Jobs -> BOOLEAN]
          /\ told \in [Jobs -> BOOLEAN]
          /\ started \in BOOLEAN

Init == /\ at = [j \in Jobs |-> "new"]
        /\ session = [j \in Jobs |-> "closed"]
        /\ dirty = [j \in Jobs |-> FALSE]
        /\ stored = [j \in Jobs |-> FALSE]
        /\ told = [j \in Jobs |-> FALSE]
        /\ started = FALSE

Goto(j, step) == at' = [at EXCEPT ![j] = step]
GoOn(j) == \E step \in Follows(j)[at[j]] : Goto(j, step)

-----------------------------------------------------------------------------
(* The container.                                                          *)

\* Mutant: the broker is not needed before it publishes.
ResolveLazily(j) ==
  /\ at[j] = "new"
  /\ Goto(j, First(j))
  /\ session' = [session EXCEPT ![j] = "idle"]
  /\ UNCHANGED <<dirty, stored, told, started>>

\* The controller's or the handler's parameters are resolved before it runs: a
\* session without a connection, and for a POST the publisher, whose broker the
\* process starts when it is first needed.
Resolve(j) ==
  /\ at[j] = "new"
  /\ Goto(j, IF j \in Posts /\ ~started THEN "starting" ELSE First(j))
  /\ session' = [session EXCEPT ![j] = "idle"]
  /\ UNCHANGED <<dirty, stored, told, started>>

\* broker.start() returned, for this request or for one it waited for.
BrokerStarts(j) ==
  /\ at[j] = "starting"
  /\ started' = TRUE
  /\ Goto(j, First(j))
  /\ UNCHANGED <<session, dirty, stored, told>>

\* broker.start() raised: the next request will try again.
BrokerFails(j) ==
  /\ at[j] = "starting"
  /\ ~started
  /\ Goto(j, "closing")
  /\ UNCHANGED <<session, dirty, stored, told, started>>

\* Mutant: the session is left to async_scoped_session.remove(), which looks for
\* the session of the current task.  An HTTP scope ends in the task of the
\* outermost middleware, not in the one that resolved the session.
CloseByTask(j) ==
  /\ at[j] = "closing"
  /\ session' = IF j \in Messages THEN [session EXCEPT ![j] = "closed"] ELSE session
  /\ dirty' = [dirty EXCEPT ![j] = FALSE]
  /\ Goto(j, "done")
  /\ UNCHANGED <<stored, told, started>>

\* The scope ends: `async with` closes the session, which rolls back and gives
\* back what is still open.
Close(j) ==
  /\ at[j] = "closing"
  /\ session' = [session EXCEPT ![j] = "closed"]
  /\ dirty' = [dirty EXCEPT ![j] = FALSE]
  /\ Goto(j, "done")
  /\ UNCHANGED <<stored, told, started>>

-----------------------------------------------------------------------------
(* A unit of work around one query.                                        *)

\* The first statement, once PgBouncer has a connection to give.  That of
\* repository.save is a SELECT, after which the write is added to the session.
Begin(j) ==
  /\ at[j] \in Queries
  /\ session[j] = "idle"
  /\ Cardinality(Connected) < PoolSize
  /\ session' = [session EXCEPT ![j] = "open"]
  /\ dirty' = [dirty EXCEPT ![j] = (at[j] = "save")]
  /\ UNCHANGED <<at, stored, told, started>>

EndTransaction(j, commits) ==
  /\ session' = [session EXCEPT ![j] = "idle"]
  /\ stored' = [stored EXCEPT ![j] = @ \/ (commits /\ dirty[j])]
  /\ dirty' = [dirty EXCEPT ![j] = FALSE]
  /\ UNCHANGED <<told, started>>

\* Mutant: only the outermost unit of work commits.
CommitOutermost(j) ==
  /\ at[j] \in Queries
  /\ session[j] = "open"
  /\ IF j \in Messages THEN UNCHANGED <<session, dirty, stored, told, started>>
                       ELSE EndTransaction(j, TRUE)
  /\ GoOn(j)

\* __aexit__ without an exception.
Commit(j) ==
  /\ at[j] \in Queries
  /\ session[j] = "open"
  /\ EndTransaction(j, TRUE)
  /\ GoOn(j)

\* The answer to the COMMIT is lost: it was done, and the code sees an error.
CommitUnknown(j) ==
  /\ at[j] \in Queries
  /\ session[j] = "open"
  /\ EndTransaction(j, TRUE)
  /\ Goto(j, "rollback")

\* Mutant: a query that fails is rolled back and tried again.
QueryRetried(j) ==
  /\ at[j] \in Queries
  /\ EndTransaction(j, FALSE)
  /\ UNCHANGED at

\* No connection in time, a statement that fails, a row that cannot be read, or
\* an entity that is not valid.
QueryFails(j) ==
  /\ at[j] \in Queries
  /\ Goto(j, "rollback")
  /\ UNCHANGED <<session, dirty, stored, told, started>>

\* __aexit__ with an exception: of the unit of work, and for a message of the
\* one around it too, which finds nothing more to roll back.
Rollback(j) ==
  /\ at[j] = "rollback"
  /\ EndTransaction(j, FALSE)
  /\ Goto(j, "closing")

\* The ROLLBACK fails or is cancelled; its error takes the place of the first.
RollbackFails(j) ==
  /\ at[j] = "rollback"
  /\ Goto(j, "closing")
  /\ UNCHANGED <<session, dirty, stored, told, started>>

\* The end of the unit of work around a message, which commits what is open.
Leave(j) ==
  /\ at[j] = "leaving"
  /\ EndTransaction(j, TRUE)
  /\ Goto(j, "closing")

-----------------------------------------------------------------------------
(* Between units of work.                                                  *)

\* publish_payment_to_broker; its error is swallowed, whatever it is.
Publish(j) ==
  /\ at[j] = "publish"
  /\ \E arrives \in BOOLEAN : told' = [told EXCEPT ![j] = @ \/ arrives]
  /\ GoOn(j)
  /\ UNCHANGED <<session, dirty, stored, started>>

\* ExecutePaymentUseCase: the sleep that stands for the payment gateway.
Execute(j) ==
  /\ at[j] = "execute"
  /\ GoOn(j)
  /\ UNCHANGED <<session, dirty, stored, told, started>>

\* send_webhook with its retries: it returns, or raises through the unit of work
\* around the message, whether or not the merchant got it.
PostWebhook(j) ==
  /\ at[j] = "webhook"
  /\ \E arrives \in BOOLEAN : told' = [told EXCEPT ![j] = @ \/ arrives]
  /\ GoOn(j) \/ Goto(j, "rollback")
  /\ UNCHANGED <<session, dirty, stored, started>>

\* A process dies: its connections break, its transactions are rolled back.
Lost(jobs) ==
  /\ at' = [j \in Jobs |-> IF j \in jobs /\ at[j] # "new" THEN "done" ELSE at[j]]
  /\ session' = [j \in Jobs |-> IF j \in jobs THEN "closed" ELSE session[j]]
  /\ dirty' = [j \in Jobs |-> dirty[j] /\ j \notin jobs]
  /\ UNCHANGED <<stored, told>>

CrashApi == Lost(Posts \cup Gets) /\ started' = FALSE

CrashConsumer == Lost(Messages) /\ UNCHANGED started

-----------------------------------------------------------------------------

Run(j) == \/ BrokerStarts(j) \/ BrokerFails(j)
          \/ Begin(j) \/ Commit(j) \/ CommitUnknown(j)
          \/ Rollback(j) \/ RollbackFails(j) \/ Leave(j)
          \/ Publish(j) \/ Execute(j) \/ PostWebhook(j) \/ Close(j)

Next == \/ \E j \in Jobs : Resolve(j) \/ Run(j) \/ QueryFails(j)
        \/ CrashApi \/ CrashConsumer

\* What waits for RabbitMQ, the database, the clock or a merchant is answered or
\* times out in the end, and PgBouncer gives a free connection to who waits for
\* one.  It does not rest on QueryFails, the timeout of that wait.
Fairness == \A j \in Jobs : WF_vars(Run(j))

Spec == Init /\ [][Next]_vars /\ Fairness

-----------------------------------------------------------------------------
(* Properties.                                                             *)

\* No job keeps a connection while it waits for RabbitMQ, the gateway or the
\* merchant: a slow merchant cannot use up the pool.
NoConnectionWhileWaiting == \A j \in Jobs : at[j] \in Waits => session[j] # "open"

\* However a job ended, its connection is back and its session closed.
NothingLeft == \A j \in Jobs : at[j] = "done" => session[j] = "closed"

\* What a message or a webhook speaks of is committed before it leaves, and no
\* failure afterwards takes it back.
CommittedBeforeTold == \A j \in Jobs : told[j] => stored[j]

\* A process that could never connect to RabbitMQ stores no payment: the POST
\* fails before its controller runs, so no stored payment awaits a message that
\* this process has no way to publish.
StoresWithBroker ==
  [][\A j \in Posts : ~stored[j] /\ stored'[j] => started]_vars

\* Every job that began ends, even with one connection for all, and without any
\* wait for a connection timing out: nobody keeps one for good, or waits for a
\* second one while holding the first.
Ends == \A j \in Jobs : at[j] # "new" ~> at[j] = "done"

\* What a job has left to do: two steps for a query, which begins a transaction
\* and ends it, and no less for any other step.
StepsLeft == [new |-> 10, starting |-> 9, lookup |-> 8, read |-> 8, execute |-> 7,
              save |-> 6, publish |-> 5, webhook |-> 5, reread |-> 4, leaving |-> 3,
              rollback |-> 2, closing |-> 1, done |-> 0]

Work(j) == 2 * StepsLeft[at[j]] - (IF session[j] = "open" THEN 1 ELSE 0)

JobGoesOn == \A j \in Jobs : \/ at'[j] = at[j] /\ session'[j] = session[j]
                             \/ Work(j)' < Work(j)

\* A job takes twenty steps at most, failures included: no query is tried again, no
\* rollback repeated, and no connection taken twice for one query, so that the pool
\* is never kept busy by jobs that get nowhere.
JobsGoOn == [][JobGoesOn]_vars

=============================================================================
