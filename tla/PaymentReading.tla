---------------------------- MODULE PaymentReading ----------------------------
(***************************************************************************)
(* GET /api/v1/payments/{id}, from the middlewares of main.py to the       *)
(* answer, while the rest of the service does what PaymentLifecycle        *)
(* promises.  A client, which is also the merchant that webhooks go to,    *)
(* sends one GET after the other; a GET takes the steps                    *)
(*                                                                         *)
(*   idle -> checking -> loading -> responding -> idle                     *)
(*                                                                         *)
(* and the payment may change at each of them.  An exception without a     *)
(* handler in error_handling.py reaches the circuit breaker, the outermost *)
(* middleware.  The breaker is a library: all that is taken of it is that  *)
(* it may open on such an exception, turns GETs away while it is open, and *)
(* closes again at some time.                                              *)
(***************************************************************************)
EXTENDS Payment

CONSTANTS Payments,    \* the ids that clients ask for
          Clients,
          Unreadable,  \* payments whose stored amount is 0.00
          Nameless,    \* payments whose meta_data has no fio
          NoPayment    \* not an id

ASSUME ReadingAssumption == /\ Unreadable \subseteq Payments
                            /\ Nameless \subseteq Payments
                            /\ NoPayment \notin Payments

VARIABLES payment,  \* payment[p]: its row
          told,     \* told[p]: the results that webhooks told of p
          breaker,  \* the state of the circuit breaker
          get,      \* get[c]: the GET of client c, or its last one
          read      \* read[c][p]: the last row of p that c was answered

vars == <<payment, told, breaker, get, read>>

Steps == {"idle", "checking", "loading", "responding"}

\* none: no response (yet); rejected: by the breaker; unauthorized: 401; ok: 200;
\* unprocessable: 422; error: 500.
Codes == {"none", "rejected", "unauthorized", "ok", "unprocessable", "error"}

Gets == [at : Steps,
         id : Payments \cup {NoPayment},
         heard : SUBSET Outcomes,   \* what webhooks had told of id when it began
         loaded : Rows,             \* the row that the SELECT returned
         code : Codes]

NewGet(p) == [at |-> "checking", id |-> p, heard |-> told[p], loaded |-> NoRow,
              code |-> "none"]

\* A GET that brought the client nothing but a code.
Ended(code) == [at |-> "idle", id |-> NoPayment, heard |-> {}, loaded |-> NoRow,
                code |-> code]

\* A response with a payment in it carries one of the statuses a payment has.
TypeOK == /\ payment \in [Payments -> Rows]
          /\ told \in [Payments -> SUBSET Outcomes]
          /\ breaker \in {"closed", "open"}
          /\ get \in [Clients -> Gets]
          /\ read \in [Clients -> [Payments -> Rows]]
          /\ \A c \in Clients :
               get[c].code = "ok" => get[c].loaded \in {PendingRow} \cup Outcomes

\* The rest of the service: creation, consumer and webhooks.
Lifecycle == INSTANCE PaymentLifecycle

Init == /\ Lifecycle!Init
        /\ breaker = "closed"
        /\ get = [c \in Clients |-> Ended("none")]
        /\ read = [c \in Clients |-> [p \in Payments |-> NoRow]]

Serve == Lifecycle!Next /\ UNCHANGED <<breaker, get, read>>

-----------------------------------------------------------------------------
(* The middlewares.                                                        *)

Finish(c, code) == get' = [get EXCEPT ![c] = Ended(code)]

\* CircuitBreakerMiddleware comes first: an open breaker turns the GET away.
Ask(c, p) ==
  /\ get[c].at = "idle"
  /\ \/ breaker = "closed" /\ get' = [get EXCEPT ![c] = NewGet(p)]
     \/ breaker = "open" /\ Finish(c, "rejected")
  /\ UNCHANGED <<payment, told, breaker, read>>

\* ApiKeyHeaderMiddleware; the GET may come without the key, or with a wrong one.
CheckKey(c) ==
  /\ get[c].at = "checking"
  /\ \/ get' = [get EXCEPT ![c].at = "loading"]
     \/ Finish(c, "unauthorized")
  /\ UNCHANGED <<payment, told, breaker, read>>

\* An exception that no handler turns into a response: 500, and the breaker sees it.
Raise(c) == /\ Finish(c, "error")
            /\ breaker' \in {breaker, "open"}
            /\ UNCHANGED <<payment, told, read>>

\* The half-open test of the breaker succeeds.
BreakerCloses == /\ breaker = "open"
                 /\ breaker' = "closed"
                 /\ UNCHANGED <<payment, told, get, read>>

-----------------------------------------------------------------------------
(* get_payment.                                                            *)

Loads(c, r) == /\ get[c].at = "loading"
               /\ get' = [get EXCEPT ![c].at = "responding", ![c].loaded = r]
               /\ UNCHANGED <<payment, told, breaker, read>>

\* Mutant: one session for the whole process; its identity map, which no commit
\* expires, gives a row as some request before loaded it.
LoadShared(c) ==
  \/ Loads(c, payment[get[c].id])
  \/ \E d \in Clients : /\ get[d].id = get[c].id
                        /\ get[d].loaded # NoRow
                        /\ Loads(c, get[d].loaded)

\* Mutant: READ UNCOMMITTED; the decision of a handler that then rolls back.
LoadUncommitted(c) ==
  \/ Loads(c, payment[get[c].id])
  \/ /\ get[c].at = "loading" /\ payment[get[c].id] = PendingRow
     /\ \E o \in Outcomes : Loads(c, o)

\* GetPaymentByIdFromRepoUseCase in the session of this request.
Load(c) == Loads(c, payment[get[c].id])

\* The repository makes a RepositoryNotFoundError of any error of the database.
LoadFails(c) == get[c].at = "loading" /\ Raise(c)

Answer(c) == get' = [get EXCEPT ![c].at = "idle", ![c].code = "ok"]

\* Mutant: what is not there is answered like what is.
RespondAlways(c) ==
  /\ get[c].at = "responding"
  /\ Answer(c)
  /\ read' = [read EXCEPT ![c][get[c].id] = get[c].loaded]
  /\ UNCHANGED <<payment, told, breaker>>

\* PaymentDBMapper.to_entity and to_response: no row is None, whose attributes
\* to_response reads; an amount of 0.00 breaks the validation of the entity, which
\* is answered, and a fio of None that of the response schema, which is not.
Respond(c) ==
  /\ get[c].at = "responding"
  /\ LET p == get[c].id
         r == get[c].loaded IN
       \/ r = NoRow /\ Raise(c)   \* where payment_controller.py:30 has 404
       \/ r # NoRow /\ p \in Nameless \ Unreadable /\ Raise(c)
       \/ /\ r # NoRow /\ p \in Unreadable
          /\ Finish(c, "unprocessable")
          /\ UNCHANGED <<payment, told, breaker, read>>
       \/ /\ r # NoRow /\ p \notin Unreadable \cup Nameless
          /\ Answer(c)
          /\ read' = [read EXCEPT ![c][p] = r]
          /\ UNCHANGED <<payment, told, breaker>>

\* The worker that serves the GET dies.
Crash(c) == /\ get[c].at # "idle"
            /\ Finish(c, "none")
            /\ UNCHANGED <<payment, told, breaker, read>>

-----------------------------------------------------------------------------

Next == \/ Serve \/ BreakerCloses
        \/ \E c \in Clients : \/ \E p \in Payments : Ask(c, p)
                              \/ CheckKey(c) \/ Load(c) \/ LoadFails(c)
                              \/ Respond(c) \/ Crash(c)

Spec == Init /\ [][Next]_vars

-----------------------------------------------------------------------------
(* Properties.                                                             *)

\* A client that polls never sees a decided payment undecided, nor another
\* decision, though its GETs are served by any worker, each in a session of its
\* own (provide_async_session).  Like all of this module it holds where the rest of
\* the service keeps PaymentLifecycle: a decision that is overwritten after a
\* reconnection of the consumer is read as it then is.
ReadsNeverGoBack ==
  [][\A c \in Clients, p \in Payments :
       Decided(read[c][p]) => read'[c][p] = read[c][p]]_vars

\* A GET that begins after the webhook is answered with the decision that the
\* webhook told: the commit comes before the POST, and the SELECT after both.
ToldIsRead ==
  \A c \in Clients :
    get[c].code = "ok" /\ get[c].heard # {} => get[c].heard = {get[c].loaded}

\* No client is ahead of the table: a decision that was read is the stored one,
\* and no webhook tells another, before or after.
ReadIsStored ==
  \A c \in Clients, p \in Payments :
    Decided(read[c][p]) => payment[p] = read[c][p] /\ told[p] \subseteq {read[c][p]}

=============================================================================
