--------------------------- MODULE PaymentCreation ---------------------------
(***************************************************************************)
(* POST /api/v1/payments: the requests that the API workers serve at the   *)
(* same time, from the idempotency decorator of the controller through     *)
(* CreatePaymentUseCase to the answer.                                     *)
(*                                                                         *)
(* PaymentPresentationMapper.from_request gives each request a fresh       *)
(* uuid4, so a request and the payment it may create share one name.  The  *)
(* steps of a request are the awaits of the use case:                      *)
(*                                                                         *)
(*   new -> looking -> saving -> committing -> publishing -> rereading     *)
(*       -> replying -> done                                               *)
(*                                                                         *)
(* with an exception leading through "refusing" (one of the domain, which  *)
(* has a handler) or "failing" (any other) to "done".  The store of the    *)
(* decorator (idemptx on Redis) is external: it holds a lock or a response *)
(* per key, and forgets either when its time to live is over.              *)
(***************************************************************************)
EXTENDS Payment, Naturals

CONSTANTS Requests,   \* POST requests; also the ids of the payments they create
          Keys,       \* Idempotency-Key values
          KeyOf,      \* KeyOf[r]: the key that request r carries
          Invalid,    \* requests the entity's validation refuses
          Unreadable, \* requests whose amount DECIMAL(16, 2) stores as 0.00
          NoPayment   \* not a request

ASSUME CreationAssumption ==
  /\ KeyOf \in [Requests -> Keys]
  /\ Invalid \subseteq Requests
  /\ Unreadable \subseteq Requests
  /\ NoPayment \notin Requests

VARIABLES row,     \* row[p]: the row of payment p in table payments
          sent,    \* sent[p]: messages the broker accepted for p
          entry,   \* entry[k]: what the idempotency store holds for key k
          at,      \* at[r]: the step of request r
          found,   \* found[r]: the payment that the reply to r will name
          answer   \* answer[r]: the response to r

vars == <<row, sent, entry, at, found, answer>>

Steps == {"new", "looking", "saving", "committing", "publishing",
          "rereading", "replying", "refusing", "failing", "done"}

\* What the store may hold for a key: nothing (or nothing any more), the lock of
\* a request that is served, or a response, which names a payment.
Free == [state |-> "free", payment |-> NoPayment]
Locked == [state |-> "locked", payment |-> NoPayment]
Response(p) == [state |-> "answered", payment |-> p]
Entries == {Free, Locked} \cup {Response(p) : p \in Requests}

\* none: no response (yet); conflict: 409 of the decorator; refused: 409 or 422
\* made from an exception of the domain; error: 500; accepted: 202.
Bare(code) == [code |-> code, payment |-> NoPayment]
Accepted(p) == [code |-> "accepted", payment |-> p]
Answers == {Bare(code) : code \in {"none", "conflict", "refused", "error"}}
             \cup {Accepted(p) : p \in Requests}

Stored(p) == row[p] # NoRow

\* PaymentDBMapper.to_entity does not raise: the row passes the validation again.
Readable(p) == p \notin Invalid \cup Unreadable

\* The payments that a SELECT by idempotency key returns.
StoredUnder(k) == {p \in Requests : Stored(p) /\ KeyOf[p] = k}

TypeOK == /\ row \in [Requests -> Rows]
          /\ sent \in [Requests -> Nat]
          /\ entry \in [Keys -> Entries]
          /\ at \in [Requests -> Steps]
          /\ found \in [Requests -> Requests \cup {NoPayment}]
          /\ answer \in [Requests -> Answers]

Init == /\ row = [p \in Requests |-> NoRow]
        /\ sent = [p \in Requests |-> 0]
        /\ entry = [k \in Keys |-> Free]
        /\ at = [r \in Requests |-> "new"]
        /\ found = [r \in Requests |-> NoPayment]
        /\ answer = [r \in Requests |-> Bare("none")]

Goto(r, step) == at' = [at EXCEPT ![r] = step]

Finish(r, response) == /\ Goto(r, "done")
                       /\ answer' = [answer EXCEPT ![r] = response]

-----------------------------------------------------------------------------
(* The decorator @idempotent around create_payment_process.                *)

\* A free key is locked for the request; a locked one is a conflict; a kept
\* response is given again without entering the controller.
Begin(r) ==
  /\ at[r] = "new"
  /\ LET e == entry[KeyOf[r]] IN
       \/ /\ e.state = "free"
          /\ entry' = [entry EXCEPT ![KeyOf[r]] = Locked]
          /\ Goto(r, "looking")
          /\ UNCHANGED answer
       \/ /\ e.state = "locked"
          /\ Finish(r, Bare("conflict"))
          /\ UNCHANGED entry
       \/ /\ e.state = "answered"
          /\ Finish(r, Accepted(e.payment))
          /\ UNCHANGED entry
  /\ UNCHANGED <<row, sent, found>>

\* The response is kept under the key and returned, whoever holds the lock now.
Reply(r) ==
  /\ at[r] = "replying"
  /\ entry' = [entry EXCEPT ![KeyOf[r]] = Response(found[r])]
  /\ Finish(r, Accepted(found[r]))
  /\ UNCHANGED <<row, sent, found>>

\* An exception leaves the controller for an exception handler.  Whether the
\* store drops the lock at once or at its time to live is not ours to see.
Fail(r) ==
  /\ \/ at[r] = "refusing" /\ Finish(r, Bare("refused"))
     \/ at[r] = "failing" /\ Finish(r, Bare("error"))
  /\ \/ entry' = [entry EXCEPT ![KeyOf[r]] = Free]
     \/ UNCHANGED entry
  /\ UNCHANGED <<row, sent, found>>

\* The time to live of a lock or of a response is over, or Redis lost it.
Forget(k) ==
  /\ entry[k] # Free
  /\ entry' = [entry EXCEPT ![k] = Free]
  /\ UNCHANGED <<row, sent, at, found, answer>>

-----------------------------------------------------------------------------
(* CreatePaymentUseCase.                                                   *)

\* get_payment_by_idempotency_key_from_repo: an existing payment is returned
\* as it is, neither saved nor published again.
Lookup(r) ==
  /\ at[r] = "looking"
  /\ \/ /\ StoredUnder(KeyOf[r]) = {}
        /\ Goto(r, "saving")
        /\ UNCHANGED found
     \/ \E p \in StoredUnder(KeyOf[r]) :
          IF Readable(p)
          THEN Goto(r, "replying") /\ found' = [found EXCEPT ![r] = p]
          ELSE Goto(r, "refusing") /\ UNCHANGED found
  /\ UNCHANGED <<row, sent, entry, answer>>

\* Mutant: the request is not validated before it is stored.
SaveUnvalidated(r) ==
  /\ at[r] = "saving"
  /\ Goto(r, "committing")
  /\ UNCHANGED <<row, sent, entry, found, answer>>

\* save_payment_to_repo up to its commit: the entity is validated and the
\* SELECT by the fresh id finds no row.
Save(r) ==
  /\ at[r] = "saving"
  /\ Goto(r, IF r \in Invalid THEN "refusing" ELSE "committing")
  /\ UNCHANGED <<row, sent, entry, found, answer>>

Store(r) == row' = [row EXCEPT ![r] = PendingRow]

\* Mutant: without the unique index.
InsertAnyway(r) ==
  /\ at[r] = "committing"
  /\ Store(r)
  /\ Goto(r, "publishing")
  /\ UNCHANGED <<sent, entry, found, answer>>

\* Mutant: the error of the unique index is taken for success.
InsertSwallowed(r) ==
  /\ at[r] = "committing"
  /\ IF StoredUnder(KeyOf[r]) = {} THEN Store(r) ELSE UNCHANGED row
  /\ Goto(r, "publishing")
  /\ UNCHANGED <<sent, entry, found, answer>>

\* Mutant: the save is repeated when the unique index refuses it.
InsertRetried(r) ==
  /\ at[r] = "committing"
  /\ IF StoredUnder(KeyOf[r]) = {}
     THEN Store(r) /\ Goto(r, "publishing")
     ELSE UNCHANGED row /\ Goto(r, "saving")
  /\ UNCHANGED <<sent, entry, found, answer>>

\* The commit: the INSERT is sent here, so uq_payments_idempotency_key is
\* enforced here, and its IntegrityError propagates as it is.
Insert(r) ==
  /\ at[r] = "committing"
  /\ IF StoredUnder(KeyOf[r]) = {}
     THEN Store(r) /\ Goto(r, "publishing")
     ELSE UNCHANGED row /\ Goto(r, "failing")
  /\ UNCHANGED <<sent, entry, found, answer>>

\* The answer to the COMMIT is lost: it was done, and the code sees an error.
InsertUnknown(r) ==
  /\ at[r] = "committing"
  /\ StoredUnder(KeyOf[r]) = {}
  /\ Store(r)
  /\ Goto(r, "failing")
  /\ UNCHANGED <<sent, entry, found, answer>>

\* Mutant: a publication that is not confirmed is repeated.
PublishUntilConfirmed(r) ==
  /\ at[r] = "publishing"
  /\ sent' = [sent EXCEPT ![r] = @ + 1]
  /\ Goto(r, "rereading") \/ UNCHANGED at
  /\ UNCHANGED <<row, entry, found, answer>>

\* publish_payment_to_broker; whether or not the confirmation arrives.
Publish(r) ==
  /\ at[r] = "publishing"
  /\ sent' = [sent EXCEPT ![r] = @ + 1]
  /\ Goto(r, "rereading")
  /\ UNCHANGED <<row, entry, found, answer>>

\* The broker did not take the message; the use case swallows every exception.
PublishFails(r) ==
  /\ at[r] = "publishing"
  /\ Goto(r, "rereading")
  /\ UNCHANGED <<row, sent, entry, found, answer>>

\* Mutant: the DTO of the request is returned without reading it back.
RereadAssumed(r) ==
  /\ at[r] = "rereading"
  /\ Goto(r, "replying")
  /\ found' = [found EXCEPT ![r] = r]
  /\ UNCHANGED <<row, sent, entry, answer>>

\* Mutant: what the read returned is not looked at.
RereadUnchecked(r) ==
  /\ at[r] = "rereading"
  /\ Goto(r, "replying")
  /\ found' = [found EXCEPT ![r] = IF r \in Unreadable THEN NoPayment ELSE r]
  /\ UNCHANGED <<row, sent, entry, answer>>

\* get_payment_by_id_from_repo: the stored amount may not be readable again.  No
\* row would be None, from which no response can be made.
Reread(r) ==
  /\ at[r] = "rereading"
  /\ IF Stored(r) /\ Readable(r)
     THEN Goto(r, "replying") /\ found' = [found EXCEPT ![r] = r]
     ELSE /\ Goto(r, IF Stored(r) THEN "refusing" ELSE "failing")
          /\ UNCHANGED found
  /\ UNCHANGED <<row, sent, entry, answer>>

\* Any statement may fail.
DatabaseFails(r) ==
  /\ at[r] \in {"looking", "saving", "committing", "rereading"}
  /\ Goto(r, "failing")
  /\ UNCHANGED <<row, sent, entry, found, answer>>

\* The worker that serves r dies; the client gets no response.
Crash(r) ==
  /\ at[r] \notin {"new", "done"}
  /\ Goto(r, "done")
  /\ UNCHANGED <<row, sent, entry, found, answer>>

-----------------------------------------------------------------------------

Serve(r) == \/ Lookup(r) \/ Save(r) \/ Insert(r) \/ InsertUnknown(r)
            \/ Publish(r) \/ PublishFails(r) \/ Reread(r) \/ DatabaseFails(r)
            \/ Reply(r) \/ Fail(r)

Next == \/ \E r \in Requests : Begin(r) \/ Serve(r) \/ Crash(r)
        \/ \E k \in Keys : Forget(k)

\* Every await of a request ends.  Nothing is assumed of the clients, the
\* crashes and the store's times to live.
Fairness == \A r \in Requests : WF_vars(Serve(r))

Spec == Init /\ [][Next]_vars /\ Fairness

-----------------------------------------------------------------------------
(* Properties.                                                             *)

\* However many requests carry a key, at most one payment is stored under it,
\* with the idempotency store working or not (uq_payments_idempotency_key).
OnePaymentPerKey ==
  \A p, q \in Requests : Stored(p) /\ Stored(q) /\ KeyOf[p] = KeyOf[q] => p = q

\* All 202 responses to requests with the same key, replayed ones and those of
\* requests that raced each other included, name the same payment.
AnswersAgree ==
  \A r, s \in Requests :
    /\ answer[r].code = "accepted"
    /\ answer[s].code = "accepted"
    /\ KeyOf[r] = KeyOf[s]
    => answer[r].payment = answer[s].payment

\* A 202 response, and a response kept for later requests, names a payment that
\* is stored and can be read.
AnsweredIsReadable ==
  /\ \A r \in Requests : answer[r].code = "accepted" =>
       answer[r].payment \in StoredUnder(KeyOf[r]) \ Unreadable
  /\ \A k \in Keys : entry[k].state = "answered" =>
       entry[k].payment \in StoredUnder(k) \ Unreadable

\* The consumer is told of a payment once at most, and only after its row was
\* committed: it never looks for a payment that is not there.
SentOnceStored == \A p \in Requests : sent[p] <= 1 /\ (sent[p] = 1 => Stored(p))

\* A request that is answered 4xx left nothing behind, however it got there: the
\* client may correct and send it again.  One whose amount is stored as 0.00 is
\* the exception: it is stored, published and then refused.
RefusedIsUntouched ==
  \A r \in Requests : answer[r].code \in {"conflict", "refused"} =>
    r \in Unreadable \/ (~Stored(r) /\ sent[r] = 0)

\* The endpoint keeps the promises of IdempotentCreation: whatever the store
\* forgets and whoever crashes, the payment of a key is chosen by the first commit,
\* never changes again, and is what consumer and clients are told of.
Promise == INSTANCE IdempotentCreation
  WITH payments <- [k \in Keys |-> StoredUnder(k)],
       named <- [r \in Requests |-> IF answer[r].code = "accepted"
                                    THEN {answer[r].payment} ELSE {}]

KeepsPromise == Promise!Spec

\* What a request has left to do at most.
StepsLeft == [new |-> 7, looking |-> 6, saving |-> 5, committing |-> 4, publishing |-> 3,
              rereading |-> 2, replying |-> 1, refusing |-> 1, failing |-> 1, done |-> 0]

RequestGoesOn ==
  \A r \in Requests : at'[r] = at[r] \/ StepsLeft[at'[r]] < StepsLeft[at[r]]

\* A request is answered after seven steps at most, whoever holds its key: it does
\* not wait for a lock, and nothing is repeated when the unique index, the broker
\* or the database refuses it.
RequestsGoOn == [][RequestGoesOn]_vars

=============================================================================
