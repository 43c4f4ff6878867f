------------------------------- MODULE Payment -------------------------------
(***************************************************************************)
(* The part of a row of table `payments` that the service changes after it *)
(* was inserted: the status and the processing error message.  The other   *)
(* columns are written once, when the payment is created, and what of them *)
(* matters (who has a webhook url, which deadline, which key) is a         *)
(* constant of the modules that use it.                                    *)
(***************************************************************************)

NoError == "no error"

\* The five messages of ExecutePaymentUseCase; the four a bank could give are one.
Errors == {"declined", "expired"}

Statuses == {"none", "pending", "succeeded", "failed"}

Rows == [status : Statuses, error : Errors \cup {NoError}]

\* No row with this id in the table.
NoRow == [status |-> "none", error |-> NoError]

\* What the API inserts.
PendingRow == [status |-> "pending", error |-> NoError]

IsPending(r) == r.status = "pending"

Decided(r) == r.status \in {"succeeded", "failed"}

Expired == [status |-> "failed", error |-> "expired"]

Outcomes == {[status |-> "succeeded", error |-> NoError]}
              \cup [status : {"failed"}, error : Errors]

-----------------------------------------------------------------------------

\* Mutant: the deadline is not looked at.
ExecutedIgnoringDeadline(late) == Outcomes

\* The results ExecutePaymentUseCase may return for a payment that was (late)
\* or was not past its deadline when the execution began: the gateway is
\* emulated by a random draw, which also draws the message of a refusal.
Executed(late) == IF late THEN {Expired} ELSE Outcomes

\* PaymentRepositorySQLAlchemy.save assigns every attribute of the model it
\* loaded, but the UPDATE that the commit sends sets only the columns whose
\* value differs from the loaded one: a column that another transaction
\* changed meanwhile keeps that other value.
Written(current, loaded, new) ==
  [status |-> IF new.status = loaded.status THEN current.status ELSE new.status,
   error  |-> IF new.error = loaded.error THEN current.error ELSE new.error]

=============================================================================
