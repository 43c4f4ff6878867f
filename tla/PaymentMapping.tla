---------------------------- MODULE PaymentMapping ----------------------------
(***************************************************************************)
(* One payment on its way through the layers: request schema, DTO, domain  *)
(* entity, SQLAlchemy model and row, back to the DTO, and from there to    *)
(* the response of GET, to the result of the consumer and to the payload   *)
(* of the webhook.  It shows which requests the constants Invalid and      *)
(* Unreadable of the other modules stand for.                              *)
(*                                                                         *)
(* Amounts are in thousandths of the currency unit.  One nullable column   *)
(* (the webhook url) stands for all that are copied without being looked   *)
(* at: description, expired_at, the idempotency key and the meta data but  *)
(* for the fio, which the schema of a response looks at.                   *)
(***************************************************************************)
EXTENDS Payment, Integers

CONSTANTS Amounts,   \* amounts of the requests
          MaxCents,  \* DECIMAL(16, 2) holds less than this many cents: 10^16
          FloatCents,  \* below this many cents a float shows each: 2^46 units
          None       \* what is not there (yet)

Currencies == {"RUB", "USD", "EUR"}

\* What DTO, entity, model, row, response and payload all carry.
Images == [amount : Int, currency : Currencies \cup {"other"},
           webhook : {"null", "url"}, fio : {"null", "name"},
           status : Statuses, error : Errors \cup {NoError}]

ASSUME MappingAssumption == /\ Amounts \subseteq Int
                            /\ MaxCents \in Nat
                            /\ FloatCents \in Nat
                            /\ None \notin Images

VARIABLES request,   \* the body of the POST
          at,        \* the step the payment is at
          dto,       \* the PaymentDTO in the hands of the use case that runs
          row,       \* the row, None while there is none
          response,  \* the last response of GET
          payload    \* the last JSON posted to the webhook url

vars == <<request, at, dto, row, response, payload>>

\* The schema takes any decimal and any string, and defaults are not validated:
\* without a fio it is None.  The controller sets the status.
Schemas == [amount : Amounts, currency : Currencies \cup {"other"},
            webhook : {"null", "url"}, fio : {"null", "name"}]

Steps == {"received", "saving", "refused", "stored", "read", "unreadable",
          "updating", "notifying"}

-----------------------------------------------------------------------------
(* The conversions.                                                        *)

\* PaymentPresentationMapper.from_request
FromRequest(s) == [amount |-> s.amount, currency |-> s.currency,
                   webhook |-> s.webhook, fio |-> s.fio,
                   status |-> "pending", error |-> NoError]

\* What the value objects Currency and PaymentStatus accept.
IsCurrency(c) == c \in Currencies

IsStatus(s) == s \in {"pending", "succeeded", "failed"}

\* The invariants of PaymentEntity and of its value objects; breaking one raises.
IsEntity(e) == e.amount > 0 /\ IsCurrency(e.currency) /\ IsStatus(e.status)

\* numeric(16, 2) rounds half away from zero; here the amount is positive.
Cents(amount) == (amount + 5) \div 10

\* Mutant: the column truncates.
ToRowTruncated(e) == [e EXCEPT !.amount = (@ \div 10) * 10]

\* PaymentDBMapper.to_model and what the column then keeps of the amount.
ToRow(e) == [e EXCEPT !.amount = Cents(@) * 10]

Fits(e) == Cents(e.amount) < MaxCents

\* Mutant: a column is forgotten on the way back.
ToDtoForgetful(e) == [e EXCEPT !.webhook = "null"]

\* PaymentDBMapper.to_entity, then PaymentMapper.to_dto.
ToDto(e) == [amount |-> e.amount, currency |-> e.currency,
             webhook |-> e.webhook, fio |-> e.fio,
             status |-> e.status, error |-> e.error]

\* PaymentMetaDataSchema, when it is built for a response, wants a string.
IsResponse(d) == d.fio # "null"

\* PaymentPresentationMapper.to_response
Shown(d) == [amount |-> d.amount, currency |-> d.currency,
             webhook |-> d.webhook, fio |-> d.fio,
             status |-> d.status, error |-> d.error]

\* What float(amount) may show of so many whole cents: from 2^46 units on, where
\* floats are more than a cent apart, the cent before or after it.
Floated(amount) == IF amount < FloatCents * 10 THEN {amount}
                   ELSE {amount - 10, amount, amount + 10}

\* InfrastructurePaymentMapper.to_dict, which takes a fio that is None as it is.
Payloads(d) == {[d EXCEPT !.amount = a] : a \in Floated(d.amount)}

-----------------------------------------------------------------------------

Init == /\ request \in Schemas
        /\ at = "received"
        /\ dto = None /\ row = None /\ response = None /\ payload = None

\* The controller builds the DTO.
Submit == /\ at = "received"
          /\ at' = "saving"
          /\ dto' = FromRequest(request)
          /\ UNCHANGED <<request, row, response, payload>>

\* SavePaymentToRepoUseCase for a new payment: the entity is validated before
\* the column rounds, and a number too large for the column is an error.
Insert == /\ at = "saving"
          /\ IF IsEntity(dto) /\ Fits(dto)
             THEN at' = "stored" /\ row' = ToRow(dto)
             ELSE at' = "refused" /\ UNCHANGED row
          /\ UNCHANGED <<request, dto, response, payload>>

\* GetPaymentByIdFromRepoUseCase, for whoever asks: the entity is built again.
Load == /\ at = "stored"
        /\ IF IsEntity(row)
           THEN at' = "read" /\ dto' = ToDto(row)
           ELSE at' = "unreadable" /\ UNCHANGED dto
        /\ UNCHANGED <<request, row, response, payload>>

\* GET of the payment; without a fio to_response raises, and there is no response.
Respond == /\ at = "read"
           /\ at' = "stored"
           /\ response' = IF IsResponse(dto) THEN Shown(dto) ELSE response
           /\ UNCHANGED <<request, dto, row, payload>>

\* ExecutePaymentUseCase replaces status and error of the DTO that was read.
Execute == /\ at = "read"
           /\ IsPending(dto)
           /\ at' = "updating"
           /\ \E r \in Outcomes :
                dto' = [dto EXCEPT !.status = r.status, !.error = r.error]
           /\ UNCHANGED <<request, row, response, payload>>

\* Mutant: only what the decision is about is written, the status without its message.
UpdateStatus == /\ at = "updating"
                /\ at' = IF dto.webhook = "url" THEN "notifying" ELSE "stored"
                /\ row' = [row EXCEPT !.status = dto.status]
                /\ UNCHANGED <<request, dto, response, payload>>

\* The save of an existing payment: update_model_from_entity writes every column.
Update == /\ at = "updating"
          /\ at' = IF dto.webhook = "url" THEN "notifying" ELSE "stored"
          /\ row' = ToRow(dto)
          /\ UNCHANGED <<request, dto, response, payload>>

\* SendPaymentWebhookUseCase posts the DTO that was saved.
Notify == /\ at = "notifying"
          /\ at' = "stored"
          /\ payload' \in Payloads(dto)
          /\ UNCHANGED <<request, dto, row, response>>

Next == Submit \/ Insert \/ Load \/ Respond \/ Execute \/ Update \/ Notify

Spec == Init /\ [][Next]_vars

-----------------------------------------------------------------------------
(* Properties.                                                             *)

\* A client that reads its payment gets what it sent, the amount rounded to the
\* nearest cent, after any number of conversions and before and after the
\* decision (from_request, to_model, to_entity, to_dto, to_response).
AnswersTheRequest ==
  response # None =>
    /\ response.currency = request.currency
    /\ response.webhook = request.webhook
    /\ response.fio = request.fio
    /\ response.amount % 10 = 0
    /\ response.amount - request.amount \in -4 .. 5
    /\ [status |-> response.status, error |-> response.error] \in {PendingRow} \cup Outcomes

\* The merchant is posted what the row holds, every column of it: the payload is
\* made from a DTO and never from the row.  Its amount is a float, and from 2^46
\* units on it may be a cent off.
PayloadIsRow ==
  payload # None =>
    /\ [payload EXCEPT !.amount = row.amount] = row
    /\ payload.amount - row.amount \in {-10, 0, 10}
    /\ row.amount < FloatCents * 10 => payload.amount = row.amount

\* Executing a payment changes its decision and nothing else, though the save
\* writes every column back.
OnlyDecisionChanges ==
  [][row # None => /\ row'.amount = row.amount
                   /\ row'.currency = row.currency
                   /\ row'.webhook = row.webhook
                   /\ row'.fio = row.fio]_vars

(* A statement of the documentation that the code refutes. *)

\* domain/entities/payment.py:41: the amount must be greater than 0.
StoredIsEntity == row # None => IsEntity(row)

=============================================================================
