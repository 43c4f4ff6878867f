------------------------ MODULE PaymentMapping_proofs ------------------------
(***************************************************************************)
(* Proofs about PaymentMapping for any amounts and any limit.              *)
(***************************************************************************)
EXTENDS PaymentMapping, TLAPS

Decision(e) == [status |-> e.status, error |-> e.error]

\* An image of the request: what the layers may make of it before the decision.
ImageOf(e) == /\ e \in Images
              /\ e.amount = Cents(request.amount) * 10
              /\ e.currency = request.currency
              /\ e.webhook = request.webhook
              /\ e.fio = request.fio
              /\ Decision(e) \in {PendingRow} \cup Outcomes

NoRowSteps == {"received", "saving", "refused"}

MInv ==
  /\ request \in Schemas
  /\ at \in Steps
  /\ at \in NoRowSteps => row = None
  /\ at \notin NoRowSteps => ImageOf(row)
  /\ at = "saving" => dto = FromRequest(request)
  /\ at \in {"read", "notifying"} => dto = row
  /\ at = "updating" => ImageOf(dto)
  /\ at \in {"updating", "notifying"} => ~IsPending(dto)
  /\ response # None => /\ response \in Images
                        /\ AnswersTheRequest
  /\ payload # None => /\ at \in {"stored", "read", "unreadable"}
                       /\ PayloadIsRow
                       /\ ~IsPending(row)

-----------------------------------------------------------------------------

LEMMA RoundOnce == \A c \in Int : Cents(c * 10) = c
  BY DEF Cents

\* A request that passed the entity's validation is off by half a cent at most.
LEMMA RoundNear == \A a \in Int : /\ Cents(a) \in Int
                                  /\ Cents(a) * 10 - a \in -4 .. 5
                                  /\ (Cents(a) * 10) % 10 = 0
<1> SUFFICES ASSUME NEW a \in Int
             PROVE  /\ Cents(a) \in Int
                    /\ Cents(a) * 10 - a \in -4 .. 5
                    /\ (Cents(a) * 10) % 10 = 0
  OBVIOUS
<1> DEFINE c == Cents(a)
<1>1. c \in Int /\ c * 10 - a \in -4 .. 5
  BY DEF Cents
<1>2. \A n \in Int : (n * 10) % 10 = 0
  OBVIOUS
<1>3. QED
  BY <1>1, <1>2

\* Saving an image of the request again does not change its amount.
LEMMA SavedAgain == ASSUME NEW e, ImageOf(e), MInv PROVE ToRow(e) = e
<1>1. request.amount \in Int
  BY MappingAssumption DEF MInv, Schemas
<1>2. Cents(e.amount) * 10 = e.amount
  BY <1>1, RoundOnce, RoundNear DEF ImageOf
<1>3. QED
  BY <1>2 DEF ToRow, ImageOf, Images

LEMMA InitMInv == Init => MInv
  BY DEF Init, MInv, Steps, NoRowSteps

LEMMA StepInsert == ASSUME MInv, Insert PROVE MInv'
<1> USE MappingAssumption DEF MInv, Insert, NoRowSteps, Steps
<1>1. CASE IsEntity(dto) /\ Fits(dto)
  <2>1. request.amount \in Int /\ Cents(request.amount) \in Int
    BY RoundNear DEF Schemas
  <2>2. ImageOf(row)'
    BY <1>1, <2>1 DEF ImageOf, ToRow, FromRequest, IsEntity, IsCurrency, IsStatus, Images, Schemas, Decision,
                      PendingRow, Statuses
  <2>3. QED
    BY <1>1, <2>2 DEF AnswersTheRequest
<1>2. CASE ~(IsEntity(dto) /\ Fits(dto))
  BY <1>2 DEF AnswersTheRequest
<1>3. QED
  BY <1>1, <1>2

LEMMA StepLoad == ASSUME MInv, Load PROVE MInv'
<1> USE DEF MInv, Load, NoRowSteps, Steps
<1>1. ImageOf(row) /\ ToDto(row) = row
  BY DEF ImageOf, ToDto, Images
<1>2. ImageOf(row)'
  BY <1>1 DEF ImageOf, Decision
<1>3. AnswersTheRequest' <=> AnswersTheRequest
  BY DEF AnswersTheRequest
<1>4. PayloadIsRow' <=> PayloadIsRow
  BY DEF PayloadIsRow
<1>5. QED
  BY <1>1, <1>2, <1>3, <1>4

LEMMA StepRespond == ASSUME MInv, Respond PROVE MInv'
<1> USE DEF MInv, Respond, NoRowSteps, Steps
<1>1. ImageOf(row) /\ Shown(dto) = row
  BY DEF ImageOf, Shown, Images
<1>2. request.amount \in Int
  BY MappingAssumption DEF Schemas
<1>3. ImageOf(row)'
  BY <1>1 DEF ImageOf, Decision
<1>4. (response # None)' => response' \in Images /\ AnswersTheRequest'
  <2>1. CASE response' = Shown(dto)
    BY <1>1, <1>2, <2>1, RoundNear DEF AnswersTheRequest, ImageOf, Decision
  <2>2. CASE UNCHANGED response
    BY <2>2 DEF AnswersTheRequest
  <2>3. QED
    BY <2>1, <2>2
<1>5. PayloadIsRow' <=> PayloadIsRow
  BY DEF PayloadIsRow
<1>6. QED
  BY <1>1, <1>3, <1>4, <1>5 DEF ImageOf

LEMMA StepExecute == ASSUME MInv, Execute PROVE MInv'
<1> USE DEF MInv, Execute, NoRowSteps, Steps
<1>1. PICK r \in Outcomes : dto' = [dto EXCEPT !.status = r.status, !.error = r.error]
  OBVIOUS
<1>2. ImageOf(row) /\ payload = None
  BY DEF ImageOf
<1>3. r.status \in Statuses /\ r.error \in Errors \cup {NoError}
  BY DEF Outcomes, Statuses
<1>4. r = [status |-> r.status, error |-> r.error] /\ ~IsPending(r)
  BY DEF Outcomes, IsPending
<1>5. ImageOf(dto)'
  BY <1>1, <1>2, <1>3, <1>4 DEF ImageOf, Images, Decision
<1>6. ImageOf(row)'
  BY <1>2 DEF ImageOf, Decision
<1>7. ~IsPending(dto)'
  BY <1>1, <1>2, <1>4 DEF IsPending, ImageOf, Images
<1>8. QED
  BY <1>2, <1>5, <1>6, <1>7 DEF AnswersTheRequest

LEMMA StepUpdate == ASSUME MInv, Update PROVE MInv'
<1> USE DEF MInv, Update, NoRowSteps, Steps
<1>1. ImageOf(dto) /\ payload = None
  OBVIOUS
<1>2. row' = dto
  BY <1>1, SavedAgain
<1>3. ImageOf(row)'
  BY <1>1, <1>2 DEF ImageOf, Decision
<1>4. QED
  BY <1>1, <1>2, <1>3 DEF AnswersTheRequest, IsPending

LEMMA StepNotify == ASSUME MInv, Notify PROVE MInv'
<1> USE DEF MInv, Notify, NoRowSteps, Steps
<1>1. ImageOf(row) /\ dto = row
  BY DEF ImageOf
<1>2. ImageOf(row)'
  BY <1>1 DEF ImageOf, Decision
<1>3. PICK a \in Floated(row.amount) : payload' = [row EXCEPT !.amount = a]
  BY <1>1 DEF Payloads
<1>4. row \in Images /\ row.amount \in Int
  BY <1>1 DEF ImageOf, Images
<1>5. /\ a - row.amount \in {-10, 0, 10}
      /\ row.amount < FloatCents * 10 => a = row.amount
  BY <1>4, MappingAssumption DEF Floated
<1>6. /\ payload'.amount = a
      /\ [payload' EXCEPT !.amount = row.amount] = row
  BY <1>3, <1>4 DEF Images
<1>7. PayloadIsRow'
  BY <1>5, <1>6 DEF PayloadIsRow
<1>8. AnswersTheRequest' <=> AnswersTheRequest
  BY DEF AnswersTheRequest
<1>9. QED
  BY <1>1, <1>2, <1>7, <1>8 DEF IsPending

LEMMA NextMInv == MInv /\ [Next]_vars => MInv'
<1> SUFFICES ASSUME MInv, [Next]_vars PROVE MInv'
  OBVIOUS
<1>1. CASE Submit
  BY <1>1, MappingAssumption
     DEF MInv, Submit, NoRowSteps, Steps, FromRequest, AnswersTheRequest
<1>2. CASE UNCHANGED vars
  BY <1>2 DEF vars, MInv, ImageOf, Decision, AnswersTheRequest, PayloadIsRow
<1>3. QED
  BY <1>1, <1>2, StepInsert, StepLoad, StepRespond, StepExecute, StepUpdate, StepNotify
     DEF Next

LEMMA Invariance == Spec => []MInv
  BY InitMInv, NextMInv, PTL DEF Spec

\* Whatever was asked for, GET answers it, off by half a cent at most.
THEOREM RequestAnswered == Spec => []AnswersTheRequest
<1>1. MInv => AnswersTheRequest
  BY DEF MInv, AnswersTheRequest
<1>2. QED
  BY <1>1, Invariance, PTL

\* What the merchant is posted is what the row holds.
THEOREM MerchantToldRow == Spec => []PayloadIsRow
<1>1. MInv => PayloadIsRow
  BY DEF MInv, PayloadIsRow
<1>2. QED
  BY <1>1, Invariance, PTL

\* Writing every column back, the consumer changes the decision only.
THEOREM DecisionOnly == Spec => OnlyDecisionChanges
<1> DEFINE Kept == /\ row'.amount = row.amount
                   /\ row'.currency = row.currency
                   /\ row'.webhook = row.webhook
                   /\ row'.fio = row.fio
<1>1. ASSUME MInv, MInv', [Next]_vars PROVE [row # None => Kept]_vars
  <2>1. CASE UNCHANGED row
    BY <2>1
  <2>2. CASE Insert
    BY <1>1, <2>2 DEF MInv, Insert, NoRowSteps
  <2>3. CASE Update
    <3>1. ImageOf(dto) /\ ToRow(dto) = dto
      BY <1>1, <2>3, SavedAgain DEF MInv, Update
    <3>2. ImageOf(row)
      BY <1>1, <2>3 DEF MInv, Update, NoRowSteps
    <3>3. QED
      BY <2>3, <3>1, <3>2 DEF Update, ImageOf
  <2>4. QED
    BY <1>1, <2>1, <2>2, <2>3
       DEF Next, Submit, Load, Respond, Execute, Notify, vars
<1>2. QED
  BY <1>1, Invariance, PTL DEF Spec, OnlyDecisionChanges

=============================================================================
