------------------------ MODULE PaymentCreation_proofs ------------------------
(***************************************************************************)
(* Proofs about PaymentCreation for any requests, keys and timing.         *)
(***************************************************************************)
EXTENDS PaymentCreation, TLAPS

ReadableUnder(k) == StoredUnder(k) \ Unreadable

Untouched(r) == r \in Unreadable \/ (~Stored(r) /\ sent[r] = 0)

\* What a request has done at each of its steps.
RequestOK(r) ==
  /\ at[r] \in {"new", "looking", "saving", "committing"} => row[r] = NoRow
  /\ at[r] \in {"new", "looking", "saving", "committing", "publishing"} => sent[r] = 0
  /\ at[r] \in {"publishing", "rereading"} => Stored(r)
  /\ at[r] = "replying" => found[r] \in ReadableUnder(KeyOf[r])
  /\ Stored(r) => r \notin Invalid
  /\ at[r] = "committing" => r \notin Invalid
  /\ at[r] = "refusing" \/ answer[r].code \in {"conflict", "refused"} => Untouched(r)
  /\ at[r] # "done" => answer[r].code = "none"

CInv == /\ TypeOK
        /\ \A r \in Requests : RequestOK(r)
        /\ OnePaymentPerKey
        /\ SentOnceStored
        /\ AnsweredIsReadable

-----------------------------------------------------------------------------

LEMMA RowFacts == NoRow \in Rows /\ PendingRow \in Rows /\ PendingRow # NoRow
  BY DEF NoRow, PendingRow, Rows, Statuses, Errors, NoError

LEMMA InitCInv == Init => CInv
<1> SUFFICES ASSUME Init PROVE CInv
  OBVIOUS
<1> USE CreationAssumption, RowFacts DEF Init
<1>1. TypeOK
  BY DEF TypeOK, Steps, Entries, Answers, Free, Bare
<1>2. \A r \in Requests : RequestOK(r)
  BY DEF RequestOK, Untouched, Stored, Bare
<1>3. OnePaymentPerKey /\ SentOnceStored /\ AnsweredIsReadable
  BY DEF OnePaymentPerKey, SentOnceStored, AnsweredIsReadable, Stored, Free, Bare
<1>4. QED
  BY <1>1, <1>2, <1>3 DEF CInv

\* A step that stores no row and publishes nothing: responses must name readable
\* payments, and the request must satisfy its new step.
LEMMA QuietStep ==
  ASSUME CInv, NEW r \in Requests, NEW s \in Steps,
         at' = [at EXCEPT ![r] = s], UNCHANGED <<row, sent>>,
         found' \in [Requests -> Requests \cup {NoPayment}],
         \A q \in Requests : q # r => found'[q] = found[q] /\ answer'[q] = answer[q],
         TypeOK', AnsweredIsReadable', RequestOK(r)'
  PROVE  CInv'
<1>1. \A q \in Requests : RequestOK(q)'
  BY DEF CInv, TypeOK, RequestOK, Untouched, Stored, ReadableUnder, StoredUnder
<1>2. OnePaymentPerKey' /\ SentOnceStored'
  BY DEF CInv, OnePaymentPerKey, SentOnceStored, Stored
<1>3. QED
  BY <1>1, <1>2 DEF CInv

LEMMA StepBegin == ASSUME CInv, NEW r \in Requests, Begin(r) PROVE CInv'
<1> USE CreationAssumption DEF CInv, Begin, Goto, Finish
<1> DEFINE e == entry[KeyOf[r]]
<1>0. /\ KeyOf[r] \in Keys /\ e \in Entries /\ Locked \in Entries
      /\ e.payment \in Requests \cup {NoPayment}
      /\ Bare("conflict") \in Answers
      /\ e.state = "answered" => Accepted(e.payment) \in Answers
  <2>1. KeyOf[r] \in Keys /\ e \in Entries /\ Locked \in Entries
    BY DEF TypeOK, Entries
  <2>2. e.payment \in Requests \cup {NoPayment}
    BY <2>1 DEF Entries, Free, Locked, Response
  <2>3. Bare("conflict") \in Answers
    BY DEF Answers
  <2>4. ASSUME e.state = "answered" PROVE Accepted(e.payment) \in Answers
    <3>1. PICK p \in Requests : e = Response(p)
      BY <2>1, <2>4 DEF Entries, Free, Locked
    <3>2. QED
      BY <3>1 DEF Response, Answers
  <2>5. QED
    BY <2>1, <2>2, <2>3, <2>4
<1>1. TypeOK'
  BY <1>0 DEF TypeOK, Steps
<1>2. AnsweredIsReadable'
  <2>1. CASE UNCHANGED entry
    BY <1>0, <2>1 DEF TypeOK, AnsweredIsReadable, StoredUnder, Stored, Bare, Accepted
  <2>2. CASE entry' = [entry EXCEPT ![KeyOf[r]] = Locked] /\ UNCHANGED answer
    BY <1>0, <2>2 DEF TypeOK, AnsweredIsReadable, StoredUnder, Stored, Locked
  <2>3. QED
    BY <2>1, <2>2
<1>3. RequestOK(r)'
  BY DEF TypeOK, RequestOK, Untouched, Stored, Bare, Accepted
<1>4. PICK s \in Steps : at' = [at EXCEPT ![r] = s]
  BY DEF Steps
<1>5. QED
  BY <1>1, <1>2, <1>3, <1>4, QuietStep DEF TypeOK

\* The steps of a request that touch neither the store nor its answer.
LEMMA StepInside ==
  ASSUME CInv, NEW r \in Requests,
         \/ Lookup(r) \/ Save(r) \/ PublishFails(r) \/ Reread(r)
         \/ DatabaseFails(r) \/ Crash(r)
  PROVE  CInv'
<1> USE CreationAssumption
        DEF CInv, Lookup, Save, PublishFails, Reread, DatabaseFails, Crash, Goto
<1>1. PICK s \in Steps : at' = [at EXCEPT ![r] = s]
  BY DEF Steps
<1>2. UNCHANGED <<row, sent, entry, answer>>
  OBVIOUS
<1>3. /\ found' \in [Requests -> Requests \cup {NoPayment}]
      /\ \A q \in Requests : q # r => found'[q] = found[q]
  BY DEF TypeOK, StoredUnder
<1>4. TypeOK'
  BY <1>1, <1>2, <1>3 DEF TypeOK
<1>5. AnsweredIsReadable'
  BY <1>2 DEF AnsweredIsReadable, StoredUnder, Stored
<1>6. RequestOK(r)'
  <2> USE DEF TypeOK, RequestOK, Untouched
  <2>1. CASE Lookup(r)
    BY <1>2, <2>1 DEF ReadableUnder, StoredUnder, Stored, Readable
  <2>2. CASE Save(r) \/ PublishFails(r) \/ DatabaseFails(r) \/ Crash(r)
    BY <1>2, <2>2 DEF Stored
  <2>3. CASE Reread(r)
    BY <1>2, <2>3 DEF ReadableUnder, StoredUnder, Stored, Readable
  <2>4. QED
    BY <2>1, <2>2, <2>3
<1>7. QED
  BY <1>1, <1>2, <1>3, <1>4, <1>5, <1>6, QuietStep

LEMMA StepReply == ASSUME CInv, NEW r \in Requests, Reply(r) PROVE CInv'
<1> USE CreationAssumption DEF CInv, Reply, Goto, Finish
<1>0. found[r] \in Requests
  BY DEF RequestOK, Untouched, ReadableUnder, StoredUnder
<1>1. TypeOK'
  <2>1. Response(found[r]) \in Entries /\ Accepted(found[r]) \in Answers
    BY <1>0 DEF Entries, Answers
  <2>2. QED
    BY <2>1 DEF TypeOK, Steps
<1>2. AnsweredIsReadable'
  BY DEF TypeOK, AnsweredIsReadable, RequestOK, Untouched, ReadableUnder, StoredUnder, Stored, Response, Accepted
<1>3. RequestOK(r)'
  BY DEF TypeOK, RequestOK, Untouched, Stored, Bare, Accepted
<1>4. "done" \in Steps
  BY DEF Steps
<1>5. QED
  BY <1>1, <1>2, <1>3, <1>4, QuietStep DEF TypeOK

LEMMA StepFail == ASSUME CInv, NEW r \in Requests, Fail(r) PROVE CInv'
<1> USE CreationAssumption DEF CInv, Fail, Goto, Finish
<1>1. TypeOK'
  BY DEF TypeOK, Steps, Entries, Answers, Free, Bare
<1>2. AnsweredIsReadable'
  BY DEF TypeOK, AnsweredIsReadable, StoredUnder, Stored, Free, Bare
<1>3. RequestOK(r)'
  BY DEF TypeOK, RequestOK, Untouched, Stored, Bare, Accepted
<1>4. "done" \in Steps
  BY DEF Steps
<1>5. QED
  BY <1>1, <1>2, <1>3, <1>4, QuietStep DEF TypeOK

LEMMA StepForget == ASSUME CInv, NEW k \in Keys, Forget(k) PROVE CInv'
<1> USE CreationAssumption DEF CInv, Forget
<1>1. TypeOK'
  BY DEF TypeOK, Entries, Free
<1>2. AnsweredIsReadable'
  BY DEF TypeOK, AnsweredIsReadable, StoredUnder, Stored, Free
<1>3. (\A r \in Requests : RequestOK(r)') /\ OnePaymentPerKey' /\ SentOnceStored'
  BY DEF RequestOK, Untouched, OnePaymentPerKey, SentOnceStored, ReadableUnder, StoredUnder, Stored
<1>4. QED
  BY <1>1, <1>2, <1>3

\* A commit that stores the row: the unique index lets it in only as the first.
LEMMA StepStore ==
  ASSUME CInv, NEW r \in Requests, NEW s \in {"publishing", "failing"},
         at[r] = "committing", StoredUnder(KeyOf[r]) = {}, Store(r), Goto(r, s),
         UNCHANGED <<sent, entry, found, answer>>
  PROVE  CInv'
<1> USE CreationAssumption, RowFacts DEF CInv, Store, Goto
<1>1. TypeOK'
  BY DEF TypeOK, Steps
<1>2. \A q \in Requests : Stored(q)' <=> Stored(q) \/ q = r
  BY DEF TypeOK, Stored
<1>3. \A q \in Requests : RequestOK(q)'
  BY <1>2 DEF TypeOK, RequestOK, Untouched, ReadableUnder, StoredUnder, Stored
<1>4. OnePaymentPerKey'
  BY <1>2 DEF OnePaymentPerKey, StoredUnder
<1>5. SentOnceStored'
  BY <1>2 DEF SentOnceStored
<1>6. AnsweredIsReadable'
  BY <1>2 DEF AnsweredIsReadable, StoredUnder
<1>7. QED
  BY <1>1, <1>3, <1>4, <1>5, <1>6

LEMMA StepInsert == ASSUME CInv, NEW r \in Requests, Insert(r) \/ InsertUnknown(r) PROVE CInv'
<1>1. CASE StoredUnder(KeyOf[r]) = {}
  BY <1>1, StepStore DEF Insert, InsertUnknown
<1>2. CASE StoredUnder(KeyOf[r]) # {}
  <2>1. /\ at[r] = "committing" /\ at' = [at EXCEPT ![r] = "failing"]
        /\ UNCHANGED <<row, sent, entry, found, answer>>
    BY <1>2 DEF Insert, InsertUnknown, Goto
  <2>2. "failing" \in Steps /\ TypeOK'
    BY <2>1 DEF CInv, TypeOK, Steps
  <2>3. AnsweredIsReadable' /\ RequestOK(r)'
    BY <2>1 DEF CInv, TypeOK, AnsweredIsReadable, RequestOK, Untouched, StoredUnder, Stored
  <2>4. QED
    BY <2>1, <2>2, <2>3, QuietStep DEF CInv, TypeOK
<1>3. QED
  BY <1>1, <1>2

LEMMA StepPublish == ASSUME CInv, NEW r \in Requests, Publish(r) PROVE CInv'
<1> USE CreationAssumption DEF CInv, Publish, Goto
<1>1. sent[r] = 0 /\ Stored(r)
  BY DEF RequestOK, Untouched
<1>2. TypeOK'
  BY DEF TypeOK, Steps
<1>3. \A q \in Requests : RequestOK(q)'
  BY DEF TypeOK, RequestOK, Untouched, ReadableUnder, StoredUnder, Stored
<1>4. SentOnceStored'
  BY <1>1 DEF TypeOK, SentOnceStored, Stored
<1>5. OnePaymentPerKey' /\ AnsweredIsReadable'
  BY DEF OnePaymentPerKey, AnsweredIsReadable, StoredUnder, Stored
<1>6. QED
  BY <1>2, <1>3, <1>4, <1>5

LEMMA RequestStep ==
  ASSUME CInv, NEW r \in Requests, Begin(r) \/ Serve(r) \/ Crash(r)
  PROVE  CInv'
  BY StepBegin, StepInside, StepReply, StepFail, StepInsert, StepPublish DEF Serve

\* All that others see of a request: a fresh row, or the message of a stored one.
LEMMA RequestEffect ==
  ASSUME CInv, NEW r \in Requests, Begin(r) \/ Serve(r) \/ Crash(r)
  PROVE  \/ UNCHANGED <<row, sent>>
         \/ row[r] = NoRow /\ Store(r) /\ UNCHANGED sent
         \/ row[r] # NoRow /\ sent[r] = 0 /\ sent' = [sent EXCEPT ![r] = 1] /\ UNCHANGED row
<1>1. CASE Begin(r) \/ Crash(r)
  BY <1>1 DEF Begin, Crash
<1>2. CASE Insert(r) \/ InsertUnknown(r)
  <2>1. row[r] = NoRow
    BY <1>2 DEF CInv, RequestOK, Insert, InsertUnknown
  <2>2. QED
    BY <1>2, <2>1 DEF Insert, InsertUnknown
<1>3. CASE Publish(r)
  <2>1. row[r] # NoRow /\ sent[r] = 0
    BY <1>3 DEF CInv, RequestOK, Stored, Publish
  <2>2. QED
    BY <1>3, <2>1 DEF Publish
<1>4. CASE \/ Lookup(r) \/ Save(r) \/ PublishFails(r) \/ Reread(r)
           \/ DatabaseFails(r) \/ Reply(r) \/ Fail(r)
  BY <1>4 DEF Lookup, Save, PublishFails, Reread, DatabaseFails, Reply, Fail
<1>5. QED
  BY <1>1, <1>2, <1>3, <1>4 DEF Serve

LEMMA NextCInv == CInv /\ [Next]_vars => CInv'
<1> SUFFICES ASSUME CInv, [Next]_vars PROVE CInv'
  OBVIOUS
<1>1. ASSUME NEW r \in Requests, Begin(r) \/ Serve(r) \/ Crash(r) PROVE CInv'
  BY <1>1, RequestStep
<1>2. ASSUME NEW k \in Keys, Forget(k) PROVE CInv'
  BY <1>2, StepForget
<1>3. CASE UNCHANGED vars
  BY <1>3 DEF vars, CInv, TypeOK, RequestOK, Untouched, OnePaymentPerKey, SentOnceStored,
              AnsweredIsReadable, ReadableUnder, StoredUnder, Stored
<1>4. QED
  BY <1>1, <1>2, <1>3 DEF Next

LEMMA Invariance == Spec => []CInv
  BY InitCInv, NextCInv, PTL DEF Spec

\* Every response, kept or given, has a form the controller makes, and every
\* request is at a step of create_payment: the types of the whole component.
THEOREM TypeCorrect == Spec => []TypeOK
<1>1. CInv => TypeOK
  BY DEF CInv
<1>2. QED
  BY <1>1, Invariance, PTL

\* However requests race and whatever the idempotency store forgets, one payment
\* at most is stored under a key: the unique index alone is enough for it.
THEOREM UniquePayment == Spec => []OnePaymentPerKey
<1>1. CInv => OnePaymentPerKey
  BY DEF CInv
<1>2. QED
  BY <1>1, Invariance, PTL

\* The consumer is told of a payment once at most and after it was stored.
THEOREM PublishedOnce == Spec => []SentOnceStored
<1>1. CInv => SentOnceStored
  BY DEF CInv
<1>2. QED
  BY <1>1, Invariance, PTL

\* A 202 response, given or kept, names a payment that is stored and readable.
THEOREM ReadableAnswer == Spec => []AnsweredIsReadable
<1>1. CInv => AnsweredIsReadable
  BY DEF CInv
<1>2. QED
  BY <1>1, Invariance, PTL

\* All 202 responses to the requests with one key name the same payment.
THEOREM SameAnswer == Spec => []AnswersAgree
<1>1. ASSUME CInv PROVE AnswersAgree
  BY <1>1 DEF CInv, AnswersAgree, AnsweredIsReadable, OnePaymentPerKey, StoredUnder
<1>2. QED
  BY <1>1, Invariance, PTL

\* A request that is answered 4xx left nothing behind, in table and queue, but
\* for an amount that the column stores as 0.00.
THEOREM RefusedLeavesNothing == Spec => []RefusedIsUntouched
<1>1. CInv => RefusedIsUntouched
  BY DEF CInv, RequestOK, Untouched, RefusedIsUntouched
<1>2. QED
  BY <1>1, Invariance, PTL

-----------------------------------------------------------------------------
(* The endpoint implements IdempotentCreation: a commit that stores a row    *)
(* is Create, a publication Announce, a 202 response, kept or new, Accept;   *)
(* all other steps, those of the idempotency store included, are invisible.  *)

Payments == [k \in Keys |-> StoredUnder(k)]

Named == [r \in Requests |-> IF answer[r].code = "accepted"
                             THEN {answer[r].payment} ELSE {}]

PromiseStep == [Promise!Next]_<<Payments, sent, Named>>

LEMMA InitPromise == Init => Promise!Init
  BY RowFacts DEF Init, Promise!Init, StoredUnder, Stored, Bare

LEMMA SameRows == ASSUME UNCHANGED row PROVE Payments' = Payments
  BY DEF Payments, StoredUnder, Stored

LEMMA SameAnswers == ASSUME UNCHANGED answer PROVE Named' = Named
  BY DEF Named

\* The payment of an accepted response is the one stored under its key.
LEMMA TheOnlyPayment ==
  ASSUME CInv, NEW r \in Requests, NEW p \in StoredUnder(KeyOf[r])
  PROVE  StoredUnder(KeyOf[r]) = {p}
  BY DEF CInv, OnePaymentPerKey, StoredUnder

\* A response that accepts the request is Accept.
LEMMA AcceptStep ==
  ASSUME CInv, NEW r \in Requests, NEW p \in StoredUnder(KeyOf[r]), at[r] # "done",
         answer' = [answer EXCEPT ![r] = Accepted(p)], UNCHANGED <<row, sent>>
  PROVE  Promise!Accept(r)
<1> USE CreationAssumption
<1>1. answer[r].code = "none"
  BY DEF CInv, RequestOK
<1>2. StoredUnder(KeyOf[r]) = {p}
  BY TheOnlyPayment
<1>3. Payments[KeyOf[r]] = {p} /\ Payments' = Payments
  BY <1>2, SameRows DEF Payments
<1>4. Named[r] = {}
  BY <1>1 DEF Named
<1>5. Named' = [Named EXCEPT ![r] = {p}]
  BY DEF CInv, TypeOK, Named, Accepted
<1>6. QED
  BY <1>3, <1>4, <1>5 DEF Promise!Accept, Payments, Named

\* A response that does not is invisible.
LEMMA RefuseStep ==
  ASSUME CInv, NEW r \in Requests, NEW code \in {"conflict", "refused", "error"},
         at[r] # "done", answer' = [answer EXCEPT ![r] = Bare(code)]
  PROVE  Named' = Named
<1>1. answer[r].code = "none"
  BY DEF CInv, RequestOK
<1>2. QED
  BY <1>1 DEF CInv, TypeOK, Named, Bare

\* A commit that stores the row is Create.
LEMMA CreateStep ==
  ASSUME CInv, NEW r \in Requests, StoredUnder(KeyOf[r]) = {}, Store(r), UNCHANGED <<sent, answer>>
  PROVE  Promise!Create(r)
<1> USE CreationAssumption
<1>1. \A q \in Requests : Stored(q)' <=> Stored(q) \/ q = r
  BY RowFacts DEF CInv, TypeOK, Stored, Store
<1>2. \A k \in Keys : StoredUnder(k)' = IF k = KeyOf[r] THEN {r} ELSE StoredUnder(k)
  <2> TAKE k \in Keys
  <2>1. CASE k = KeyOf[r]
    BY <1>1, <2>1 DEF StoredUnder
  <2>2. CASE k # KeyOf[r]
    BY <1>1, <2>2 DEF StoredUnder
  <2>3. QED
    BY <2>1, <2>2
<1>3. Payments' = [Payments EXCEPT ![KeyOf[r]] = {r}]
  BY <1>2 DEF Payments
<1>4. QED
  BY <1>3, SameAnswers DEF Promise!Create, Payments, Named

\* A publication is Announce.
LEMMA AnnounceStep == ASSUME CInv, NEW r \in Requests, Publish(r) PROVE Promise!Announce(r)
<1> USE CreationAssumption
<1>1. sent[r] = 0 /\ r \in StoredUnder(KeyOf[r])
  BY DEF CInv, RequestOK, Publish, StoredUnder
<1>2. sent' = [sent EXCEPT ![r] = 1] /\ UNCHANGED <<row, answer>>
  BY <1>1 DEF CInv, TypeOK, Publish
<1>3. QED
  BY <1>1, <1>2, SameRows, SameAnswers DEF Promise!Announce, Payments, Named

LEMMA RequestPromise ==
  ASSUME CInv, NEW r \in Requests, Begin(r) \/ Serve(r) \/ Crash(r)
  PROVE  \/ Promise!Create(r) \/ Promise!Announce(r) \/ Promise!Accept(r)
         \/ UNCHANGED <<Payments, sent, Named>>
<1> USE CreationAssumption
<1>1. CASE Begin(r)
  <2> DEFINE e == entry[KeyOf[r]]
  <2>1. UNCHANGED <<row, sent>> /\ at[r] # "done"
    BY <1>1 DEF Begin
  <2>2. CASE UNCHANGED answer
    BY <2>1, <2>2, SameRows, SameAnswers
  <2>3. CASE answer' = [answer EXCEPT ![r] = Bare("conflict")]
    BY <2>1, <2>3, SameRows, RefuseStep
  <2>4. CASE e.state = "answered" /\ answer' = [answer EXCEPT ![r] = Accepted(e.payment)]
    <3>1. e.payment \in StoredUnder(KeyOf[r])
      BY <2>4 DEF CInv, AnsweredIsReadable
    <3>2. QED
      BY <2>1, <2>4, <3>1, AcceptStep
  <2>5. QED
    BY <1>1, <2>2, <2>3, <2>4 DEF Begin, Finish
<1>2. CASE Reply(r)
  <2>1. found[r] \in StoredUnder(KeyOf[r])
    BY <1>2 DEF CInv, RequestOK, ReadableUnder, Reply
  <2>2. QED
    BY <1>2, <2>1, AcceptStep DEF Reply, Finish
<1>3. CASE Fail(r)
  <2>1. UNCHANGED <<row, sent>> /\ at[r] # "done"
    BY <1>3 DEF Fail
  <2>2. PICK code \in {"refused", "error"} : answer' = [answer EXCEPT ![r] = Bare(code)]
    BY <1>3 DEF Fail, Finish
  <2>3. QED
    BY <2>1, <2>2, SameRows, RefuseStep
<1>4. CASE Insert(r) \/ InsertUnknown(r)
  <2>1. CASE StoredUnder(KeyOf[r]) = {}
    BY <1>4, <2>1, CreateStep DEF Insert, InsertUnknown
  <2>2. CASE StoredUnder(KeyOf[r]) # {}
    BY <1>4, <2>2, SameRows, SameAnswers DEF Insert, InsertUnknown
  <2>3. QED
    BY <2>1, <2>2
<1>5. CASE Publish(r)
  BY <1>5, AnnounceStep
<1>6. CASE \/ Lookup(r) \/ Save(r) \/ PublishFails(r) \/ Reread(r)
           \/ DatabaseFails(r) \/ Crash(r)
  BY <1>6, SameRows, SameAnswers
     DEF Lookup, Save, PublishFails, Reread, DatabaseFails, Crash
<1>7. QED
  BY <1>1, <1>2, <1>3, <1>4, <1>5, <1>6 DEF Serve

LEMMA NextPromise == CInv /\ [Next]_vars => PromiseStep
<1> SUFFICES ASSUME CInv, [Next]_vars PROVE PromiseStep
  OBVIOUS
<1>1. ASSUME NEW r \in Requests, Begin(r) \/ Serve(r) \/ Crash(r) PROVE PromiseStep
  BY <1>1, RequestPromise DEF PromiseStep, Promise!Next
<1>2. ASSUME NEW k \in Keys, Forget(k) PROVE PromiseStep
  BY <1>2, SameRows, SameAnswers DEF Forget, PromiseStep
<1>3. CASE UNCHANGED vars
  BY <1>3, SameRows, SameAnswers DEF vars, PromiseStep
<1>4. QED
  BY <1>1, <1>2, <1>3 DEF Next

\* Whatever the idempotency store forgets and whoever crashes, the payment of a key
\* is chosen by the first commit and is what consumer and clients are told of.
THEOREM ImplementsPromise == Spec => KeepsPromise
<1>1. CInv /\ [Next]_vars => PromiseStep
  BY NextPromise
<1>2. QED
  BY <1>1, InitPromise, Invariance, PTL DEF Spec, KeepsPromise, Promise!Spec, PromiseStep, Payments, Named

-----------------------------------------------------------------------------
(* The work of a request is bounded.                                         *)

LEMMA Goes ==
  ASSUME CInv, NEW r \in Requests, NEW s \in Steps, at' = [at EXCEPT ![r] = s],
         StepsLeft[s] < StepsLeft[at[r]]
  PROVE  RequestGoesOn
  BY DEF CInv, TypeOK, RequestGoesOn

LEMMA RequestAdvances ==
  ASSUME CInv, NEW r \in Requests, Begin(r) \/ Serve(r) \/ Crash(r)
  PROVE  RequestGoesOn
<1> USE DEF Goto, Finish
<1>1. PICK s \in Steps : at' = [at EXCEPT ![r] = s] /\ StepsLeft[s] < StepsLeft[at[r]]
  <2> USE DEF Steps, StepsLeft
  <2>1. CASE Begin(r)
    BY <2>1 DEF Begin
  <2>2. CASE Lookup(r) \/ Save(r) \/ Insert(r) \/ InsertUnknown(r)
    BY <2>2 DEF Lookup, Save, Insert, InsertUnknown
  <2>3. CASE Publish(r) \/ PublishFails(r) \/ Reread(r)
    BY <2>3 DEF Publish, PublishFails, Reread
  <2>4. CASE DatabaseFails(r) \/ Reply(r) \/ Fail(r)
    BY <2>4 DEF DatabaseFails, Reply, Fail
  <2>5. CASE Crash(r)
    BY <2>5 DEF CInv, TypeOK, Crash
  <2>6. QED
    BY <2>1, <2>2, <2>3, <2>4, <2>5 DEF Serve
<1>2. QED
  BY <1>1, Goes

\* A request is answered after seven steps at most: it waits for no other request,
\* and nothing it does is repeated.
THEOREM RequestsTakeBoundedWork == Spec => RequestsGoOn
<1>1. CInv /\ [Next]_vars => [RequestGoesOn]_vars
  <2> SUFFICES ASSUME CInv, Next PROVE RequestGoesOn
    OBVIOUS
  <2>1. ASSUME NEW k \in Keys, Forget(k) PROVE RequestGoesOn
    BY <2>1 DEF Forget, RequestGoesOn
  <2>2. QED
    BY <2>1, RequestAdvances DEF Next
<1>2. QED
  BY <1>1, Invariance, PTL DEF Spec, RequestsGoOn

=============================================================================
