------------------------- MODULE PaymentSystem_proofs -------------------------
(***************************************************************************)
(* Proofs about the whole service, for any payments, keys, delivery limit  *)
(* and number of webhook attempts: the lemmas on the steps of the consumer *)
(* and of a request put together.                                          *)
(***************************************************************************)
EXTENDS PaymentSystem, PaymentProcessing_refinement

Creation == INSTANCE PaymentCreation_proofs WITH Requests <- Payments

\* The message in the queue is the one the API sent.
Linked == \A p \in Payments : /\ queue[p] = "absent" <=> sent[p] = 0
                              /\ deliveries[p] > 0 => queue[p] # "absent"

SInv == RInv /\ Creation!CInv /\ Linked

-----------------------------------------------------------------------------

\* The constants are as PaymentCreation assumes them.
LEMMA SystemAssumptions == /\ KeyOf \in [Payments -> Keys]
                           /\ Invalid \subseteq Payments
                           /\ Unreadable \subseteq Payments
                           /\ NoPayment \notin Payments
  BY SystemAssumption, ProcessingAssumption

\* The two instances of PaymentCreation have the same rows and steps.
LEMMA OneTable == /\ Creation!NoRow = NoRow /\ Creation!PendingRow = PendingRow
                  /\ Creation!Rows = Rows
  BY DEF NoRow, PendingRow, Rows, Statuses, Errors, NoError, Creation!NoRow,
         Creation!PendingRow, Creation!Rows, Creation!Statuses, Creation!Errors,
         Creation!NoError

LEMMA SameRequest ==
  ASSUME NEW r \in Payments
  PROVE  /\ API!Begin(r) <=> Creation!Begin(r)
         /\ API!Serve(r) <=> Creation!Serve(r)
         /\ API!Crash(r) <=> Creation!Crash(r)
<1> USE DEF API!Goto, API!Finish, API!Bare, API!Accepted, API!Free, API!Locked,
            API!Response, API!Store, API!StoredUnder, API!Stored, API!Readable,
            API!NoRow, API!PendingRow, API!NoError,
            Creation!Goto, Creation!Finish, Creation!Bare, Creation!Accepted,
            Creation!Free, Creation!Locked, Creation!Response, Creation!Store,
            Creation!StoredUnder, Creation!Stored, Creation!Readable,
            Creation!NoRow, Creation!PendingRow, Creation!NoError
<1>1. API!Begin(r) <=> Creation!Begin(r)
  BY DEF API!Begin, Creation!Begin
<1>2. /\ API!Lookup(r) <=> Creation!Lookup(r)
      /\ API!Save(r) <=> Creation!Save(r)
  BY DEF API!Lookup, Creation!Lookup, API!Save, Creation!Save
<1>3. /\ API!Insert(r) <=> Creation!Insert(r)
      /\ API!InsertUnknown(r) <=> Creation!InsertUnknown(r)
  BY DEF API!Insert, Creation!Insert, API!InsertUnknown, Creation!InsertUnknown
<1>4. /\ API!Publish(r) <=> Creation!Publish(r)
      /\ API!PublishFails(r) <=> Creation!PublishFails(r)
  BY DEF API!Publish, Creation!Publish, API!PublishFails, Creation!PublishFails
<1>5. /\ API!Reread(r) <=> Creation!Reread(r)
      /\ API!DatabaseFails(r) <=> Creation!DatabaseFails(r)
  BY DEF API!Reread, Creation!Reread, API!DatabaseFails, Creation!DatabaseFails
<1>6. /\ API!Reply(r) <=> Creation!Reply(r)
      /\ API!Fail(r) <=> Creation!Fail(r)
  BY DEF API!Reply, Creation!Reply, API!Fail, Creation!Fail
<1>7. API!Crash(r) <=> Creation!Crash(r)
  BY DEF API!Crash, Creation!Crash
<1>8. QED
  BY <1>1, <1>2, <1>3, <1>4, <1>5, <1>6, <1>7 DEF API!Serve, Creation!Serve

LEMMA SameForget == ASSUME NEW k \in Keys
                    PROVE  API!Forget(k) <=> Creation!Forget(k)
  BY DEF API!Forget, Creation!Forget, API!Free, Creation!Free

-----------------------------------------------------------------------------
(* The steps of the API.                                                   *)

\* What the parts of the invariant say of the shared state.
LEMMA SharedTypes ==
  ASSUME SInv
  PROVE  /\ row \in [Payments -> Rows] /\ queue \in [Payments -> Places]
         /\ deliveries \in [Payments -> 0 .. DeliveryLimit + 1]
         /\ sent \in [Payments -> Nat]
         /\ \A p \in Payments : sent[p] <= 1
<1>1. /\ row \in [Payments -> Rows] /\ queue \in [Payments -> Places]
      /\ deliveries \in [Payments -> 0 .. DeliveryLimit + 1]
  BY DEF SInv, RInv, IInv, TypeOK
<1>2. sent \in [Payments -> Nat] /\ \A p \in Payments : sent[p] <= 1
  BY DEF SInv, Creation!CInv, Creation!TypeOK, Creation!SentOnceStored
<1>3. QED
  BY <1>1, <1>2

\* A step of the API is one of the environment that the consumer was proved in.
LEMMA RequestKeeps ==
  ASSUME SInv, NEW r \in Payments, APIStep,
         API!Begin(r) \/ API!Serve(r) \/ API!Crash(r)
  PROVE  SInv' /\ [ReliableNext]_vars
<1> USE SharedTypes, OneTable
<1>1. Creation!CInv'
  BY SystemAssumptions, SameRequest, Creation!RequestStep DEF SInv
<1>2. CASE UNCHANGED <<row, sent>>
  <2>1. UNCHANGED queue
    BY <1>2 DEF APIStep
  <2>2. UNCHANGED vars
    BY <1>2, <2>1 DEF APIStep, vars
  <2>3. RInv'
    BY <2>2, StepSimulation DEF SInv
  <2>4. QED
    BY <1>1, <1>2, <2>2, <2>3 DEF SInv, Linked, vars
<1>3. CASE row[r] = NoRow /\ Creation!Store(r) /\ UNCHANGED sent
  <2>1. UNCHANGED queue
    BY <1>3 DEF APIStep
  <2>2. Store(r)
    BY <1>3, <2>1 DEF APIStep, Store, Creation!Store
  <2>3. ReliableNext
    BY <2>2 DEF ReliableNext
  <2>4. RInv'
    BY <2>3, StepSimulation DEF SInv
  <2>5. QED
    BY <1>1, <1>3, <2>1, <2>3, <2>4 DEF SInv, Linked, APIStep
<1>4. CASE /\ row[r] # NoRow /\ sent[r] = 0 /\ sent' = [sent EXCEPT ![r] = 1]
           /\ UNCHANGED row
  <2>1. queue' = [queue EXCEPT ![r] = "ready"] /\ queue[r] = "absent"
    BY <1>4 DEF APIStep, SInv, Linked
  <2>2. Publish(r)
    BY <1>4, <2>1 DEF APIStep, Publish
  <2>3. ReliableNext
    BY <2>2 DEF ReliableNext
  <2>4. RInv'
    BY <2>3, StepSimulation DEF SInv
  <2>5. Linked'
    BY <1>4, <2>1 DEF SInv, Linked, APIStep
  <2>6. QED
    BY <1>1, <2>3, <2>4, <2>5 DEF SInv
<1>5. QED
  BY <1>2, <1>3, <1>4, SystemAssumptions, SameRequest, Creation!RequestEffect DEF SInv

LEMMA ForgetKeeps ==
  ASSUME SInv, NEW k \in Keys, APIStep, API!Forget(k)
  PROVE  SInv' /\ UNCHANGED vars
<1>1. Creation!CInv'
  BY SystemAssumptions, SameForget, Creation!StepForget DEF SInv
<1>2. UNCHANGED <<row, sent>>
  BY DEF API!Forget
<1>3. UNCHANGED vars
  BY <1>2, SharedTypes DEF APIStep, vars
<1>4. RInv'
  BY <1>3, StepSimulation DEF SInv
<1>5. QED
  BY <1>1, <1>2, <1>3, <1>4 DEF SInv, Linked, vars

-----------------------------------------------------------------------------
(* The steps of the consumer.                                              *)

\* The consumer neither stores a payment nor removes one.
LEMMA ConsumerRows ==
  ASSUME SInv, ConsumerStep
  PROVE  \A p \in Payments : row'[p] = NoRow <=> row[p] = NoRow
<1>1. CASE \E h \in Handlers : Commit(h) \/ CommitUnknown(h)
  <2>1. PICK h \in Handlers : Lifecycle!Decide(h[1])
    BY <1>1, CommitDecides DEF SInv
  <2>2. PICK o \in Outcomes : row[h[1]] = PendingRow /\ row' = [row EXCEPT ![h[1]] = o]
    BY <2>1, SameRows DEF Lifecycle!Decide
  <2>3. QED
    BY <2>2, SharedTypes, ShapeOfRows
<1>2. CASE UNCHANGED row
  BY <1>2
<1>3. QED
  BY <1>1, <1>2 DEF ConsumerStep, Expire, Deliver, DlqHandle, DlqExpire, Crash, Restart,
     Progress, Read, Start, Execute, LoadRow, DatabaseFails, Post, PostAccepted, PostFails,
     PostUnexpected, Ack, Nack, Settle

\* A message in the queue never becomes one that was not sent.
LEMMA ConsumerQueue ==
  ASSUME SInv, ConsumerStep
  PROVE  /\ \A p \in Payments : queue'[p] = "absent" <=> queue[p] = "absent"
         /\ \A p \in Payments : deliveries'[p] > 0 => queue[p] # "absent"
<1> USE SharedTypes, HandlerType
<1> DEFINE Kept == \A p \in Payments : queue'[p] = "absent" <=> queue[p] = "absent"
           NoneNew == \A p \in Payments : deliveries'[p] > 0 => queue[p] # "absent"
<1>0. NoneNew \/ UNCHANGED deliveries => NoneNew
  BY DEF SInv, Linked
<1>1. ASSUME NEW p \in Payments, Deliver(p) PROVE Kept /\ NoneNew
  BY <1>1 DEF Deliver, SInv, Linked
<1>2. ASSUME NEW p \in Payments, Expire(p) \/ DlqHandle(p) \/ DlqExpire(p)
      PROVE  Kept /\ NoneNew
  BY <1>0, <1>2 DEF Expire, DlqHandle, DlqExpire
<1>3. ASSUME NEW h \in Handlers, Ack(h) \/ Nack(h) PROVE Kept /\ NoneNew
  <2>1. UNCHANGED deliveries
    BY <1>3 DEF Ack, Nack, Settle
  <2>2. PICK place \in {"done", "ready", "dead"} : Settle(h, place)
    BY <1>3 DEF Ack, Nack, Returned
  <2>3. Kept
    BY <2>2 DEF Settle, Owns
  <2>4. QED
    BY <1>0, <2>1, <2>3
<1>4. ASSUME NEW h \in Handlers, Progress(h), ~Ack(h), ~Nack(h) PROVE Kept /\ NoneNew
  <2>1. UNCHANGED <<queue, deliveries>>
    BY <1>4 DEF Progress, Read, Start, Execute, LoadRow, DatabaseFails, Commit,
                CommitUnknown, Post, PostAccepted, PostFails, PostUnexpected
  <2>2. QED
    BY <1>0, <2>1
<1>5. CASE Crash
  BY <1>0, <1>5 DEF Crash, ReturnAll, Returned
<1>6. CASE Restart
  BY <1>0, <1>6 DEF Restart
<1>7. QED
  BY <1>1, <1>2, <1>3, <1>4, <1>5, <1>6 DEF ConsumerStep

\* The invariant of the requests speaks of rows being there, not of their status.
LEMMA ConsumerKeeps ==
  ASSUME SInv, ConsumerStep
  PROVE  SInv' /\ ReliableNext
<1> USE OneTable, SharedTypes
<1>1. ReliableNext
  BY DEF ConsumerStep, ReliableNext
<1>2. RInv'
  BY <1>1, StepSimulation DEF SInv
<1>3. row' \in [Payments -> Rows]
  BY <1>2 DEF RInv, IInv, TypeOK
<1>4. UNCHANGED apiVars
  BY DEF ConsumerStep
<1>5. \A p \in Payments : Creation!Stored(p)' <=> Creation!Stored(p)
  BY ConsumerRows DEF Creation!Stored
<1>6. Creation!TypeOK'
  BY <1>3, <1>4 DEF SInv, Creation!CInv, Creation!TypeOK, apiVars
<1>7. \A k : Creation!StoredUnder(k)' = Creation!StoredUnder(k)
  BY <1>5 DEF Creation!StoredUnder
<1>8. \A r \in Payments : Creation!RequestOK(r)'
  BY <1>4, <1>5, <1>7, ConsumerRows
  DEF SInv, Creation!CInv, Creation!RequestOK, Creation!Untouched,
      Creation!ReadableUnder, apiVars
<1>9. Creation!OnePaymentPerKey' /\ Creation!SentOnceStored'
  BY <1>4, <1>5 DEF SInv, Creation!CInv, Creation!OnePaymentPerKey,
                    Creation!SentOnceStored, apiVars
<1>10. Creation!AnsweredIsReadable'
  BY <1>4, <1>7 DEF SInv, Creation!CInv, Creation!AnsweredIsReadable, apiVars
<1>11. Linked'
  BY <1>4, ConsumerQueue DEF SInv, Linked, apiVars
<1>12. QED
  BY <1>1, <1>2, <1>6, <1>8, <1>9, <1>10, <1>11 DEF SInv, Creation!CInv

-----------------------------------------------------------------------------

LEMMA InitSInv == SystemInit => SInv
<1> SUFFICES ASSUME SystemInit PROVE SInv
  OBVIOUS
<1>1. RInv
  BY InitRInv DEF SystemInit
<1>2. Creation!Init
  BY DEF SystemInit, API!Init, API!NoRow, API!NoError, API!Free, API!Bare,
         Creation!Init, Creation!NoRow, Creation!NoError, Creation!Free, Creation!Bare
<1>3. Creation!CInv
  BY <1>2, SystemAssumptions, Creation!InitCInv
<1>4. Linked
  BY DEF SystemInit, Init, API!Init, Linked
<1>5. QED
  BY <1>1, <1>3, <1>4 DEF SInv

LEMMA NextSInv == SInv /\ [SystemNext]_systemVars => SInv' /\ [ReliableNext]_vars
<1> SUFFICES ASSUME SInv, [SystemNext]_systemVars PROVE SInv' /\ [ReliableNext]_vars
  OBVIOUS
<1>1. CASE APIStep
  <2>1. CASE \E r \in Payments : API!Begin(r) \/ API!Serve(r) \/ API!Crash(r)
    BY <1>1, <2>1, RequestKeeps
  <2>2. CASE \E k \in Keys : API!Forget(k)
    BY <1>1, <2>2, ForgetKeeps
  <2>3. QED
    BY <1>1, <2>1, <2>2 DEF APIStep, API!Next
<1>2. CASE ConsumerStep
  BY <1>2, ConsumerKeeps
<1>3. CASE UNCHANGED systemVars
  <2>1. UNCHANGED vars /\ UNCHANGED apiVars
    BY <1>3 DEF systemVars
  <2>2. RInv'
    BY <2>1, StepSimulation DEF SInv
  <2>3. Creation!CInv'
    BY <2>1 DEF vars, apiVars, SInv, Creation!CInv, Creation!TypeOK, Creation!RequestOK,
       Creation!Untouched, Creation!ReadableUnder, Creation!StoredUnder, Creation!Stored,
       Creation!OnePaymentPerKey, Creation!SentOnceStored, Creation!AnsweredIsReadable
  <2>4. QED
    BY <2>1, <2>2, <2>3 DEF SInv, Linked, vars, apiVars
<1>4. QED
  BY <1>1, <1>2, <1>3 DEF SystemNext

LEMMA SystemInvariance == SystemSpec => []SInv
  BY InitSInv, NextSInv, PTL DEF SystemSpec

\* The API is the environment that the consumer's theorems are about: whatever
\* the requests do, a row is stored before its only message is published.
THEOREM SystemRunsConsumer == SystemSpec => RunsConsumer
<1>1. SystemInit => Init
  BY DEF SystemInit
<1>2. QED
  BY <1>1, NextSInv, SystemInvariance, PTL DEF SystemSpec, RunsConsumer

\* With the API in place of the environment, a payment is still decided once at
\* most, and the merchant is told nothing but the decision.
THEOREM SystemKeepsLifecycle == SystemSpec => KeepsLifecycle
<1>1. SystemInit => Lifecycle!Init
  BY SameRows DEF SystemInit, Init, Lifecycle!Init
<1>2. SInv /\ [SystemNext]_systemVars => [Lifecycle!Next]_<<row, notified>>
  BY NextSInv, StepSimulation DEF SInv
<1>3. QED
  BY <1>1, <1>2, SystemInvariance, PTL DEF SystemSpec, KeepsLifecycle, Lifecycle!Spec

\* However requests with one key race or are repeated, and whatever is
\* redelivered, the gateway is asked about one payment of that key at most.
THEOREM KeyChargedOnce == SystemSpec => []OneChargePerKey
<1>1. SInv => OneChargePerKey
  <2> SUFFICES ASSUME SInv, NEW p \in Payments, NEW q \in Payments,
                      deliveries[p] > 0, deliveries[q] > 0, KeyOf[p] = KeyOf[q]
               PROVE  p = q
    BY DEF OneChargePerKey
  <2>1. sent[p] = 1 /\ sent[q] = 1
    BY SharedTypes DEF SInv, Linked
  <2>2. QED
    BY <2>1 DEF SInv, Creation!CInv, Creation!SentOnceStored, Creation!OnePaymentPerKey
<1>2. QED
  BY <1>1, SystemInvariance, PTL

\* Every webhook for a key speaks of the payment that its 202 responses named.
THEOREM AnswersAndWebhooksAgree == SystemSpec => []ToldWhatWasAnswered
<1>1. SInv => ToldWhatWasAnswered
  <2> SUFFICES ASSUME SInv, NEW r \in Payments, NEW p \in Payments,
                      answer[r].code = "accepted", KeyOf[r] = KeyOf[p], notified[p] # {}
               PROVE  answer[r].payment = p
    BY DEF ToldWhatWasAnswered
  <2>1. Creation!Stored(p)
    BY ShapeOfRows, OneTable DEF SInv, RInv, RowsAgree, Creation!Stored
  <2>2. answer[r].payment \in Creation!StoredUnder(KeyOf[r])
    BY DEF SInv, Creation!CInv, Creation!AnsweredIsReadable
  <2>3. QED
    BY <2>1, <2>2 DEF SInv, Creation!CInv, Creation!OnePaymentPerKey, Creation!StoredUnder
<1>2. QED
  BY <1>1, SystemInvariance, PTL

-----------------------------------------------------------------------------
(* What was proved of the components holds of the whole.                     *)

LEMMA SystemPosters == SystemSpec => []PosterInv
<1>1. Init => PosterInv
  BY InitPosterInv
<1>2. QED
  BY <1>1, NextPosterInv, SystemRunsConsumer, PTL DEF RunsConsumer

\* What the consumer promises to any environment it promises behind this API: a
\* message is acknowledged only when its payment is decided and given up only at the
\* delivery limit, and while it is unacknowledged one task works on it, and no other.
THEOREM SystemConsumes ==
  SystemSpec => [](AcknowledgedIsDecided /\ UnackedIsServed /\ GivenUpAtLimit /\ LiveIsOwner)
<1>1. SInv => AcknowledgedIsDecided /\ UnackedIsServed /\ GivenUpAtLimit /\ LiveIsOwner
  BY DEF SInv, RInv, IInv
<1>2. QED
  BY <1>1, SystemInvariance, PTL

\* Why a payment may be undecided.
Explained(p) == \/ sent[p] = 0
                \/ queue[p] \in {"ready", "unacked"}
                \/ queue[p] \in {"dead", "dropped"} /\ deliveries[p] = DeliveryLimit + 1

AnswersAreAccountedFor ==
  \A r, p \in Payments :
    answer[r] = API!Accepted(p) => row[p] # NoRow /\ (Decided(row[p]) \/ Explained(p))

\* What is left of README.md:89, which CreatedIsDecided refutes: a payment that a
\* 202 response names is in the table, and it is decided, or the broker has not
\* taken its message, or the message is on its way, or it failed at every delivery.
THEOREM UndecidedIsExplained == SystemSpec => []AnswersAreAccountedFor
<1>1. ASSUME SInv PROVE AnswersAreAccountedFor
  <2> SUFFICES ASSUME NEW r \in Payments, NEW p \in Payments, answer[r] = API!Accepted(p)
               PROVE  row[p] # NoRow /\ (Decided(row[p]) \/ Explained(p))
    BY DEF AnswersAreAccountedFor
  <2>1. answer[r].code = "accepted" /\ answer[r].payment = p
    BY DEF API!Accepted
  <2>2. row[p] # NoRow
    BY <1>1, <2>1, OneTable
    DEF SInv, Creation!CInv, Creation!AnsweredIsReadable, Creation!StoredUnder, Creation!Stored
  <2>3. Decided(row[p]) \/ Explained(p)
    BY <1>1 DEF SInv, RInv, IInv, TypeOK, Places, Linked, AcknowledgedIsDecided,
                GivenUpAtLimit, Explained
  <2>4. QED
    BY <2>2, <2>3
<1>2. QED
  BY <1>1, SystemInvariance, PTL

\* However requests with one key race or are repeated, and whatever is
\* redelivered, one delivery of one payment attempts webhooks for that key.
THEOREM KeyPostedByOne == SystemSpec => []OneSeriesPerKey
<1>1. ASSUME SInv, PosterInv PROVE OneSeriesPerKey
  <2> SUFFICES ASSUME NEW g \in Handlers, NEW h \in Handlers,
                      task[g].attempts > 0, task[h].attempts > 0, KeyOf[g[1]] = KeyOf[h[1]]
               PROVE  g = h
    BY DEF OneSeriesPerKey
  <2>1. /\ g[1] \in Payments /\ Creation!Stored(g[1])
        /\ h[1] \in Payments /\ Creation!Stored(h[1])
    BY <1>1, HandlerType, ShapeOfRows, OneTable DEF PosterInv, Creation!Stored
  <2>2. g[1] = h[1]
    BY <1>1, <2>1 DEF SInv, Creation!CInv, Creation!OnePaymentPerKey
  <2>3. QED
    BY <1>1, <2>2 DEF PosterInv, Posts
<1>2. QED
  BY <1>1, SystemInvariance, SystemPosters, PTL

-----------------------------------------------------------------------------
(* The API keeps its promise while the consumer writes to the same table.    *)

\* A step of the consumer changes nothing of it: rows come and go with the API.
LEMMA ConsumerUnseen ==
  ASSUME SInv, ConsumerStep
  PROVE  UNCHANGED <<Creation!Payments, sent, Creation!Named>>
<1>1. UNCHANGED apiVars
  BY DEF ConsumerStep
<1>2. \A k : Creation!StoredUnder(k)' = Creation!StoredUnder(k)
  BY ConsumerRows, OneTable DEF Creation!StoredUnder, Creation!Stored
<1>3. QED
  BY <1>1, <1>2 DEF apiVars, Creation!Payments, Creation!Named

LEMMA SystemPromiseStep == SInv /\ [SystemNext]_systemVars => Creation!PromiseStep
<1> SUFFICES ASSUME SInv, [SystemNext]_systemVars PROVE Creation!PromiseStep
  OBVIOUS
<1>1. CASE APIStep
  <2>1. Creation!Next
    BY <1>1, SameRequest, SameForget DEF APIStep, API!Next, Creation!Next
  <2>2. QED
    BY <2>1, SystemAssumptions, Creation!NextPromise DEF SInv
<1>2. CASE ConsumerStep
  BY <1>2, ConsumerUnseen DEF Creation!PromiseStep
<1>3. CASE UNCHANGED systemVars
  BY <1>3 DEF systemVars, vars, apiVars, Creation!PromiseStep, Creation!Payments,
              Creation!Named, Creation!StoredUnder, Creation!Stored
<1>4. QED
  BY <1>1, <1>2, <1>3 DEF SystemNext

\* In the whole service too, and whatever the consumer writes, the payment of a
\* key is chosen by the first commit and is what responses and messages name.
THEOREM SystemKeepsPromise == SystemSpec => Creation!KeepsPromise
<1>1. SystemInit => Creation!Init
  BY DEF SystemInit, API!Init, API!NoRow, API!NoError, API!Free, API!Bare,
         Creation!Init, Creation!NoRow, Creation!NoError, Creation!Free, Creation!Bare
<1>2. SystemInit => Creation!Promise!Init
  BY <1>1, SystemAssumptions, Creation!InitPromise
<1>3. QED
  BY <1>2, SystemPromiseStep, SystemInvariance, PTL
  DEF SystemSpec, Creation!KeepsPromise, Creation!Promise!Spec, Creation!PromiseStep,
      Creation!Payments, Creation!Named

=============================================================================
