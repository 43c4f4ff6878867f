--------------------- MODULE PaymentProcessing_refinement ---------------------
(***************************************************************************)
(* While the broker connection lives as long as the process, the consumer  *)
(* implements PaymentLifecycle: proved here for any set of payments, any   *)
(* delivery limit and any number of webhook attempts.                      *)
(***************************************************************************)
EXTENDS PaymentProcessing_proofs

\* A task that has not committed yet found the payment pending, and nobody can
\* have decided it since, because no other task works on the payment.
WorksAlone(h) ==
  /\ task[h].at \in {"starting", "executing", "saving", "committing"} =>
       row[h[1]] = PendingRow
  /\ task[h].at = "committing" => task[h].loaded = PendingRow
  /\ task[h].at = "notifying" => row[h[1]] = task[h].result

\* A row is one the lifecycle knows, and the merchant heard no other result.
RowsAgree ==
  \A p \in Payments :
    /\ row[p] \in {NoRow, PendingRow} \cup Outcomes
    /\ notified[p] \subseteq {row[p]}
    /\ notified[p] # {} => row[p] \in Outcomes

RInv == /\ IInv
        /\ LiveIsOwner
        /\ \A h \in Handlers : WorksAlone(h)
        /\ RowsAgree

-----------------------------------------------------------------------------

LEMMA InitRInv == Init => RInv
<1> SUFFICES ASSUME Init PROVE RInv
  OBVIOUS
<1>1. \A h \in Handlers : task[h].at = "idle"
  BY DEF Init, NewTask
<1>2. QED
  BY <1>1, InitIInv, HandlerType DEF Init, RInv, LiveIsOwner, Live, WorksAlone, RowsAgree

\* The instance of the lifecycle has the rows of this module.
LEMMA SameRows == /\ Lifecycle!NoRow = NoRow
                  /\ Lifecycle!PendingRow = PendingRow
                  /\ Lifecycle!Outcomes = Outcomes
  BY DEF NoRow, PendingRow, Outcomes, Errors, NoError, Lifecycle!NoRow,
         Lifecycle!PendingRow, Lifecycle!Outcomes, Lifecycle!Errors, Lifecycle!NoError

\* Tasks of one payment: the broker waits for one of them only.
LEMMA OneTask == ASSUME RInv, NEW g \in Handlers, NEW h \in Handlers,
                        Live(g), Live(h), g[1] = h[1]
                 PROVE  g = h
  BY HandlerType DEF RInv, LiveIsOwner, Owns

\* A step of a task that leaves rows and webhooks alone.
LEMMA QuietStep ==
  ASSUME RInv, IInv', NEW h \in Handlers, NEW t \in Tasks,
         Live(h), t.at \notin {"idle", "gone"},
         task' = [task EXCEPT ![h] = t],
         UNCHANGED <<row, queue, deliveries, notified>>,
         WorksAlone(h)'
  PROVE  RInv'
<1>1. LiveIsOwner'
  BY DEF RInv, IInv, TypeOK, LiveIsOwner, Live, Owns
<1>2. \A g \in Handlers : WorksAlone(g)'
  BY DEF RInv, IInv, TypeOK, WorksAlone
<1>3. RowsAgree'
  BY DEF RInv, RowsAgree
<1>4. QED
  BY <1>1, <1>2, <1>3 DEF RInv

LEMMA QuietProgress ==
  ASSUME RInv, NEW h \in Handlers,
         Read(h) \/ Start(h) \/ Execute(h) \/ LoadRow(h) \/ DatabaseFails(h)
  PROVE  RInv' /\ UNCHANGED <<row, notified>>
<1> USE HandlerType DEF RInv, IInv, TypeOK, Goto
<1>1. IInv'
  BY StepProgress DEF Progress
<1>2. task' = [task EXCEPT ![h] = task'[h]] /\ task'[h] \in Tasks
  BY <1>1 DEF Read, Start, Execute, LoadRow, DatabaseFails
<1>3. Live(h) /\ task'[h].at \notin {"idle", "gone"}
  BY DEF Read, Start, Execute, LoadRow, DatabaseFails, Live, Tasks
<1>4. WorksAlone(h)'
  <2>1. CASE Read(h)
    BY <2>1, ShapeOfRows DEF Read, WorksAlone, RowsAgree, Tasks
  <2>2. CASE Start(h) \/ Execute(h) \/ LoadRow(h) \/ DatabaseFails(h)
    BY <2>2 DEF Start, Execute, LoadRow, DatabaseFails, WorksAlone, Tasks
  <2>3. QED
    BY <2>1, <2>2
<1>5. UNCHANGED <<row, queue, deliveries, notified>>
  BY DEF Read, Start, Execute, LoadRow, DatabaseFails
<1>6. QED
  BY <1>1, <1>2, <1>3, <1>4, <1>5, QuietStep

\* The commit decides a pending payment: the UPDATE finds the row as it was read.
LEMMA CommitDecides ==
  ASSUME RInv, NEW h \in Handlers, Commit(h) \/ CommitUnknown(h)
  PROVE  RInv' /\ Lifecycle!Decide(h[1])
<1> DEFINE r == task[h].result
<1> USE HandlerType
<1>1. IInv'
  BY StepProgress DEF Progress, RInv
<1>2. row[h[1]] = PendingRow /\ r \in Outcomes /\ task[h].loaded = PendingRow
  BY DEF RInv, WorksAlone, IInv, TaskInv, TaskOK, Commit, CommitUnknown
<1>3. row' = [row EXCEPT ![h[1]] = r] /\ UNCHANGED <<queue, deliveries, notified>>
  BY <1>2, ShapeOfRows DEF Commit, CommitUnknown, Update
<1>4. \A g \in Handlers : g # h => task'[g] = task[g]
  BY DEF Commit, CommitUnknown, Goto, RInv, IInv, TypeOK
<1>5. /\ task'[h].at \in {"notifying", "acking", "nacking"}
      /\ task'[h].result = r
  BY DEF Commit, CommitUnknown, Goto, RInv, IInv, TypeOK, Tasks
<1>6. LiveIsOwner' /\ Live(h)
  BY <1>3, <1>4, <1>5 DEF RInv, LiveIsOwner, Live, Owns, Commit, CommitUnknown
<1>7. ASSUME NEW g \in Handlers PROVE WorksAlone(g)'
  <2>1. CASE g = h
    BY <1>3, <1>5, <2>1 DEF WorksAlone, RInv, IInv, TypeOK
  <2>2. CASE g # h /\ Live(g)
    <3>1. g[1] # h[1]
      BY <1>6, <2>2, OneTask
    <3>2. QED
      BY <1>3, <1>4, <2>2, <3>1 DEF WorksAlone, RInv, IInv, TypeOK
  <2>3. CASE ~Live(g)
    BY <1>4, <1>6, <2>3 DEF WorksAlone, Live
  <2>4. QED
    BY <2>1, <2>2, <2>3
<1>8. notified[h[1]] = {}
  BY <1>2, ShapeOfRows DEF RInv, RowsAgree
<1>9. RowsAgree'
  BY <1>2, <1>3, <1>8 DEF RowsAgree, RInv, IInv, TypeOK
<1>10. Lifecycle!Decide(h[1])
  BY <1>2, <1>3, SameRows DEF Lifecycle!Decide
<1>11. QED
  BY <1>1, <1>6, <1>7, <1>9, <1>10 DEF RInv

\* A POST that arrives tells the stored decision; another one changes nothing.
LEMMA PostTells ==
  ASSUME RInv, NEW h \in Handlers, PostAccepted(h) \/ PostFails(h) \/ PostUnexpected(h)
  PROVE  RInv' /\ (Lifecycle!Tell(h[1]) \/ UNCHANGED <<row, notified>>)
<1> USE HandlerType
<1>1. IInv'
  BY StepProgress DEF Progress, RInv
<1>2. PICK arrives \in BOOLEAN, s \in {"notifying", "acking", "nacking"}, swallows \in BOOLEAN :
        Post(h, arrives, s, swallows)
  BY DEF PostAccepted, PostFails, PostUnexpected
<1>3. row[h[1]] = task[h].result /\ task[h].result \in Outcomes /\ Live(h)
  BY <1>2 DEF RInv, WorksAlone, IInv, TaskInv, TaskOK, Post, Live
<1>4. UNCHANGED <<row, queue, deliveries>>
  BY <1>2 DEF Post
<1>5. /\ \A g \in Handlers : g # h => task'[g] = task[g]
      /\ task'[h].at = s /\ task'[h].result = task[h].result
  BY <1>2 DEF Post, RInv, IInv, TypeOK, Tasks
<1>6. LiveIsOwner'
  BY <1>3, <1>4, <1>5 DEF RInv, LiveIsOwner, Live, Owns
<1>7. \A g \in Handlers : WorksAlone(g)'
  BY <1>3, <1>4, <1>5 DEF RInv, WorksAlone
<1>8. RowsAgree'
  BY <1>2, <1>3, <1>4 DEF Post, RowsAgree, RInv, IInv, TypeOK
<1>9. Lifecycle!Tell(h[1]) \/ UNCHANGED <<row, notified>>
  BY <1>2, <1>3, <1>4, SameRows DEF Post, Lifecycle!Tell
<1>10. QED
  BY <1>1, <1>6, <1>7, <1>8, <1>9 DEF RInv

\* A step that leaves rows and webhooks alone, and after which no task runs that
\* did not run before with what it knew.
LEMMA BrokerStep ==
  ASSUME RInv, IInv', UNCHANGED <<row, notified>>, LiveIsOwner',
         \A h \in Handlers : task'[h] = task[h]
                               \/ task'[h].at \in {"reading", "gone"}
  PROVE  RInv'
<1>1. \A h \in Handlers : WorksAlone(h)'
  BY DEF RInv, WorksAlone
<1>2. RowsAgree'
  BY DEF RInv, RowsAgree
<1>3. QED
  BY <1>1, <1>2 DEF RInv

LEMMA SettleKeeps ==
  ASSUME RInv, NEW h \in Handlers, Ack(h) \/ Nack(h)
  PROVE  RInv' /\ UNCHANGED <<row, notified>>
<1> USE HandlerType
<1>1. IInv'
  BY StepProgress DEF Progress, RInv
<1>2. PICK place : Settle(h, place)
  BY DEF Ack, Nack
<1>3. Live(h)
  BY DEF Ack, Nack, Live
<1>4. /\ \A g \in Handlers : g # h => task'[g] = task[g]
      /\ task'[h].at = "gone"
  BY <1>2, TaskTypes DEF Settle, RInv, IInv, TypeOK
<1>5. ASSUME NEW g \in Handlers, Live(g)' PROVE Owns(g)'
  <2>1. g # h /\ Live(g) /\ Owns(g)
    BY <1>4, <1>5 DEF Live, RInv, LiveIsOwner
  <2>2. g[1] # h[1]
    BY <1>3, <2>1, OneTask
  <2>3. QED
    BY <1>2, <2>1, <2>2 DEF Settle, Owns, RInv, IInv, TypeOK
<1>6. UNCHANGED <<row, notified>>
  BY <1>2 DEF Settle
<1>7. QED
  BY <1>1, <1>4, <1>5, <1>6, BrokerStep DEF LiveIsOwner

LEMMA DeliverKeeps ==
  ASSUME RInv, NEW p \in Payments, Deliver(p)
  PROVE  RInv' /\ UNCHANGED <<row, notified>>
<1> DEFINE n == deliveries[p] + 1
<1> USE HandlerType
<1>1. IInv'
  BY StepDeliver DEF RInv
<1>2. <<p, n>> \in Handlers
  BY ProcessingAssumption DEF Deliver, RInv, IInv, BrokerInv, TypeOK, Handlers
<1>3. /\ \A g \in Handlers : g # <<p, n>> => task'[g] = task[g]
      /\ task'[<<p, n>>].at = "reading"
  BY <1>2 DEF Deliver, NewTask, RInv, IInv, TypeOK
<1>4. ASSUME NEW g \in Handlers, Live(g)' PROVE Owns(g)'
  <2>1. CASE g = <<p, n>>
    BY <2>1 DEF Deliver, Owns, RInv, IInv, TypeOK
  <2>2. CASE g # <<p, n>>
    <3>1. Owns(g) /\ g[1] # p
      BY <1>3, <1>4, <2>2 DEF Live, RInv, LiveIsOwner, Owns, Deliver
    <3>2. QED
      BY <3>1 DEF Deliver, Owns, RInv, IInv, TypeOK
  <2>3. QED
    BY <2>1, <2>2
<1>5. UNCHANGED <<row, notified>>
  BY DEF Deliver
<1>6. QED
  BY <1>1, <1>3, <1>4, <1>5, BrokerStep DEF LiveIsOwner

LEMMA CrashKeeps == ASSUME RInv, Crash PROVE RInv' /\ UNCHANGED <<row, notified>>
<1>1. IInv'
  BY StepCrash DEF RInv
<1>2. \A h \in Handlers : /\ task'[h].at \in {"idle", "gone"}
                          /\ task'[h] = task[h] \/ task'[h].at = "gone"
  BY TaskTypes DEF Crash, Live, RInv, IInv, TypeOK
<1>3. LiveIsOwner'
  BY <1>2 DEF LiveIsOwner, Live
<1>4. QED
  BY <1>1, <1>2, <1>3, BrokerStep DEF Crash

LEMMA StoreCreates ==
  ASSUME RInv, NEW p \in Payments, Store(p) PROVE RInv' /\ Lifecycle!Create(p)
<1> USE HandlerType, ShapeOfRows
<1>1. IInv'
  BY StepStore DEF RInv
<1>2. ASSUME NEW h \in Handlers, Live(h) PROVE h[1] # p
  BY <1>2 DEF Live, RInv, IInv, TaskInv, TaskOK, RowInv, Store, NoRow
<1>3. LiveIsOwner'
  BY DEF Store, RInv, LiveIsOwner, Live, Owns
<1>4. \A h \in Handlers : WorksAlone(h)'
  BY <1>2 DEF Store, RInv, IInv, TypeOK, WorksAlone, Live
<1>5. RowsAgree'
  BY DEF Store, RInv, IInv, TypeOK, RowsAgree
<1>6. QED
  BY <1>1, <1>3, <1>4, <1>5, SameRows DEF RInv, Store, Lifecycle!Create

\* Steps that neither start nor end a task nor take its message away.
LEMMA OtherKeeps ==
  ASSUME RInv, IInv', UNCHANGED <<row, notified, task, deliveries>>,
         \A p \in Payments : queue[p] = "unacked" => queue'[p] = "unacked"
  PROVE  RInv'
<1>1. LiveIsOwner'
  BY HandlerType DEF RInv, LiveIsOwner, Live, Owns
<1>2. QED
  BY <1>1, BrokerStep

-----------------------------------------------------------------------------

\* Every step keeps the invariant and is a step of the lifecycle or a stutter.
LEMMA StepSimulation ==
  ASSUME RInv, [ReliableNext]_vars
  PROVE  RInv' /\ [Lifecycle!Next]_<<row, notified>>
<1> USE HandlerType
<1>1. IInv'
  BY NextIInv DEF RInv, Next
<1>2. ASSUME NEW p \in Payments, Store(p)
      PROVE  RInv' /\ Lifecycle!Next
  BY <1>2, StoreCreates DEF Lifecycle!Next
<1>3. ASSUME NEW p \in Payments, Deliver(p)
      PROVE  RInv' /\ UNCHANGED <<row, notified>>
  BY <1>3, DeliverKeeps
<1>4. ASSUME NEW p \in Payments, Publish(p) \/ Expire(p) \/ DlqHandle(p) \/ DlqExpire(p)
      PROVE  RInv' /\ UNCHANGED <<row, notified>>
  BY <1>1, <1>4, OtherKeeps
  DEF Publish, Expire, DlqHandle, DlqExpire, RInv, IInv, TypeOK
<1>5. ASSUME NEW h \in Handlers, Progress(h)
      PROVE  RInv' /\ (Lifecycle!Next \/ UNCHANGED <<row, notified>>)
  <2>1. CASE Read(h) \/ Start(h) \/ Execute(h) \/ LoadRow(h) \/ DatabaseFails(h)
    BY <2>1, QuietProgress
  <2>2. CASE Commit(h) \/ CommitUnknown(h)
    BY <2>2, CommitDecides DEF Lifecycle!Next
  <2>3. CASE PostAccepted(h) \/ PostFails(h) \/ PostUnexpected(h)
    BY <2>3, PostTells DEF Lifecycle!Next
  <2>4. CASE Ack(h) \/ Nack(h)
    BY <2>4, SettleKeeps
  <2>5. QED
    BY <1>5, <2>1, <2>2, <2>3, <2>4 DEF Progress
<1>6. CASE Crash
  BY <1>6, CrashKeeps
<1>7. CASE Restart \/ UNCHANGED vars
  BY <1>1, <1>7, OtherKeeps DEF Restart, vars
<1>8. QED
  BY <1>2, <1>3, <1>4, <1>5, <1>6, <1>7 DEF ReliableNext

LEMMA ReliableInvariance == ReliableSpec => []RInv
<1>1. RInv /\ [ReliableNext]_vars => RInv'
  BY StepSimulation
<1>2. QED
  BY <1>1, InitRInv, PTL DEF ReliableSpec

\* Without a lost connection, the only task that works on a payment is the one
\* whose acknowledgement the broker waits for: the read of a pending status and
\* the write of a final one, two transactions without a lock, exclude each other.
THEOREM OneHandlerPerPayment == ReliableSpec => []LiveIsOwner
<1>1. RInv => LiveIsOwner
  BY DEF RInv
<1>2. QED
  BY <1>1, ReliableInvariance, PTL

\* Without a lost connection, and with any crashes, database errors and webhook
\* failures, a payment is decided once at most and the merchant hears only that.
THEOREM ImplementsLifecycle == ReliableSpec => KeepsLifecycle
<1>1. Init => Lifecycle!Init
  BY SameRows DEF Init, Lifecycle!Init
<1>2. RInv /\ [ReliableNext]_vars => [Lifecycle!Next]_<<row, notified>>
  BY StepSimulation
<1>3. QED
  BY <1>1, <1>2, ReliableInvariance, PTL
  DEF ReliableSpec, KeepsLifecycle, Lifecycle!Spec

-----------------------------------------------------------------------------
(* Who comes to send_webhook.                                              *)

\* A task that makes its attempts to post, or has made some.
Posts(h) == task[h].at = "notifying" \/ task[h].attempts > 0

PosterInv == /\ RInv
             /\ \A h \in Handlers : task[h].attempts > 0 => Decided(row[h[1]])
             /\ \A g, h \in Handlers : g[1] = h[1] /\ Posts(g) /\ Posts(h) => g = h

LEMMA InitPosterInv == Init => PosterInv
  BY InitRInv, HandlerType DEF Init, PosterInv, Posts, NewTask

\* Nobody comes to post but by a commit.
LEMMA PostsAfterCommit ==
  ASSUME RInv, [ReliableNext]_vars, NEW h \in Handlers, Posts(h)'
  PROVE  Posts(h) \/ (task[h].at = "committing" /\ ~(task'[h].attempts > 0))
<1> USE HandlerType DEF RInv, IInv, TypeOK, Posts
<1>1. ASSUME NEW p \in Payments, Deliver(p) PROVE Posts(h)
  BY <1>1 DEF Deliver, NewTask
<1>2. ASSUME NEW g \in Handlers,
             \/ Read(g) \/ Start(g) \/ Execute(g) \/ LoadRow(g) \/ DatabaseFails(g)
             \/ Commit(g) \/ CommitUnknown(g)
      PROVE  Posts(h) \/ (task[h].at = "committing" /\ ~(task'[h].attempts > 0))
  BY <1>2 DEF Read, Start, Execute, LoadRow, DatabaseFails, Commit, CommitUnknown, Goto, Tasks
<1>3. ASSUME NEW g \in Handlers, PostAccepted(g) \/ PostFails(g) \/ PostUnexpected(g)
      PROVE  Posts(h)
  BY <1>3 DEF PostAccepted, PostFails, PostUnexpected, Post
<1>4. \A g \in Handlers : Ended(task[g]).at = "gone" /\ Ended(task[g]).attempts = task[g].attempts
  BY TaskTypes DEF Ended, NewTask
<1>5. ASSUME NEW g \in Handlers, Ack(g) \/ Nack(g) PROVE Posts(h)
  BY <1>4, <1>5 DEF Ack, Nack, Settle
<1>6. CASE Crash
  BY <1>4, <1>6 DEF Crash
<1>7. CASE UNCHANGED task
  BY <1>7
<1>8. QED
  BY <1>1, <1>2, <1>3, <1>5, <1>6, <1>7
  DEF ReliableNext, Progress, Store, Publish, Expire, DlqHandle, DlqExpire, Restart, vars

\* In the lifecycle a decided payment stays decided.
LEMMA LifecycleKeepsDecisions ==
  ASSUME RInv, [Lifecycle!Next]_<<row, notified>>, NEW p \in Payments, Decided(row[p])
  PROVE  Decided(row'[p])
  BY ShapeOfRows, SameRows
  DEF Lifecycle!Next, Lifecycle!Create, Lifecycle!Decide, Lifecycle!Tell, RInv, IInv, TypeOK

LEMMA NextPosterInv == PosterInv /\ [ReliableNext]_vars => PosterInv'
<1> SUFFICES ASSUME PosterInv, [ReliableNext]_vars PROVE PosterInv'
  OBVIOUS
<1> USE HandlerType
<1>1. RInv /\ RInv' /\ [Lifecycle!Next]_<<row, notified>>
  BY StepSimulation DEF PosterInv
<1>2. ASSUME NEW h \in Handlers, Posts(h)
      PROVE  Decided(row[h[1]]) /\ row[h[1]] # PendingRow
  <2>1. Decided(row[h[1]])
    BY <1>1, <1>2 DEF PosterInv, Posts, RInv, IInv, TaskInv, TaskOK
  <2>2. QED
    BY <2>1, ShapeOfRows
<1>3. ASSUME NEW h \in Handlers, task'[h].attempts > 0 PROVE Decided(row'[h[1]])
  <2>1. CASE Posts(h)
    BY <1>1, <1>2, <2>1, LifecycleKeepsDecisions
  <2>2. Posts(h)
    BY <1>1, <1>3, PostsAfterCommit DEF Posts
  <2>3. QED
    BY <2>1, <2>2
<1>4. ASSUME NEW g \in Handlers, NEW h \in Handlers, g[1] = h[1], Posts(g)', Posts(h)'
      PROVE  g = h
  <2>1. CASE Posts(g) /\ Posts(h)
    BY <1>4, <2>1 DEF PosterInv
  <2>2. CASE task[g].at = "committing" /\ task[h].at = "committing"
    BY <1>1, <1>4, <2>2, OneTask DEF Live
  <2>3. CASE \/ task[g].at = "committing" /\ Posts(h)
             \/ task[h].at = "committing" /\ Posts(g)
    BY <1>1, <1>2, <1>4, <2>3 DEF RInv, WorksAlone
  <2>4. QED
    BY <1>1, <1>4, <2>1, <2>2, <2>3, PostsAfterCommit
<1>5. QED
  BY <1>1, <1>3, <1>4 DEF PosterInv

\* Crashes, failures and redeliveries included: as long as the connection lives
\* with its process, the attempts of one delivery are all that a merchant gets.
THEOREM AttemptsBoundPosts == ReliableSpec => []OneDeliveryPosts
<1>1. PosterInv => OneDeliveryPosts
  BY DEF PosterInv, OneDeliveryPosts, Posts
<1>2. QED
  BY <1>1, InitPosterInv, NextPosterInv, PTL DEF ReliableSpec

=============================================================================
