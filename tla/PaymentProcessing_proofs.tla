----------------------- MODULE PaymentProcessing_proofs -----------------------
(***************************************************************************)
(* Proofs about PaymentProcessing for any set of payments, any delivery    *)
(* limit and any number of webhook attempts.                               *)
(***************************************************************************)
EXTENDS PaymentProcessing, TLAPS

-----------------------------------------------------------------------------
(* The inductive invariant of Spec, which loses connections too.           *)

\* A row exists before its message, and a row that exists has a status.
RowInv == \A p \in Payments : /\ row[p] = NoRow \/ row[p].status # "none"
                              /\ queue[p] # "absent" => row[p].status # "none"

\* How the place of a message bounds its deliveries.
BrokerInv == \A p \in Payments :
               /\ queue[p] \in {"absent", "ready"} => deliveries[p] <= DeliveryLimit
               /\ queue[p] = "unacked" => deliveries[p] >= 1

\* What a task knows at each of its steps.
TaskOK(h) ==
  /\ task[h].at # "idle" => queue[h[1]] # "absent"
  /\ task[h].at \in {"saving", "committing", "notifying"} => task[h].result \in Outcomes
  /\ task[h].at = "committing" => (Decided(task[h].loaded) => Decided(row[h[1]]))
  /\ task[h].at \in {"notifying", "acking"} => Decided(row[h[1]])
  /\ task[h].at \in {"reading", "starting", "executing", "saving", "committing"} =>
       task[h].attempts = 0
  /\ task[h].at = "notifying" => task[h].attempts < WebhookAttempts

TaskInv == \A h \in Handlers : TaskOK(h)

IInv == /\ TypeOK
        /\ RowInv
        /\ BrokerInv
        /\ TaskInv
        /\ AcknowledgedIsDecided
        /\ UnackedIsServed
        /\ GivenUpAtLimit

-----------------------------------------------------------------------------
(* Facts about the data.                                                   *)

LEMMA HandlerType == ASSUME NEW h \in Handlers
                     PROVE  /\ h[1] \in Payments
                            /\ h[2] \in 1 .. DeliveryLimit + 1
                            /\ h = <<h[1], h[2]>>
  BY DEF Handlers

LEMMA RowTypes == /\ NoRow \in Rows
                  /\ PendingRow \in Rows
                  /\ Outcomes \subseteq Rows
                  /\ \A o \in Outcomes : Decided(o)
                  /\ \A late : Executed(late) \subseteq Outcomes
<1> USE DEF Rows, Statuses, Errors, NoError
<1>1. NoRow \in Rows /\ PendingRow \in Rows
  BY DEF NoRow, PendingRow
<1>2. ASSUME NEW o \in Outcomes PROVE o \in Rows /\ Decided(o)
  <2>1. CASE o = [status |-> "succeeded", error |-> NoError]
    BY <2>1 DEF Decided
  <2>2. CASE o \in [status : {"failed"}, error : Errors]
    BY <2>2 DEF Decided
  <2>3. QED
    BY <2>1, <2>2 DEF Outcomes
<1>3. Expired \in Outcomes
  BY DEF Expired, Outcomes
<1>4. QED
  BY <1>1, <1>2, <1>3 DEF Executed

LEMMA TaskTypes == /\ \A s \in Steps : NewTask(s) \in Tasks /\ NewTask(s).at = s
                   /\ \A t \in Tasks : Ended(t) \in Tasks /\ Ended(t).at = "gone"
<1>1. 0 \in 0 .. WebhookAttempts
  BY ProcessingAssumption
<1>2. ASSUME NEW s \in Steps PROVE NewTask(s) \in Tasks /\ NewTask(s).at = s
  BY <1>1, RowTypes DEF NewTask, Tasks
<1>3. ASSUME NEW t \in Tasks PROVE Ended(t) \in Tasks /\ Ended(t).at = "gone"
  BY <1>2 DEF Ended, NewTask, Tasks, Steps
<1>4. QED
  BY <1>2, <1>3

\* A row that is not pending is NoRow or a decision.
LEMMA ShapeOfRows ==
  /\ NoRow # PendingRow /\ ~IsPending(NoRow) /\ IsPending(PendingRow)
  /\ ~Decided(NoRow) /\ ~Decided(PendingRow)
  /\ NoRow \notin Outcomes /\ PendingRow \notin Outcomes
  /\ \A o \in Outcomes : ~IsPending(o)
  /\ \A o \in Outcomes : Written(PendingRow, PendingRow, o) = o
<1>1. ASSUME NEW o \in Outcomes
      PROVE  ~IsPending(o) /\ Written(PendingRow, PendingRow, o) = o
  <2>1. CASE o = [status |-> "succeeded", error |-> NoError]
    BY <2>1 DEF Written, PendingRow, IsPending
  <2>2. CASE o \in [status : {"failed"}, error : Errors]
    BY <2>2 DEF Written, PendingRow, IsPending
  <2>3. QED
    BY <2>1, <2>2 DEF Outcomes
<1>2. /\ NoRow # PendingRow /\ ~IsPending(NoRow) /\ IsPending(PendingRow)
      /\ ~Decided(NoRow) /\ ~Decided(PendingRow)
  BY DEF NoRow, PendingRow, IsPending, Decided
<1>3. QED
  BY <1>1, <1>2, RowTypes

\* The net-change UPDATE yields a row, and never takes a decision away.
LEMMA WrittenIsDecided ==
  ASSUME NEW c \in Rows, NEW l \in Rows, NEW o \in Outcomes,
         Decided(l) => Decided(c)
  PROVE  Written(c, l, o) \in Rows /\ Decided(Written(c, l, o))
<1>1. /\ o.status \in {"succeeded", "failed"} /\ o.status \in Statuses
      /\ o.error \in Errors \cup {NoError}
  BY RowTypes DEF Decided, Rows
<1>2. c.status \in Statuses /\ c.error \in Errors \cup {NoError}
  BY DEF Rows
<1>3. Written(c, l, o) \in Rows
  BY <1>1, <1>2 DEF Written, Rows
<1>4. Written(c, l, o).status \in {"succeeded", "failed"}
  BY <1>1 DEF Written, Decided
<1>5. QED
  BY <1>3, <1>4 DEF Decided

LEMMA ReturnedPlace == ASSUME NEW p \in Payments, TypeOK
                       PROVE  /\ Returned(p) \in {"ready", "dead"}
                              /\ Returned(p) = "ready" => deliveries[p] <= DeliveryLimit
                              /\ Returned(p) = "dead" => deliveries[p] = DeliveryLimit + 1
  BY ProcessingAssumption DEF Returned, TypeOK

-----------------------------------------------------------------------------

LEMMA InitIInv == Init => IInv
<1> SUFFICES ASSUME Init PROVE IInv
  OBVIOUS
<1> USE ProcessingAssumption DEF Init
<1>1. TypeOK
  BY RowTypes, TaskTypes DEF TypeOK, Steps, Places
<1>2. RowInv /\ BrokerInv
  BY DEF RowInv, BrokerInv, NoRow
<1>3. TaskInv
  BY DEF TaskInv, TaskOK, NewTask
<1>4. AcknowledgedIsDecided /\ UnackedIsServed /\ GivenUpAtLimit
  BY DEF AcknowledgedIsDecided, UnackedIsServed, GivenUpAtLimit
<1>5. QED
  BY <1>1, <1>2, <1>3, <1>4 DEF IInv

\* A running task takes a step that leaves the queue alone, may decide its row
\* and does not end the task: it is enough that the task's own part holds again.
LEMMA TaskStep ==
  ASSUME IInv, NEW h \in Handlers, NEW t \in Tasks,
         t.at \notin {"idle", "gone"},
         task[h].at # "idle",
         task' = [task EXCEPT ![h] = t],
         row' \in [Payments -> Rows],
         \A p \in Payments : row'[p] = row[p] \/ Decided(row'[p]),
         notified' \in [Payments -> SUBSET Outcomes],
         UNCHANGED <<overdue, queue, deliveries, up>>,
         TaskOK(h)'
  PROVE  IInv'
<1> USE HandlerType, ProcessingAssumption DEF IInv
<1>1. TypeOK'
  BY DEF TypeOK
<1>2. RowInv' /\ BrokerInv'
  BY DEF RowInv, BrokerInv, Decided
<1>3. TaskInv'
  BY DEF TaskInv, TaskOK, TypeOK
<1>4. AcknowledgedIsDecided' /\ GivenUpAtLimit'
  BY DEF AcknowledgedIsDecided, GivenUpAtLimit
<1>5. UnackedIsServed'
  BY DEF UnackedIsServed, Live, TypeOK, Tasks
<1>6. QED
  BY <1>1, <1>2, <1>3, <1>4, <1>5

LEMMA StepRead == ASSUME IInv, NEW h \in Handlers, Read(h) PROVE IInv'
<1> DEFINE t == [task[h] EXCEPT !.at = IF h[1] \in Unreadable THEN "nacking"
                                       ELSE IF IsPending(row[h[1]]) THEN "starting"
                                       ELSE "acking"]
<1> USE HandlerType, ProcessingAssumption DEF IInv, Read, Goto
<1>1. t \in Tasks /\ t.at \notin {"idle", "gone"} /\ task' = [task EXCEPT ![h] = t]
  BY DEF TypeOK, Tasks, Steps
<1>2. TaskOK(h)'
  BY DEF TaskInv, TaskOK, TypeOK, Tasks, RowInv, IsPending, Decided, Rows, Statuses
<1>3. QED
  BY <1>1, <1>2, TaskStep DEF TypeOK

LEMMA StepStart == ASSUME IInv, NEW h \in Handlers, Start(h) PROVE IInv'
<1> DEFINE t == [task[h] EXCEPT !.at = "executing", !.late = overdue[h[1]]]
<1> USE HandlerType DEF IInv, Start
<1>1. t \in Tasks /\ t.at \notin {"idle", "gone"} /\ task' = [task EXCEPT ![h] = t]
  BY DEF TypeOK, Tasks, Steps
<1>2. TaskOK(h)'
  BY DEF TaskInv, TaskOK, TypeOK, Tasks
<1>3. QED
  BY <1>1, <1>2, TaskStep DEF TypeOK

LEMMA StepExecute == ASSUME IInv, NEW h \in Handlers, Execute(h) PROVE IInv'
<1> USE HandlerType DEF IInv, Execute
<1>1. PICK r \in Executed(task[h].late) :
             task' = [task EXCEPT ![h].at = "saving", ![h].result = r]
  OBVIOUS
<1>2. r \in Outcomes /\ r \in Rows
  BY RowTypes
<1> DEFINE t == [task[h] EXCEPT !.at = "saving", !.result = r]
<1>3. t \in Tasks /\ t.at \notin {"idle", "gone"} /\ task' = [task EXCEPT ![h] = t]
  BY <1>1, <1>2 DEF TypeOK, Tasks, Steps
<1>4. TaskOK(h)'
  BY <1>1, <1>2 DEF TaskInv, TaskOK, TypeOK, Tasks
<1>5. QED
  BY <1>3, <1>4, TaskStep DEF TypeOK

LEMMA StepLoadRow == ASSUME IInv, NEW h \in Handlers, LoadRow(h) PROVE IInv'
<1> DEFINE t == [task[h] EXCEPT !.at = "committing", !.loaded = row[h[1]]]
<1> USE HandlerType DEF IInv, LoadRow
<1>1. t \in Tasks /\ t.at \notin {"idle", "gone"} /\ task' = [task EXCEPT ![h] = t]
  BY DEF TypeOK, Tasks, Steps
<1>2. TaskOK(h)'
  BY DEF TaskInv, TaskOK, TypeOK, Tasks
<1>3. QED
  BY <1>1, <1>2, TaskStep DEF TypeOK

\* The two outcomes of a COMMIT that was done.
LEMMA StepUpdate ==
  ASSUME IInv, NEW h \in Handlers, NEW s \in {"notifying", "acking", "nacking"},
         task[h].at = "committing", Update(h), Goto(h, s),
         UNCHANGED <<overdue, queue, deliveries, up, notified>>
  PROVE  IInv'
<1> DEFINE t == [task[h] EXCEPT !.at = s]
<1> USE HandlerType DEF IInv
<1>1. t \in Tasks /\ t.at \notin {"idle", "gone"} /\ task' = [task EXCEPT ![h] = t]
  BY DEF Goto, TypeOK, Tasks, Steps
<1>2. /\ row[h[1]] \in Rows /\ task[h].loaded \in Rows /\ task[h].result \in Outcomes
      /\ Decided(task[h].loaded) => Decided(row[h[1]])
  BY DEF TypeOK, Tasks, TaskInv, TaskOK
<1>3. /\ Written(row[h[1]], task[h].loaded, task[h].result) \in Rows
      /\ Decided(Written(row[h[1]], task[h].loaded, task[h].result))
  BY <1>2, WrittenIsDecided
<1>4. /\ row' \in [Payments -> Rows]
      /\ \A p \in Payments : row'[p] = row[p] \/ Decided(row'[p])
      /\ Decided(row'[h[1]])
  BY <1>3 DEF Update, TypeOK
<1>5. TaskOK(h)'
  BY <1>1, <1>2, <1>4, ProcessingAssumption DEF TaskInv, TaskOK, TypeOK, Tasks
<1>6. QED
  BY <1>1, <1>4, <1>5, TaskStep DEF TypeOK

LEMMA StepDatabaseFails == ASSUME IInv, NEW h \in Handlers, DatabaseFails(h) PROVE IInv'
<1> DEFINE t == [task[h] EXCEPT !.at = "nacking"]
<1> USE HandlerType DEF IInv, DatabaseFails, Goto
<1>1. t \in Tasks /\ t.at \notin {"idle", "gone"} /\ task' = [task EXCEPT ![h] = t]
  BY DEF TypeOK, Tasks, Steps
<1>2. TaskOK(h)'
  BY DEF TaskInv, TaskOK, TypeOK, Tasks
<1>3. QED
  BY <1>1, <1>2, TaskStep DEF TypeOK

\* Every attempt; one is repeated only if attempts are left.
LEMMA StepPost ==
  ASSUME IInv, NEW h \in Handlers, NEW arrives \in BOOLEAN,
         NEW swallows \in BOOLEAN, NEW s \in {"notifying", "acking", "nacking"},
         Post(h, arrives, s, swallows),
         s = "notifying" => task[h].attempts + 1 < WebhookAttempts
  PROVE  IInv'
<1> DEFINE t == [task[h] EXCEPT !.at = s, !.attempts = @ + 1, !.swallowed = swallows]
<1> USE HandlerType, ProcessingAssumption DEF IInv, Post
<1>1. t \in Tasks /\ t.at \notin {"idle", "gone"} /\ task' = [task EXCEPT ![h] = t]
  BY DEF TypeOK, Tasks, Steps
<1>2. TaskOK(h)'
  BY DEF TaskInv, TaskOK, TypeOK, Tasks
<1>3. notified' \in [Payments -> SUBSET Outcomes]
  BY DEF TaskInv, TaskOK, TypeOK
<1>4. QED
  BY <1>1, <1>2, <1>3, TaskStep DEF TypeOK

-----------------------------------------------------------------------------
(* The steps that end a task or move a message.                            *)

\* The end of a handler: acknowledged when the payment is decided, or returned.
LEMMA StepSettle ==
  ASSUME IInv, NEW h \in Handlers, NEW place \in {"done", "ready", "dead"},
         Settle(h, place),
         task[h].at \in {"acking", "nacking"},
         place = "done" => task[h].at = "acking",
         place # "done" => place = Returned(h[1])
  PROVE  IInv'
<1> USE HandlerType, ProcessingAssumption DEF IInv, Settle, Owns
<1>1. Ended(task[h]) \in Tasks /\ Ended(task[h]).at = "gone"
  BY TaskTypes DEF TypeOK
<1>2. TypeOK'
  BY <1>1 DEF TypeOK, Places
<1>3. RowInv' /\ BrokerInv' /\ GivenUpAtLimit'
  BY ReturnedPlace DEF RowInv, BrokerInv, GivenUpAtLimit, TaskInv, TaskOK, TypeOK
<1>4. TaskInv'
  BY <1>1 DEF TaskInv, TaskOK, TypeOK
<1>5. AcknowledgedIsDecided'
  BY DEF AcknowledgedIsDecided, TaskInv, TaskOK, TypeOK
<1>6. UnackedIsServed'
  BY <1>1 DEF UnackedIsServed, Live, TypeOK
<1>7. QED
  BY <1>2, <1>3, <1>4, <1>5, <1>6

LEMMA StepDeliver == ASSUME IInv, NEW p \in Payments, Deliver(p) PROVE IInv'
<1> DEFINE h == <<p, deliveries[p] + 1>>
<1> USE ProcessingAssumption DEF IInv, Deliver
<1>1. h \in Handlers /\ deliveries[p] + 1 \in 0 .. DeliveryLimit + 1
  BY DEF BrokerInv, TypeOK, Handlers
<1>2. NewTask("reading") \in Tasks /\ NewTask("reading").at = "reading"
      /\ NewTask("reading").attempts = 0
  BY TaskTypes DEF Steps, NewTask
<1>3. TypeOK'
  BY <1>1, <1>2 DEF TypeOK, Places
<1>4. RowInv' /\ BrokerInv' /\ GivenUpAtLimit' /\ AcknowledgedIsDecided'
  BY <1>1 DEF RowInv, BrokerInv, GivenUpAtLimit, AcknowledgedIsDecided, TypeOK
<1>5. TaskInv'
  BY <1>1, <1>2, HandlerType DEF TaskInv, TaskOK, TypeOK
<1>6. UnackedIsServed'
  BY <1>1, <1>2 DEF UnackedIsServed, Live, TypeOK, Handlers
<1>7. QED
  BY <1>3, <1>4, <1>5, <1>6

LEMMA StepConnectionLoss == ASSUME IInv, ConnectionLoss PROVE IInv'
<1> USE HandlerType, ReturnedPlace, ProcessingAssumption DEF IInv, ConnectionLoss, ReturnAll
<1>1. TypeOK'
  BY DEF TypeOK, Places
<1>2. RowInv' /\ BrokerInv' /\ GivenUpAtLimit' /\ AcknowledgedIsDecided'
  BY DEF RowInv, BrokerInv, GivenUpAtLimit, AcknowledgedIsDecided, TypeOK
<1>3. TaskInv'
  BY DEF TaskInv, TaskOK
<1>4. UnackedIsServed'
  BY DEF UnackedIsServed
<1>5. QED
  BY <1>1, <1>2, <1>3, <1>4

LEMMA StepCrash == ASSUME IInv, Crash PROVE IInv'
<1> USE HandlerType, ReturnedPlace, ProcessingAssumption DEF IInv, Crash, ReturnAll
<1>1. \A h \in Handlers : Ended(task[h]) \in Tasks /\ Ended(task[h]).at = "gone"
  BY TaskTypes DEF TypeOK
<1>2. TypeOK'
  BY <1>1 DEF TypeOK, Places
<1>3. RowInv' /\ BrokerInv' /\ GivenUpAtLimit' /\ AcknowledgedIsDecided'
  BY DEF RowInv, BrokerInv, GivenUpAtLimit, AcknowledgedIsDecided, TypeOK
<1>4. TaskInv'
  BY <1>1 DEF TaskInv, TaskOK, Live
<1>5. UnackedIsServed'
  BY DEF UnackedIsServed
<1>6. QED
  BY <1>2, <1>3, <1>4, <1>5

\* The API's steps: a row is created, then a message.
LEMMA StepStore == ASSUME IInv, NEW p \in Payments, Store(p) PROVE IInv'
<1> USE DEF IInv, Store
<1>1. TypeOK'
  BY RowTypes DEF TypeOK
<1>2. PendingRow.status = "pending" /\ NoRow.status = "none"
  BY DEF PendingRow, NoRow
<1>3. queue[p] = "absent"
  BY <1>2 DEF RowInv
<1>4. RowInv' /\ BrokerInv' /\ GivenUpAtLimit' /\ AcknowledgedIsDecided'
  BY <1>2, <1>3 DEF RowInv, BrokerInv, GivenUpAtLimit, AcknowledgedIsDecided, TypeOK
<1>5. TaskInv'
  BY <1>3, HandlerType DEF TaskInv, TaskOK, TypeOK
<1>6. UnackedIsServed'
  BY DEF UnackedIsServed, Live
<1>7. QED
  BY <1>1, <1>4, <1>5, <1>6

LEMMA StepPublish == ASSUME IInv, NEW p \in Payments, Publish(p) PROVE IInv'
<1> USE HandlerType, ProcessingAssumption DEF IInv, Publish
<1>1. TypeOK'
  BY DEF TypeOK, Places
<1>2. RowInv' /\ BrokerInv' /\ GivenUpAtLimit' /\ AcknowledgedIsDecided'
  BY DEF RowInv, BrokerInv, GivenUpAtLimit, AcknowledgedIsDecided, TypeOK
<1>3. TaskInv' /\ UnackedIsServed'
  BY DEF TaskInv, TaskOK, UnackedIsServed, Live, TypeOK
<1>4. QED
  BY <1>1, <1>2, <1>3

\* The DLQ handler and the time to live of the DLQ do the same.
LEMMA StepDrop ==
  ASSUME IInv, NEW p \in Payments, DlqHandle(p) \/ DlqExpire(p) PROVE IInv'
<1> USE HandlerType, ProcessingAssumption DEF IInv, DlqHandle, DlqExpire
<1>1. TypeOK'
  BY DEF TypeOK, Places
<1>2. RowInv' /\ BrokerInv' /\ GivenUpAtLimit' /\ AcknowledgedIsDecided'
  BY DEF RowInv, BrokerInv, GivenUpAtLimit, AcknowledgedIsDecided, TypeOK
<1>3. TaskInv' /\ UnackedIsServed'
  BY DEF TaskInv, TaskOK, UnackedIsServed, Live, TypeOK
<1>4. QED
  BY <1>1, <1>2, <1>3

\* What only the clock, or the flag of the process, or nothing changes.
LEMMA StepElsewhere ==
  ASSUME IInv, UNCHANGED <<row, queue, deliveries, task, notified>>,
         overdue' \in [Payments -> BOOLEAN], up' \in BOOLEAN
  PROVE  IInv'
  BY DEF IInv, TypeOK, RowInv, BrokerInv, TaskInv, TaskOK, AcknowledgedIsDecided,
         UnackedIsServed, GivenUpAtLimit, Live

LEMMA StepProgress == ASSUME IInv, NEW h \in Handlers, Progress(h) PROVE IInv'
<1>1. CASE Read(h) \/ Start(h) \/ Execute(h) \/ LoadRow(h) \/ DatabaseFails(h)
  BY <1>1, StepRead, StepStart, StepExecute, StepLoadRow, StepDatabaseFails
<1>2. CASE Commit(h)
  BY <1>2, StepUpdate DEF Commit
<1>3. CASE CommitUnknown(h)
  BY <1>3, StepUpdate DEF CommitUnknown
<1>4. CASE PostAccepted(h) \/ PostUnexpected(h)
  BY <1>4, StepPost DEF PostAccepted, PostUnexpected
<1>5. CASE PostFails(h)
  BY <1>5, StepPost DEF PostFails
<1>6. CASE Ack(h)
  BY <1>6, StepSettle DEF Ack
<1>7. CASE Nack(h)
  <2>1. Returned(h[1]) \in {"ready", "dead"}
    BY ReturnedPlace, HandlerType DEF IInv
  <2>2. QED
    BY <1>7, <2>1, StepSettle DEF Nack
<1>8. QED
  BY <1>1, <1>2, <1>3, <1>4, <1>5, <1>6, <1>7 DEF Progress

LEMMA NextIInv == IInv /\ [Next]_vars => IInv'
<1> SUFFICES ASSUME IInv, [Next]_vars PROVE IInv'
  OBVIOUS
<1>1. ASSUME NEW p \in Payments, Store(p) \/ Publish(p) PROVE IInv'
  BY <1>1, StepStore, StepPublish
<1>2. ASSUME NEW p \in Payments, Expire(p) PROVE IInv'
  BY <1>2, StepElsewhere DEF Expire, IInv, TypeOK
<1>3. ASSUME NEW p \in Payments, Deliver(p) PROVE IInv'
  BY <1>3, StepDeliver
<1>4. ASSUME NEW p \in Payments, DlqHandle(p) \/ DlqExpire(p) PROVE IInv'
  BY <1>4, StepDrop
<1>5. ASSUME NEW h \in Handlers, Progress(h) PROVE IInv'
  BY <1>5, StepProgress
<1>6. CASE Crash
  BY <1>6, StepCrash
<1>7. CASE Restart
  BY <1>7, StepElsewhere DEF Restart, IInv, TypeOK
<1>8. CASE ConnectionLoss
  BY <1>8, StepConnectionLoss
<1>9. CASE UNCHANGED vars
  BY <1>9, StepElsewhere DEF vars, IInv, TypeOK
<1>10. QED
  BY <1>1, <1>2, <1>3, <1>4, <1>5, <1>6, <1>7, <1>8, <1>9 DEF Next, ReliableNext

LEMMA Invariance == Spec => []IInv
<1>1. QED
  BY InitIInv, NextIInv, PTL DEF Spec

\* Every state of the consumer is one the types allow.
THEOREM TypeCorrect == Spec => []TypeOK
<1>1. IInv => TypeOK
  BY DEF IInv
<1>2. QED
  BY <1>1, Invariance, PTL

\* Whatever fails, and however often the connection is lost, an acknowledged
\* message belongs to a decided payment: the queue loses no pending payment.
THEOREM NothingAcknowledgedPending == Spec => []AcknowledgedIsDecided
<1>1. IInv => AcknowledgedIsDecided
  BY DEF IInv
<1>2. QED
  BY <1>1, Invariance, PTL

\* An unacknowledged message always has a running handler.
THEOREM NoOrphanedDelivery == Spec => []UnackedIsServed
<1>1. IInv => UnackedIsServed
  BY DEF IInv
<1>2. QED
  BY <1>1, Invariance, PTL

\* Only a commit writes the row of a stored payment, and it writes a decision:
\* no interleaving of handlers makes a decided payment pending again.
THEOREM DecisionsStay == Spec => NeverUndecided
<1>1. ASSUME IInv, [Next]_vars, NEW p \in Payments, Decided(row[p])
      PROVE  Decided(row'[p])
  <2> USE DEF Decided
  <2>1. ASSUME NEW h \in Handlers, task[h].at = "committing", Update(h)
        PROVE  Decided(row'[p])
    <3>1. /\ row[h[1]] \in Rows /\ task[h].loaded \in Rows /\ task[h].result \in Outcomes
          /\ Decided(task[h].loaded) => Decided(row[h[1]])
      BY <1>1, <2>1, HandlerType DEF IInv, TypeOK, Tasks, TaskInv, TaskOK
    <3>2. Decided(Written(row[h[1]], task[h].loaded, task[h].result))
      BY <3>1, WrittenIsDecided
    <3>3. QED
      BY <1>1, <2>1, <3>2 DEF Update, IInv, TypeOK
  <2>2. ASSUME NEW q \in Payments, Store(q) PROVE Decided(row'[p])
    BY <1>1, <2>2 DEF Store, NoRow, IInv, TypeOK
  <2>3. ASSUME NEW h \in Handlers, Progress(h) PROVE Decided(row'[p])
    <3>1. CASE Commit(h) \/ CommitUnknown(h)
      BY <2>1, <3>1 DEF Commit, CommitUnknown
    <3>2. CASE ~(Commit(h) \/ CommitUnknown(h))
      BY <1>1, <2>3, <3>2
      DEF Progress, Read, Start, Execute, LoadRow, DatabaseFails, PostAccepted, PostFails,
          PostUnexpected, Post, Ack, Nack, Settle
    <3>3. QED
      BY <3>1, <3>2
  <2>4. QED
    BY <1>1, <2>2, <2>3
    DEF Next, ReliableNext, vars, Publish, Expire, Deliver, DlqHandle, DlqExpire, Crash,
        Restart, ConnectionLoss
<1>2. IInv /\ [Next]_vars => [\A p \in Payments : Decided(row[p]) => Decided(row'[p])]_vars
  BY <1>1
<1>3. QED
  BY <1>2, Invariance, PTL DEF Spec, NeverUndecided

\* Errors, crashes and losses alike use up deliveries: a message is dead-lettered
\* when they are all used, and not before.
THEOREM DeadLetteredAtLimit == Spec => []GivenUpAtLimit
<1>1. IInv => GivenUpAtLimit
  BY DEF IInv
<1>2. QED
  BY <1>1, Invariance, PTL

-----------------------------------------------------------------------------
(* The first delivery.                                                     *)

\* A task serves a delivery that was made.
TasksDelivered == \A h \in Handlers : task[h].at # "idle" => h[2] <= deliveries[h[1]]

\* Until the second delivery, nobody but the first task decides, it tells what it
\* stored, and it comes to acknowledge its message only by way of the webhook.
FirstOK(p) ==
  LET t == task[<<p, 1>>] IN
  /\ deliveries[p] = 0 => row[p] \in {NoRow, PendingRow}
  /\ deliveries[p] = 1 =>
       /\ t.at \in {"reading", "starting", "executing", "saving", "committing"} =>
            row[p] = PendingRow
       /\ t.at = "committing" => t.loaded = PendingRow
       /\ t.at = "notifying" => row[p] = t.result
       /\ queue[p] = "done" => t.at = "gone"
       /\ p \in WithWebhook /\ (t.at = "acking" \/ queue[p] = "done") =>
            row[p] \in notified[p] \/ t.swallowed

FInv == IInv /\ TasksDelivered /\ \A p \in Payments : FirstOK(p)

LEMMA FirstHandler == \A p \in Payments : <<p, 1>> \in Handlers
  BY ProcessingAssumption DEF Handlers

\* A step of one task that does not end it.
LEMMA FirstTaskStep ==
  ASSUME FInv, NEW h \in Handlers,
         \/ Read(h) \/ Start(h) \/ Execute(h) \/ LoadRow(h) \/ DatabaseFails(h)
         \/ Commit(h) \/ CommitUnknown(h)
         \/ PostAccepted(h) \/ PostFails(h) \/ PostUnexpected(h)
  PROVE  TasksDelivered' /\ \A p \in Payments : FirstOK(p)'
<1> USE HandlerType, FirstHandler DEF FInv, IInv, TypeOK
<1>1. /\ \A g \in Handlers : g # h => task'[g] = task[g]
      /\ \A p \in Payments : p # h[1] => row'[p] = row[p] /\ notified'[p] = notified[p]
      /\ UNCHANGED <<queue, deliveries>>
      /\ task[h].at # "idle"
  BY DEF Read, Start, Execute, LoadRow, DatabaseFails, Commit, CommitUnknown, Goto, Update,
         PostAccepted, PostFails, PostUnexpected, Post
<1>2. TasksDelivered'
  BY <1>1 DEF TasksDelivered
<1>3. h[2] <= deliveries[h[1]] /\ h[2] >= 1
  BY <1>1 DEF TasksDelivered
<1>4. deliveries[h[1]] \in Nat /\ deliveries[h[1]] >= 1
  BY <1>3, ProcessingAssumption
<1>5. ASSUME NEW p \in Payments, p # h[1] PROVE FirstOK(p)'
  BY <1>1, <1>5 DEF FirstOK
<1>6. CASE deliveries[h[1]] = 1
  <2>1. h = <<h[1], 1>>
    BY <1>3, <1>6
  <2>2. CASE Read(h)
    <3>1. row[h[1]] = PendingRow
      BY <1>6, <2>1, <2>2 DEF Read, FirstOK
    <3>2. task'[h].at \in {"starting", "nacking"} /\ UNCHANGED <<row, notified>>
      BY <2>2, <3>1, ShapeOfRows DEF Read, Goto, Tasks
    <3>3. queue[h[1]] # "done"
      BY <3>1, ShapeOfRows DEF AcknowledgedIsDecided
    <3>4. FirstOK(h[1])'
      BY <1>1, <1>6, <2>1, <3>1, <3>2, <3>3 DEF FirstOK
    <3>5. QED
      BY <1>2, <1>5, <3>4
  <2>3. CASE Start(h) \/ Execute(h) \/ LoadRow(h) \/ DatabaseFails(h)
    <3>1. /\ task[h].at \in {"reading", "starting", "executing", "saving", "committing"}
          /\ task'[h].at \in {"executing", "saving", "committing", "nacking"}
          /\ task'[h].at = "committing" => task'[h].loaded = row[h[1]]
          /\ UNCHANGED <<row, notified>>
      BY <2>3 DEF Start, Execute, LoadRow, DatabaseFails, Goto, Tasks
    <3>2. row[h[1]] = PendingRow /\ queue[h[1]] # "done"
      BY <1>6, <2>1, <3>1, ShapeOfRows DEF FirstOK, AcknowledgedIsDecided
    <3>3. FirstOK(h[1])'
      BY <1>1, <1>6, <2>1, <3>1, <3>2 DEF FirstOK
    <3>4. QED
      BY <1>2, <1>5, <3>3
  <2>4. CASE Commit(h) \/ CommitUnknown(h)
    <3>1. /\ task[h].at = "committing" /\ task[h].result \in Outcomes
          /\ row[h[1]] = PendingRow /\ task[h].loaded = PendingRow
      BY <1>6, <2>1, <2>4 DEF Commit, CommitUnknown, FirstOK, TaskInv, TaskOK
    <3>2. row'[h[1]] = task[h].result /\ queue[h[1]] # "done"
      BY <2>4, <3>1, ShapeOfRows
      DEF Commit, CommitUnknown, Update, AcknowledgedIsDecided
    <3>3. /\ task'[h].at \in {"notifying", "acking", "nacking"}
          /\ task'[h].at = "acking" => h[1] \notin WithWebhook
          /\ task'[h].result = task[h].result
      BY <2>4 DEF Commit, CommitUnknown, Goto, Tasks
    <3>4. FirstOK(h[1])'
      BY <1>1, <1>6, <2>1, <3>2, <3>3 DEF FirstOK
    <3>5. QED
      BY <1>2, <1>5, <3>4
  <2>5. CASE PostAccepted(h) \/ PostFails(h) \/ PostUnexpected(h)
    <3>1. /\ task[h].at = "notifying" /\ UNCHANGED row
          /\ task'[h].at \in {"notifying", "acking", "nacking"}
          /\ task'[h].result = task[h].result
      BY <2>5 DEF PostAccepted, PostFails, PostUnexpected, Post, Tasks
    <3>2. task'[h].at = "acking" =>
            task[h].result \in notified'[h[1]] \/ task'[h].swallowed
      BY <2>5 DEF PostAccepted, PostFails, PostUnexpected, Post, Tasks
    <3>3. row[h[1]] = task[h].result
      BY <1>6, <2>1, <3>1 DEF FirstOK
    <3>4. queue[h[1]] # "done"
      BY <1>6, <2>1, <3>1 DEF FirstOK
    <3>5. FirstOK(h[1])'
      BY <1>1, <1>6, <2>1, <3>1, <3>2, <3>3, <3>4 DEF FirstOK
    <3>6. QED
      BY <1>2, <1>5, <3>5
  <2>6. QED
    BY <2>2, <2>3, <2>4, <2>5
<1>7. CASE deliveries[h[1]] # 1
  <2>1. FirstOK(h[1])'
    BY <1>1, <1>4, <1>7 DEF FirstOK
  <2>2. QED
    BY <1>2, <1>5, <2>1
<1>8. QED
  BY <1>6, <1>7

\* A settlement: only an acknowledgement by the first task puts the message of a
\* first delivery to "done", and what it did about the webhook stays on record.
LEMMA FirstSettle ==
  ASSUME FInv, NEW h \in Handlers, Ack(h) \/ Nack(h)
  PROVE  TasksDelivered' /\ \A p \in Payments : FirstOK(p)'
<1> USE HandlerType, FirstHandler DEF FInv, IInv, TypeOK
<1>1. /\ task' = [task EXCEPT ![h] = Ended(task[h])]
      /\ UNCHANGED <<row, deliveries, notified>> /\ task[h].at \in {"acking", "nacking"}
  BY DEF Ack, Nack, Settle
<1>2. Ended(task[h]).at = "gone" /\ Ended(task[h]).swallowed = task[h].swallowed
  BY TaskTypes DEF Ended, NewTask
<1>3. TasksDelivered'
  BY <1>1, <1>2 DEF TasksDelivered
<1>4. ASSUME NEW p \in Payments, queue'[p] = "done", queue[p] # "done"
      PROVE  h[1] = p /\ h[2] = deliveries[p] /\ task[h].at = "acking"
  BY <1>4, ReturnedPlace DEF Ack, Nack, Settle, Owns
<1>5. ASSUME NEW p \in Payments PROVE FirstOK(p)'
  <2>1. task'[<<p, 1>>].swallowed = task[<<p, 1>>].swallowed
    BY <1>1, <1>2
  <2>2. task'[<<p, 1>>] = task[<<p, 1>>] \/ task'[<<p, 1>>].at = "gone"
    BY <1>1, <1>2
  <2>3. CASE queue'[p] = "done" /\ queue[p] # "done" /\ deliveries[p] = 1
    <3>1. h = <<p, 1>> /\ task[h].at = "acking"
      BY <1>4, <2>3
    <3>2. task'[<<p, 1>>].at = "gone"
      BY <1>1, <1>2, <3>1
    <3>3. p \in WithWebhook => row[p] \in notified[p] \/ task[<<p, 1>>].swallowed
      BY <2>3, <3>1 DEF FirstOK
    <3>4. QED
      BY <1>1, <2>1, <2>3, <3>2, <3>3 DEF FirstOK
  <2>4. CASE ~(queue'[p] = "done" /\ queue[p] # "done" /\ deliveries[p] = 1)
    BY <1>1, <2>1, <2>2, <2>4 DEF FirstOK
  <2>5. QED
    BY <2>3, <2>4
<1>6. QED
  BY <1>3, <1>5

LEMMA FirstDeliver ==
  ASSUME FInv, NEW p \in Payments, Deliver(p)
  PROVE  TasksDelivered' /\ \A q \in Payments : FirstOK(q)'
<1> DEFINE h == <<p, deliveries[p] + 1>>
<1> USE HandlerType, FirstHandler, ProcessingAssumption DEF FInv, IInv, TypeOK, Deliver
<1>1. h \in Handlers
  BY DEF BrokerInv, Handlers
<1>2. task' = [task EXCEPT ![h] = NewTask("reading")]
  OBVIOUS
<1>3. TasksDelivered'
  BY <1>1, <1>2 DEF TasksDelivered
<1>4. ASSUME NEW q \in Payments PROVE FirstOK(q)'
  <2>1. CASE q = p
    <3>1. row[p] # NoRow
      BY DEF RowInv, NoRow
    <3>2. QED
      BY <1>1, <1>2, <2>1, <3>1 DEF FirstOK, NewTask
  <2>2. CASE q # p
    BY <1>1, <1>2, <2>2 DEF FirstOK
  <2>3. QED
    BY <2>1, <2>2
<1>5. QED
  BY <1>3, <1>4

\* Steps after which no message is newly settled and no payment newly decided.
LEMMA FirstElsewhere ==
  ASSUME FInv, UNCHANGED <<deliveries, notified>>,
         \A p \in Payments : /\ row'[p] = row[p] \/ (row[p] = NoRow /\ row'[p] = PendingRow)
                             /\ queue'[p] = "done" => queue[p] = "done",
         \A h \in Handlers : \/ task'[h] = task[h]
                             \/ task[h].at # "idle" /\ task'[h] = Ended(task[h])
  PROVE  TasksDelivered' /\ \A p \in Payments : FirstOK(p)'
<1> USE HandlerType, FirstHandler DEF FInv, IInv, TypeOK
<1>1. \A h \in Handlers : /\ Ended(task[h]).at = "gone"
                          /\ Ended(task[h]).swallowed = task[h].swallowed
  BY TaskTypes DEF Ended, NewTask
<1>2. TasksDelivered'
  BY <1>1 DEF TasksDelivered
<1>3. ASSUME NEW p \in Payments PROVE FirstOK(p)'
  <2>1. CASE row'[p] = row[p]
    BY <1>1, <2>1 DEF FirstOK
  <2>2. CASE row[p] = NoRow /\ row'[p] = PendingRow
    <3>1. queue[p] = "absent" /\ task[<<p, 1>>].at = "idle"
      BY <2>2 DEF RowInv, NoRow, TaskInv, TaskOK
    <3>2. QED
      BY <1>1, <2>2, <3>1 DEF FirstOK
  <2>3. QED
    BY <2>1, <2>2
<1>4. QED
  BY <1>2, <1>3

LEMMA InitFInv == Init => FInv
  BY InitIInv, HandlerType, FirstHandler
  DEF Init, FInv, TasksDelivered, FirstOK, NewTask

LEMMA NextFInv == FInv /\ [Next]_vars => FInv'
<1> SUFFICES ASSUME FInv, [Next]_vars PROVE FInv'
  OBVIOUS
<1>1. IInv'
  BY NextIInv DEF FInv
<1>2. ASSUME NEW h \in Handlers, Progress(h)
      PROVE  TasksDelivered' /\ \A p \in Payments : FirstOK(p)'
  BY <1>2, FirstTaskStep, FirstSettle DEF Progress
<1>3. ASSUME NEW p \in Payments, Store(p) PROVE TasksDelivered' /\ \A q \in Payments : FirstOK(q)'
  BY <1>3, FirstElsewhere DEF Store, Decided, PendingRow, FInv, IInv, TypeOK
<1>4. ASSUME NEW p \in Payments, Publish(p) \/ Expire(p) \/ DlqHandle(p) \/ DlqExpire(p)
      PROVE  TasksDelivered' /\ \A q \in Payments : FirstOK(q)'
  BY <1>4, FirstElsewhere DEF Publish, Expire, DlqHandle, DlqExpire, FInv, IInv, TypeOK
<1>5. ASSUME Crash PROVE TasksDelivered' /\ \A p \in Payments : FirstOK(p)'
  <2>1. \A p \in Payments : queue'[p] = "done" => queue[p] = "done"
    BY <1>5, ReturnedPlace DEF Crash, ReturnAll, FInv, IInv
  <2>2. \A h \in Handlers : \/ task'[h] = task[h]
                            \/ task[h].at # "idle" /\ task'[h] = Ended(task[h])
    BY <1>5 DEF Crash, Live
  <2>3. QED
    BY <1>5, <2>1, <2>2, FirstElsewhere DEF Crash
<1>6. ASSUME ConnectionLoss \/ Restart \/ UNCHANGED vars
      PROVE  TasksDelivered' /\ \A p \in Payments : FirstOK(p)'
  <2>1. \A p \in Payments : queue'[p] = "done" => queue[p] = "done"
    BY <1>6, ReturnedPlace DEF ConnectionLoss, ReturnAll, Restart, vars, FInv, IInv
  <2>2. QED
    BY <1>6, <2>1, FirstElsewhere DEF ConnectionLoss, Restart, vars
<1>7. TasksDelivered' /\ \A p \in Payments : FirstOK(p)'
  BY <1>2, <1>3, <1>4, <1>5, <1>6, FirstDeliver DEF Next, ReliableNext
<1>8. QED
  BY <1>1, <1>7 DEF FInv

LEMMA FirstInvariance == Spec => []FInv
  BY InitFInv, NextFInv, PTL DEF Spec

\* With reconnections, crashes and every error: the merchant was told the stored
\* decision of a message that is settled on its first delivery, unless an
\* unexpected error of that attempt was swallowed.
THEOREM FirstDeliveryNotifies == Spec => []FirstDeliveryTells
<1>1. FInv => FirstDeliveryTells
  BY ProcessingAssumption DEF FInv, FirstOK, FirstDeliveryTells
<1>2. QED
  BY <1>1, FirstInvariance, PTL

-----------------------------------------------------------------------------
(* The deadline.                                                           *)

\* A payment that was overdue before anything was delivered: every task for it
\* takes the time too late, and can only store a failure.
Doomed(p) ==
  /\ overdue[p]
  /\ row[p].status \notin {"none", "succeeded"}
  /\ \A h \in Handlers : h[1] = p =>
       /\ task[h].at = "executing" => task[h].late
       /\ task[h].at \in {"saving", "committing"} => task[h].result.status = "failed"

\* A step of one task; it is enough to look at that task and at the row.
LEMMA DoomedTaskStep ==
  ASSUME FInv, NEW p \in Payments, Doomed(p), NEW h \in Handlers, Progress(h)
  PROVE  Doomed(p)'
<1> USE HandlerType DEF FInv, IInv, TypeOK, Doomed
<1>1. CASE Read(h) \/ DatabaseFails(h) \/ PostAccepted(h) \/ PostFails(h) \/ PostUnexpected(h)
  BY <1>1 DEF Read, DatabaseFails, PostAccepted, PostFails, PostUnexpected, Post, Goto, Tasks
<1>2. CASE Start(h)
  BY <1>2 DEF Start, Tasks
<1>3. CASE Execute(h)
  <2>1. PICK r \in Executed(task[h].late) :
               task' = [task EXCEPT ![h].at = "saving", ![h].result = r]
    BY <1>3 DEF Execute
  <2>2. h[1] = p => r.status = "failed"
    BY <1>3 DEF Execute, Executed, Expired
  <2>3. QED
    BY <1>3, <2>1, <2>2 DEF Execute, Tasks
<1>4. CASE LoadRow(h)
  BY <1>4 DEF LoadRow, Tasks
<1>5. CASE Commit(h) \/ CommitUnknown(h)
  <2>1. /\ Update(h) /\ UNCHANGED overdue /\ task[h].at = "committing"
        /\ \E s \in {"notifying", "acking", "nacking"} : Goto(h, s)
    BY <1>5 DEF Commit, CommitUnknown
  <2>2. row'[p].status \notin {"none", "succeeded"}
    BY <2>1 DEF Update, Written
  <2>3. QED
    BY <2>1, <2>2 DEF Goto, Tasks
<1>6. CASE Ack(h) \/ Nack(h)
  <2>1. /\ task' = [task EXCEPT ![h] = Ended(task[h])] /\ UNCHANGED <<row, overdue>>
        /\ Ended(task[h]).at = "gone"
    BY <1>6, TaskTypes DEF Ack, Nack, Settle
  <2>2. QED
    BY <2>1
<1>7. QED
  BY <1>1, <1>2, <1>3, <1>4, <1>5, <1>6 DEF Progress

LEMMA DoomedStep ==
  ASSUME FInv, [Next]_vars, NEW p \in Payments, Doomed(p)
  PROVE  Doomed(p)'
<1> USE HandlerType DEF FInv, IInv, TypeOK, Doomed
<1>1. ASSUME NEW q \in Payments, Store(q) PROVE Doomed(p)'
  BY <1>1 DEF Store, NoRow, PendingRow
<1>2. ASSUME NEW q \in Payments, Publish(q) \/ Expire(q) \/ DlqHandle(q) \/ DlqExpire(q)
      PROVE  Doomed(p)'
  BY <1>2 DEF Publish, Expire, DlqHandle, DlqExpire
<1>3. ASSUME NEW q \in Payments, Deliver(q) PROVE Doomed(p)'
  BY <1>3 DEF Deliver, NewTask
<1>4. CASE Crash
  <2>1. \A h \in Handlers : task'[h] = task[h] \/ task'[h].at = "gone"
    BY <1>4, TaskTypes DEF Crash
  <2>2. QED
    BY <1>4, <2>1 DEF Crash
<1>5. CASE Restart \/ ConnectionLoss \/ UNCHANGED vars
  BY <1>5 DEF Restart, ConnectionLoss, vars
<1>6. QED
  BY <1>1, <1>2, <1>3, <1>4, <1>5, DoomedTaskStep DEF Next, ReliableNext

\* A payment that was overdue when its message was first delivered, or before,
\* never succeeds, however often the message is delivered and whoever writes last.
THEOREM OverdueFails == Spec => OverdueNeverSucceeds
<1>1. Spec => []FInv
  BY FirstInvariance
<1>2. ASSUME NEW p \in Payments
      PROVE  Spec => [](overdue[p] /\ deliveries[p] = 0 /\ IsPending(row[p])
                          => [](row[p].status # "succeeded"))
  <2>1. FInv /\ (overdue[p] /\ deliveries[p] = 0 /\ IsPending(row[p])) => Doomed(p)
    <3>1. \A h \in Handlers : h[2] >= 1
      BY HandlerType, ProcessingAssumption
    <3>2. QED
      BY <3>1, HandlerType DEF FInv, TasksDelivered, Doomed, IsPending
  <2>2. Doomed(p) => row[p].status # "succeeded"
    BY DEF Doomed
  <2>3. FInv /\ [Next]_vars /\ Doomed(p) => Doomed(p)'
    BY DoomedStep
  <2>4. Spec => [][Next]_vars
    BY PTL DEF Spec
  <2>5. QED
    BY <1>1, <2>1, <2>2, <2>3, <2>4, PTL
<1>3. QED
  BY <1>2 DEF OverdueNeverSucceeds

-----------------------------------------------------------------------------
(* The work of a delivery.                                                 *)

\* What is left to do, step by step.
LEMMA WorkLeft ==
  ASSUME FInv, NEW h \in Handlers
  PROVE  /\ task[h].at \in {"reading", "starting", "executing", "saving", "committing"} =>
              Work(h) \in WebhookAttempts + 2 .. WebhookAttempts + 6
         /\ task[h].at = "committing" => Work(h) = WebhookAttempts + 2
         /\ task[h].at = "notifying" =>
              /\ Work(h) = WebhookAttempts + 1 - task[h].attempts
              /\ task[h].attempts \in 0 .. WebhookAttempts - 1
         /\ task[h].at \in {"acking", "nacking"} => Work(h) = 1
         /\ task[h].at \in {"idle", "gone"} => Work(h) = 0
<1>1. task[h].at = "notifying" => task[h].attempts \in 0 .. WebhookAttempts - 1
  BY ProcessingAssumption DEF FInv, IInv, TaskInv, TaskOK, TypeOK, Tasks
<1>2. QED
  BY <1>1, ProcessingAssumption DEF Work

\* A step of one task lowers its work and leaves that of the others alone.
LEMMA WorkStep ==
  ASSUME FInv, FInv', NEW h \in Handlers, Progress(h)
  PROVE  /\ Work(h)' \in 0 .. Work(h) - 1
         /\ \A g \in Handlers : g # h => task'[g] = task[g]
<1> DEFINE t == task[h]
           u == task'[h]
           Early == {"reading", "starting", "executing", "saving", "committing"}
<1> USE ProcessingAssumption
<1>1. t \in Tasks /\ u \in Tasks
  BY DEF FInv, IInv, TypeOK
<1>2. t.at = "notifying" => t.attempts < WebhookAttempts
  BY DEF FInv, IInv, TaskInv, TaskOK
<1>3. u.at = "notifying" => u.attempts < WebhookAttempts
  BY DEF FInv, IInv, TaskInv, TaskOK
<1>4. CASE Read(h) \/ Start(h) \/ Execute(h) \/ LoadRow(h) \/ DatabaseFails(h)
  <2>1. \/ t.at \in Early /\ u.at \in {"acking", "nacking"}
        \/ t.at = "reading" /\ u.at = "starting"
        \/ t.at = "starting" /\ u.at = "executing"
        \/ t.at = "executing" /\ u.at = "saving"
        \/ t.at = "saving" /\ u.at = "committing"
    BY <1>4 DEF FInv, IInv, TypeOK, Tasks, Read, Start, Execute, LoadRow, DatabaseFails, Goto
  <2>2. Work(h)' \in 0 .. Work(h) - 1
    BY <2>1 DEF Work
  <2>3. QED
    BY <1>4, <2>2 DEF FInv, IInv, TypeOK, Read, Start, Execute, LoadRow, DatabaseFails, Goto
<1>5. CASE Commit(h) \/ CommitUnknown(h)
  <2>1. /\ t.at = "committing" /\ u.at \in {"notifying", "acking", "nacking"}
        /\ u.attempts = t.attempts /\ t.attempts = 0
    BY <1>5 DEF FInv, IInv, TypeOK, Tasks, TaskInv, TaskOK, Commit, CommitUnknown, Goto
  <2>2. Work(h)' \in 0 .. Work(h) - 1
    BY <2>1 DEF Work
  <2>3. QED
    BY <1>5, <2>2 DEF FInv, IInv, TypeOK, Commit, CommitUnknown, Goto
<1>6. CASE PostAccepted(h) \/ PostFails(h) \/ PostUnexpected(h)
  <2>1. /\ t.at = "notifying" /\ u.at \in {"notifying", "acking", "nacking"}
        /\ u.attempts = t.attempts + 1
    BY <1>6 DEF FInv, IInv, TypeOK, Tasks, PostAccepted, PostFails, PostUnexpected, Post
  <2>2. t.attempts \in Nat
    BY <1>1 DEF Tasks
  <2>3. Work(h)' \in 0 .. Work(h) - 1
    BY <1>2, <1>3, <2>1, <2>2 DEF Work
  <2>4. QED
    BY <1>6, <2>3 DEF FInv, IInv, TypeOK, PostAccepted, PostFails, PostUnexpected, Post
<1>7. CASE Ack(h) \/ Nack(h)
  <2>1. /\ t.at \in {"acking", "nacking"} /\ task' = [task EXCEPT ![h] = Ended(t)]
    BY <1>7 DEF Ack, Nack, Settle
  <2>2. u.at = "gone"
    BY <1>1, <2>1, TaskTypes DEF FInv, IInv, TypeOK
  <2>3. Work(h)' \in 0 .. Work(h) - 1
    BY <2>1, <2>2 DEF Work
  <2>4. QED
    BY <2>1, <2>3 DEF FInv, IInv, TypeOK
<1>8. QED
  BY <1>4, <1>5, <1>6, <1>7 DEF Progress

\* A task that is not served yet is started by its delivery, and never again.
LEMMA DeliverIsFirst ==
  ASSUME FInv, NEW p \in Payments, Deliver(p), NEW h \in Handlers
  PROVE  task'[h] = task[h] \/ task[h].at = "idle"
<1>1. CASE h = <<p, deliveries[p] + 1>>
  <2>1. h[1] = p /\ h[2] = deliveries[p] + 1 /\ deliveries[p] \in Nat
    BY <1>1, ProcessingAssumption DEF FInv, IInv, TypeOK
  <2>2. ~(h[2] <= deliveries[h[1]])
    BY <2>1
  <2>3. QED
    BY <2>2 DEF FInv, TasksDelivered
<1>2. CASE h # <<p, deliveries[p] + 1>>
  BY <1>2 DEF Deliver, FInv, IInv, TypeOK
<1>3. QED
  BY <1>1, <1>2

\* Whatever fails: each step of a delivery brings it nearer to its end, which is at
\* most WebhookAttempts + 6 steps away, and nothing starts it again.  This is what
\* a proof that messages leave the queue needs beside the fairness of the steps.
THEOREM DeliveriesTakeBoundedWork == Spec => WorkIsBounded
<1> DEFINE Bounded(h) == \/ task'[h] = task[h] \/ task[h].at = "idle"
                         \/ Work(h)' \in 0 .. Work(h) - 1
<1>1. ASSUME FInv, [Next]_vars, NEW h \in Handlers PROVE Bounded(h)
  <2>1. CASE \E g \in Handlers : Progress(g)
    <3>1. PICK g \in Handlers : Progress(g)
      BY <2>1
    <3>2. CASE g = h
      BY <1>1, <3>1, <3>2, NextFInv, WorkStep
    <3>3. CASE g # h
      BY <1>1, <3>1, <3>3, NextFInv, WorkStep
    <3>4. QED
      BY <3>2, <3>3
  <2>2. CASE \E p \in Payments : Deliver(p)
    BY <1>1, <2>2, DeliverIsFirst
  <2>3. CASE Crash
    <3>1. CASE Live(h)
      <4>1. task'[h] = Ended(task[h]) /\ task[h] \in Tasks
        BY <1>1, <2>3, <3>1 DEF Crash, FInv, IInv, TypeOK
      <4>2. task'[h].at = "gone" /\ task[h].at \in Steps \ {"idle", "gone"}
        BY <3>1, <4>1, TaskTypes DEF Live, Tasks
      <4>3. Work(h)' = 0
        BY <4>2 DEF Work
      <4>4. Work(h) \in Nat /\ Work(h) > 0
        BY <1>1, <4>2, WorkLeft, ProcessingAssumption DEF Steps
      <4>5. QED
        BY <4>3, <4>4
    <3>2. CASE ~Live(h)
      BY <2>3, <3>2 DEF Crash
    <3>3. QED
      BY <3>1, <3>2
  <2>4. CASE UNCHANGED task
    BY <2>4
  <2>5. QED
    BY <1>1, <2>1, <2>2, <2>3, <2>4 DEF Next, ReliableNext, Store, Publish, Expire,
       DlqHandle, DlqExpire, Restart, ConnectionLoss, vars
<1>2. FInv /\ [Next]_vars => [WorkGoesDown]_vars
  BY <1>1 DEF WorkGoesDown
<1>3. QED
  BY <1>2, FirstInvariance, PTL DEF Spec, WorkIsBounded

=============================================================================
