------------------------- MODULE RequestScope_proofs -------------------------
(***************************************************************************)
(* Proofs about RequestScope for any jobs and any number of connections.   *)
(***************************************************************************)
EXTENDS RequestScope, TLAPS

\* The steps of the programme of a job, and those that any job may take.
OwnSteps(j) == IF j \in Posts THEN {"starting", "lookup", "save", "publish", "reread"}
               ELSE IF j \in Gets THEN {"read"}
               ELSE {"read", "execute", "save", "webhook", "leaving"}

AnySteps == {"new", "rollback", "closing", "done"}

\* What the session of a job holds at each of its steps.
JobOK(j) ==
  /\ at[j] \in OwnSteps(j) \cup AnySteps
  /\ session[j] = "open" => at[j] \in Queries \cup {"rollback", "closing"}
  /\ dirty[j] => session[j] = "open"
  /\ at[j] = "save" /\ session[j] = "open" => dirty[j]
  /\ at[j] \in {"new", "done"} => session[j] = "closed"
  /\ at[j] \in {"publish", "reread", "webhook"} \/ told[j] => stored[j]
  /\ j \in Posts /\ at[j] \in Queries \cup {"publish"} => started

ScopeInv == TypeOK /\ \A j \in Jobs : JobOK(j)

-----------------------------------------------------------------------------

LEMMA InitScopeInv == Init => ScopeInv
  BY DEF Init, ScopeInv, TypeOK, JobOK, Steps, Queries, AnySteps

\* What may follow a step, by the kind of the job.
LEMMA Following ==
  ASSUME NEW j \in Jobs, at[j] \in OwnSteps(j) \ {"starting", "leaving"},
         NEW s \in Follows(j)[at[j]]
  PROVE  /\ s \in OwnSteps(j) \cup {"closing"}
         /\ s \notin {"new", "done", "starting", "lookup", "read"}
         /\ s = "reread" => at[j] = "publish"
         /\ s \in {"publish", "webhook"} => at[j] = "save"
<1>1. CASE j \in Posts
  BY <1>1, ScopeAssumption DEF Follows, OwnSteps, PostSteps
<1>2. CASE j \in Gets
  BY <1>2, ScopeAssumption DEF Follows, OwnSteps, GetSteps
<1>3. CASE j \notin Posts \cup Gets
  BY <1>3 DEF Follows, OwnSteps, MessageSteps
<1>4. QED
  BY <1>1, <1>2, <1>3

LEMMA OwnStepsAreSteps == \A j \in Jobs : OwnSteps(j) \cup AnySteps \subseteq Steps
  BY DEF OwnSteps, AnySteps, Steps, Queries, Waits

\* A step of one job that leaves the broker alone.
LEMMA JobStep ==
  ASSUME ScopeInv, NEW j \in Jobs, NEW s \in Steps, NEW c \in {"closed", "idle", "open"},
         NEW d \in BOOLEAN, NEW w \in BOOLEAN, NEW t \in BOOLEAN,
         at' = [at EXCEPT ![j] = s], session' = [session EXCEPT ![j] = c],
         dirty' = [dirty EXCEPT ![j] = d], stored' = [stored EXCEPT ![j] = w],
         told' = [told EXCEPT ![j] = t], started => started', started' \in BOOLEAN,
         JobOK(j)'
  PROVE  ScopeInv'
<1>1. TypeOK'
  BY DEF ScopeInv, TypeOK
<1>2. ASSUME NEW i \in Jobs, i # j PROVE JobOK(i)'
  BY <1>2 DEF ScopeInv, TypeOK, JobOK
<1>3. QED
  BY <1>1, <1>2 DEF ScopeInv

-----------------------------------------------------------------------------

LEMMA StepContainer ==
  ASSUME ScopeInv, NEW j \in Jobs,
         Resolve(j) \/ BrokerStarts(j) \/ BrokerFails(j) \/ Close(j)
  PROVE  ScopeInv'
<1> USE OwnStepsAreSteps, ScopeAssumption
        DEF ScopeInv, TypeOK, JobOK, Goto, Queries, OwnSteps, AnySteps
<1>1. CASE Resolve(j)
  BY <1>1, JobStep DEF Resolve, First
<1>2. CASE BrokerStarts(j)
  BY <1>2, JobStep DEF BrokerStarts, First
<1>3. CASE BrokerFails(j)
  BY <1>3, JobStep DEF BrokerFails
<1>4. CASE Close(j)
  BY <1>4, JobStep DEF Close
<1>5. QED
  BY <1>1, <1>2, <1>3, <1>4

LEMMA StepQuery ==
  ASSUME ScopeInv, NEW j \in Jobs,
         \/ Begin(j) \/ Commit(j) \/ CommitUnknown(j) \/ QueryFails(j)
         \/ Rollback(j) \/ RollbackFails(j) \/ Leave(j)
  PROVE  ScopeInv'
<1> USE OwnStepsAreSteps
        DEF ScopeInv, TypeOK, JobOK, Goto, Queries, AnySteps, EndTransaction
<1>1. CASE Begin(j)
  BY <1>1, JobStep DEF Begin
<1>2. CASE Commit(j)
  <2>1. PICK s \in Follows(j)[at[j]] : Goto(j, s)
    BY <1>2 DEF Commit, GoOn
  <2>2. at[j] \in OwnSteps(j) \ {"starting", "leaving"}
    BY <1>2 DEF Commit
  <2>3. /\ s \in OwnSteps(j) \cup {"closing"}
        /\ s \notin {"new", "done", "starting", "lookup", "read"}
        /\ s # "reread"
        /\ s \in {"publish", "webhook"} => at[j] = "save"
    BY <1>2, <2>1, <2>2, Following DEF Commit
  <2>4. s \in Steps
    BY <2>3
  <2>5. JobOK(j)'
    BY <1>2, <2>1, <2>3 DEF Commit
  <2>6. /\ session' = [session EXCEPT ![j] = "idle"]
        /\ stored' = [stored EXCEPT ![j] = stored[j] \/ dirty[j]]
        /\ dirty' = [dirty EXCEPT ![j] = FALSE]
        /\ told' = [told EXCEPT ![j] = told[j]] /\ UNCHANGED started
    BY <1>2 DEF Commit
  <2>7. QED
    BY <2>1, <2>4, <2>5, <2>6, JobStep
<1>3. CASE CommitUnknown(j)
  BY <1>3, JobStep DEF CommitUnknown
<1>4. CASE QueryFails(j)
  BY <1>4, JobStep DEF QueryFails
<1>5. CASE Rollback(j)
  BY <1>5, JobStep DEF Rollback
<1>6. CASE RollbackFails(j)
  BY <1>6, JobStep DEF RollbackFails
<1>7. CASE Leave(j)
  BY <1>7, JobStep DEF Leave
<1>8. QED
  BY <1>1, <1>2, <1>3, <1>4, <1>5, <1>6, <1>7

LEMMA StepWait ==
  ASSUME ScopeInv, NEW j \in Jobs, Publish(j) \/ Execute(j) \/ PostWebhook(j)
  PROVE  ScopeInv'
<1> USE OwnStepsAreSteps DEF ScopeInv, TypeOK, JobOK, Goto, Queries, AnySteps
<1>1. PICK s \in Follows(j)[at[j]] \cup {"rollback"} : Goto(j, s)
  BY DEF Publish, Execute, PostWebhook, GoOn
<1>2. /\ s \in OwnSteps(j) \cup {"closing", "rollback"}
      /\ s \notin {"new", "done", "starting", "lookup", "read", "publish", "webhook"}
      /\ j \in Posts => at[j] = "publish"
      /\ s = "reread" => at[j] = "publish"
  BY <1>1, Following DEF Publish, Execute, PostWebhook, OwnSteps
<1>3. s \in Steps
  BY <1>2
<1>4. at[j] \in {"publish", "execute", "webhook"} /\ session[j] # "open" /\ ~dirty[j]
  BY DEF Publish, Execute, PostWebhook
<1>5. j \in Posts /\ at[j] = "publish" => started
  OBVIOUS
<1>6. PICK t \in BOOLEAN : told' = [told EXCEPT ![j] = t]
  BY DEF Publish, Execute, PostWebhook
<1>7. UNCHANGED <<session, dirty, stored, started>>
  BY DEF Publish, Execute, PostWebhook
<1>8. stored[j] \/ (at[j] = "execute" /\ UNCHANGED told)
  BY <1>4 DEF Publish, Execute, PostWebhook
<1>9. JobOK(j)'
  BY <1>1, <1>2, <1>4, <1>5, <1>7, <1>8
<1>10. QED
  BY <1>1, <1>3, <1>6, <1>7, <1>9, JobStep

LEMMA StepLost ==
  ASSUME ScopeInv, CrashApi \/ CrashConsumer
  PROVE  ScopeInv'
<1> USE DEF CrashApi, CrashConsumer, Lost
<1>1. PICK jobs \in SUBSET Jobs : Lost(jobs)
  BY DEF Jobs
<1>2. TypeOK'
  BY <1>1 DEF ScopeInv, TypeOK, Steps
<1>3. ASSUME NEW j \in Jobs PROVE JobOK(j)'
  <2>1. CASE CrashApi
    BY <2>1 DEF ScopeInv, TypeOK, JobOK, Jobs, Queries, AnySteps
  <2>2. CASE CrashConsumer
    BY <2>2 DEF ScopeInv, TypeOK, JobOK, Jobs, Queries, AnySteps
  <2>3. QED
    BY <2>1, <2>2
<1>4. QED
  BY <1>2, <1>3 DEF ScopeInv

LEMMA NextScopeInv == ScopeInv /\ [Next]_vars => ScopeInv'
<1> SUFFICES ASSUME ScopeInv, [Next]_vars PROVE ScopeInv'
  OBVIOUS
<1>1. ASSUME NEW j \in Jobs, Resolve(j) \/ Run(j) \/ QueryFails(j) PROVE ScopeInv'
  BY <1>1, StepContainer, StepQuery, StepWait DEF Run
<1>2. CASE UNCHANGED vars
  BY <1>2 DEF vars, ScopeInv, TypeOK, JobOK
<1>3. QED
  BY <1>1, <1>2, StepLost DEF Next

LEMMA ScopeInvariance == Spec => []ScopeInv
  BY InitScopeInv, NextScopeInv, PTL DEF Spec

THEOREM TypeCorrect == Spec => []TypeOK
<1>1. ScopeInv => TypeOK
  BY DEF ScopeInv
<1>2. QED
  BY <1>1, ScopeInvariance, PTL

\* Whatever fails and whoever waits, no job keeps a database connection while it
\* waits for RabbitMQ, the payment gateway or a merchant.
THEOREM WaitsDisconnected == Spec => []NoConnectionWhileWaiting
<1>1. ScopeInv => NoConnectionWhileWaiting
  BY DEF ScopeInv, JobOK, NoConnectionWhileWaiting, Queries, Waits
<1>2. QED
  BY <1>1, ScopeInvariance, PTL

\* Whatever a scope went through, failed rollbacks included, its connection is
\* back when it has ended.
THEOREM ConnectionsComeBack == Spec => []NothingLeft
<1>1. ScopeInv => NothingLeft
  BY DEF ScopeInv, JobOK, NothingLeft
<1>2. QED
  BY <1>1, ScopeInvariance, PTL

\* RabbitMQ and the merchant hear of nothing that is not committed.
THEOREM ToldIsCommitted == Spec => []CommittedBeforeTold
<1>1. ScopeInv => CommittedBeforeTold
  BY DEF ScopeInv, JobOK, CommittedBeforeTold
<1>2. QED
  BY <1>1, ScopeInvariance, PTL

\* Only a process that has connected to RabbitMQ stores payments.
THEOREM BrokerBeforeStore == Spec => StoresWithBroker
<1>1. ScopeInv /\ [Next]_vars =>
        [\A j \in Posts : ~stored[j] /\ stored'[j] => started]_vars
  <2> SUFFICES ASSUME ScopeInv, Next, NEW j \in Posts, ~stored[j], stored'[j]
               PROVE  started
    OBVIOUS
  <2> USE DEF ScopeInv, TypeOK, JobOK, Jobs, EndTransaction
  <2>1. ASSUME NEW i \in Jobs, Resolve(i) \/ Run(i) \/ QueryFails(i)
        PROVE  i = j /\ at[i] \in Queries
    <3>1. Commit(i) \/ CommitUnknown(i) \/ Rollback(i) \/ Leave(i)
      BY <2>1 DEF Run, Resolve, QueryFails, BrokerStarts, BrokerFails, Begin, RollbackFails,
                  Publish, Execute, PostWebhook, Close
    <3>2. dirty[j] /\ i = j
      BY <3>1 DEF Commit, CommitUnknown, Rollback, Leave
    <3>3. QED
      BY <3>1, <3>2 DEF Commit, CommitUnknown, Rollback, Leave, Queries
  <2>2. ~CrashApi /\ ~CrashConsumer
    BY DEF CrashApi, CrashConsumer, Lost
  <2>3. QED
    BY <2>1, <2>2 DEF Next
<1>2. QED
  BY <1>1, ScopeInvariance, PTL DEF Spec, StoresWithBroker

-----------------------------------------------------------------------------
(* The work of a job is bounded: the half of Ends that needs no fairness.    *)

LEMMA Counts == \A step \in Steps : /\ StepsLeft[step] \in 0 .. 10
                                    /\ step # "done" => StepsLeft[step] >= 1
  BY DEF Steps, Queries, Waits, StepsLeft

\* What follows a step is nearer to the end.
LEMMA FollowingLess ==
  ASSUME NEW j \in Jobs, at[j] \in OwnSteps(j) \ {"starting", "leaving"},
         NEW s \in Follows(j)[at[j]]
  PROVE  StepsLeft[s] < StepsLeft[at[j]]
<1> USE DEF Follows, OwnSteps, StepsLeft
<1>1. CASE j \in Posts
  BY <1>1 DEF PostSteps
<1>2. CASE j \in Gets /\ j \notin Posts
  BY <1>2 DEF GetSteps
<1>3. CASE j \notin Posts \cup Gets
  BY <1>3 DEF MessageSteps
<1>4. QED
  BY <1>1, <1>2, <1>3

\* A job is nearer to its end, or it took a connection and did nothing else.
LEMMA JobAdvances ==
  ASSUME ScopeInv, NEW j \in Jobs, Resolve(j) \/ Run(j) \/ QueryFails(j)
  PROVE  /\ at' = [at EXCEPT ![j] = at'[j]]
         /\ session' = [session EXCEPT ![j] = session'[j]]
         /\ at'[j] \in Steps
         /\ \/ StepsLeft[at'[j]] < StepsLeft[at[j]]
            \/ at'[j] = at[j] /\ session[j] = "idle" /\ session'[j] = "open"
<1> USE DEF ScopeInv, TypeOK, JobOK, Goto, GoOn, EndTransaction, AnySteps, StepsLeft
<1>1. at'[j] \in Steps
  BY NextScopeInv DEF Next
<1>2. CASE Resolve(j) \/ BrokerStarts(j) \/ BrokerFails(j) \/ Close(j)
  BY <1>1, <1>2 DEF Resolve, BrokerStarts, BrokerFails, Close, First
<1>3. CASE Begin(j)
  BY <1>1, <1>3 DEF Begin
<1>4. CASE Commit(j) \/ Publish(j) \/ Execute(j)
  <2>1. at[j] \in OwnSteps(j) \ {"starting", "leaving"}
    BY <1>4 DEF Commit, Publish, Execute, Queries
  <2>2. PICK s \in Follows(j)[at[j]] : at' = [at EXCEPT ![j] = s]
    BY <1>4 DEF Commit, Publish, Execute
  <2>3. StepsLeft[s] < StepsLeft[at[j]]
    BY <2>1, <2>2, FollowingLess
  <2>4. QED
    BY <1>1, <1>4, <2>2, <2>3 DEF Commit, Publish, Execute
<1>5. CASE PostWebhook(j)
  <2>1. at[j] = "webhook" /\ at[j] \in OwnSteps(j) \ {"starting", "leaving"}
    BY <1>5 DEF PostWebhook
  <2>2. PICK s \in Follows(j)[at[j]] \cup {"rollback"} : at' = [at EXCEPT ![j] = s]
    BY <1>5 DEF PostWebhook
  <2>3. StepsLeft[s] < StepsLeft[at[j]]
    BY <2>1, <2>2, FollowingLess
  <2>4. QED
    BY <1>1, <1>5, <2>2, <2>3 DEF PostWebhook
<1>6. CASE CommitUnknown(j) \/ QueryFails(j)
  BY <1>1, <1>6 DEF CommitUnknown, QueryFails, Queries
<1>7. CASE Rollback(j) \/ RollbackFails(j) \/ Leave(j)
  BY <1>1, <1>7 DEF Rollback, RollbackFails, Leave
<1>8. QED
  BY <1>2, <1>3, <1>4, <1>5, <1>6, <1>7 DEF Run

\* Counted twice, the steps left outweigh the connection.
LEMMA Outweighs ==
  ASSUME NEW j \in Jobs, at[j] \in Steps, at'[j] \in Steps,
         StepsLeft[at'[j]] < StepsLeft[at[j]]
  PROVE  Work(j)' < Work(j)
<1>1. ASSUME NEW a \in 0 .. 10, NEW b \in 0 .. 10, b < a,
             NEW x \in {0, 1}, NEW y \in {0, 1}
      PROVE  2 * b - y < 2 * a - x
  BY <1>1
<1>2. StepsLeft[at[j]] \in 0 .. 10 /\ StepsLeft[at'[j]] \in 0 .. 10
  BY Counts
<1>3. QED
  BY <1>1, <1>2 DEF Work

\* A job, POST, GET or message, takes a bounded number of steps: nothing of it is
\* repeated, whatever fails.
THEOREM JobsTakeBoundedWork == Spec => JobsGoOn
<1>1. ScopeInv /\ [Next]_vars => [JobGoesOn]_vars
  <2> SUFFICES ASSUME ScopeInv, Next PROVE JobGoesOn
    OBVIOUS
  <2> USE Counts DEF ScopeInv, TypeOK
  <2>1. ASSUME NEW j \in Jobs, Resolve(j) \/ Run(j) \/ QueryFails(j) PROVE JobGoesOn
    <3>1. Work(j)' < Work(j)
      <4>1. CASE StepsLeft[at'[j]] < StepsLeft[at[j]]
        BY <2>1, <4>1, JobAdvances, Outweighs
      <4>2. CASE at'[j] = at[j] /\ session[j] = "idle" /\ session'[j] = "open"
        BY <4>2 DEF Work
      <4>3. QED
        BY <2>1, <4>1, <4>2, JobAdvances
    <3>2. \A i \in Jobs : i # j => at'[i] = at[i] /\ session'[i] = session[i]
      BY <2>1, JobAdvances
    <3>3. QED
      BY <3>1, <3>2 DEF JobGoesOn
  <2>2. ASSUME NEW jobs \in SUBSET Jobs, Lost(jobs) PROVE JobGoesOn
    <3> SUFFICES ASSUME NEW j \in jobs
                 PROVE  \/ at'[j] = at[j] /\ session'[j] = session[j]
                        \/ Work(j)' < Work(j)
      BY <2>2 DEF Lost, JobGoesOn
    <3>1. CASE at[j] \in {"new", "done"}
      BY <2>2, <3>1 DEF Lost, JobOK
    <3>2. CASE at[j] \notin {"new", "done"}
      <4>1. at'[j] = "done" /\ session'[j] = "closed"
        BY <2>2, <3>2 DEF Lost
      <4>2. QED
        BY <3>2, <4>1, Outweighs DEF Steps, StepsLeft, Queries, Waits
    <3>3. QED
      BY <3>1, <3>2
  <2>3. CASE CrashApi \/ CrashConsumer
    BY <2>2, <2>3 DEF CrashApi, CrashConsumer, Jobs
  <2>4. QED
    BY <2>1, <2>3 DEF Next
<1>2. QED
  BY <1>1, ScopeInvariance, PTL DEF Spec, JobsGoOn

=============================================================================
