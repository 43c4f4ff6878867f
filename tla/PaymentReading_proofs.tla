------------------------- MODULE PaymentReading_proofs -------------------------
(***************************************************************************)
(* Proofs about PaymentReading for any payments and clients, with nothing  *)
(* assumed of the rest of the service but PaymentLifecycle.                *)
(***************************************************************************)
EXTENDS PaymentReading, TLAPS

Values == {NoRow, PendingRow} \cup Outcomes

\* What the lifecycle keeps: webhooks told the decision, if anything.
Promise(p) == /\ payment[p] \in Values
              /\ told[p] # {} => payment[p] \in Outcomes /\ told[p] = {payment[p]}

\* A row that the GET of c loaded is one of the payment's past: its decision, if
\* it has one, is the stored one, and it has one if the client was told or has
\* read it before.
LoadedOK(c) ==
  LET g == get[c] IN
  /\ g.loaded \in Values
  /\ g.loaded \in Outcomes => g.loaded = payment[g.id]
  /\ g.heard # {} \/ read[c][g.id] \in Outcomes => g.loaded = payment[g.id]

GetOK(c) ==
  /\ get[c].at # "idle" \/ get[c].code = "ok" => get[c].id \in Payments
  /\ get[c].at # "idle" => get[c].code = "none"
  /\ get[c].id \in Payments /\ get[c].heard # {} =>
       payment[get[c].id] \in Outcomes /\ get[c].heard = {payment[get[c].id]}
  /\ get[c].at = "responding" => LoadedOK(c)
  /\ get[c].code = "ok" => LoadedOK(c) /\ get[c].loaded # NoRow

ReadOK(c, p) == /\ read[c][p] \in Values
                /\ read[c][p] \in Outcomes => payment[p] = read[c][p]

GInv == /\ TypeOK
        /\ \A p \in Payments : Promise(p)
        /\ \A c \in Clients : GetOK(c)
        /\ \A c \in Clients, p \in Payments : ReadOK(c, p)

-----------------------------------------------------------------------------

LEMMA ValueFacts == /\ Values \subseteq Rows
                    /\ NoRow \notin Outcomes /\ PendingRow \notin Outcomes
                    /\ NoRow # PendingRow
                    /\ \A v \in Values : Decided(v) <=> v \in Outcomes
<1> USE DEF Rows, Statuses, Errors, NoError, NoRow, PendingRow
<1>1. ASSUME NEW o \in Outcomes PROVE o \in Rows /\ o.status \in {"succeeded", "failed"}
  <2>1. CASE o = [status |-> "succeeded", error |-> NoError]
    BY <2>1
  <2>2. CASE o \in [status : {"failed"}, error : Errors]
    BY <2>2
  <2>3. QED
    BY <2>1, <2>2 DEF Outcomes
<1>2. /\ NoRow \in Rows /\ PendingRow \in Rows /\ NoRow # PendingRow
      /\ NoRow.status = "none" /\ PendingRow.status = "pending"
  OBVIOUS
<1>3. QED
  BY <1>1, <1>2 DEF Values, Decided

LEMMA InitGInv == Init => GInv
<1> SUFFICES ASSUME Init PROVE GInv
  OBVIOUS
<1> USE ValueFacts, ReadingAssumption DEF Init, Lifecycle!Init
<1>0. NoRow = Lifecycle!NoRow
  BY DEF NoRow, Lifecycle!NoRow, NoError, Lifecycle!NoError
<1>1. TypeOK
  BY <1>0 DEF TypeOK, Ended, Gets, Steps, Codes, Values
<1>2. \A p \in Payments : Promise(p)
  BY <1>0 DEF Promise, Values
<1>3. \A c \in Clients : GetOK(c)
  BY DEF GetOK, Ended
<1>4. \A c \in Clients, p \in Payments : ReadOK(c, p)
  BY DEF ReadOK, Values
<1>5. QED
  BY <1>1, <1>2, <1>3, <1>4 DEF GInv

\* What a step of the rest of the service does: nothing that was decided or told
\* is altered, and nothing but the decision is told.
LEMMA ServeKeeps ==
  ASSUME GInv, Serve
  PROVE  /\ payment' \in [Payments -> Rows] /\ told' \in [Payments -> SUBSET Outcomes]
         /\ \A p \in Payments : Promise(p)'
         /\ \A p \in Payments : payment[p] \in Outcomes => payment'[p] = payment[p]
<1> USE ValueFacts DEF GInv, TypeOK, Promise, Values, Serve
<1>0. /\ NoRow = Lifecycle!NoRow /\ PendingRow = Lifecycle!PendingRow
      /\ Outcomes = Lifecycle!Outcomes
  BY DEF NoRow, Lifecycle!NoRow, NoError, Lifecycle!NoError, PendingRow,
         Lifecycle!PendingRow, Outcomes, Lifecycle!Outcomes, Errors, Lifecycle!Errors
<1>1. PICK q \in Payments : Lifecycle!Create(q) \/ Lifecycle!Decide(q) \/ Lifecycle!Tell(q)
  BY DEF Lifecycle!Next
<1>2. CASE Lifecycle!Create(q)
  BY <1>0, <1>2 DEF Lifecycle!Create
<1>3. CASE Lifecycle!Decide(q)
  BY <1>0, <1>3 DEF Lifecycle!Decide
<1>4. CASE Lifecycle!Tell(q)
  BY <1>0, <1>4 DEF Lifecycle!Tell
<1>5. QED
  BY <1>1, <1>2, <1>3, <1>4

LEMMA StepServe == ASSUME GInv, Serve PROVE GInv'
<1> USE ValueFacts, ServeKeeps DEF GInv
<1>1. UNCHANGED <<breaker, get, read>>
  BY DEF Serve
<1>2. TypeOK'
  BY <1>1 DEF TypeOK
<1>3. \A c \in Clients, p \in Payments : ReadOK(c, p)'
  BY <1>1 DEF ReadOK
<1>4. ASSUME NEW c \in Clients PROVE GetOK(c)'
  <2>1. ASSUME LoadedOK(c), get[c].id \in Payments PROVE LoadedOK(c)'
    BY <1>1, <2>1 DEF LoadedOK, GetOK, ReadOK
  <2>2. QED
    BY <1>1, <2>1 DEF GetOK
<1>5. QED
  BY <1>2, <1>3, <1>4

\* A step of the GET of one client.
LEMMA StepGet ==
  ASSUME GInv, NEW c \in Clients, NEW g \in Gets,
         get' = [get EXCEPT ![c] = g], UNCHANGED <<payment, told>>,
         breaker' \in {"closed", "open"},
         read' \in [Clients -> [Payments -> Rows]],
         \A d \in Clients : d # c => read'[d] = read[d],
         g.code = "ok" => g.loaded \in {PendingRow} \cup Outcomes,
         GetOK(c)', \A p \in Payments : ReadOK(c, p)'
  PROVE  GInv'
<1>1. TypeOK'
  BY DEF GInv, TypeOK
<1>2. \A p \in Payments : Promise(p)'
  BY DEF GInv, Promise
<1>3. \A d \in Clients : GetOK(d)'
  BY DEF GInv, TypeOK, GetOK, LoadedOK
<1>4. \A d \in Clients, p \in Payments : ReadOK(d, p)'
  BY DEF GInv, ReadOK
<1>5. QED
  BY <1>1, <1>2, <1>3, <1>4 DEF GInv

\* A GET that ends without a payment.
LEMMA StepWithout ==
  ASSUME GInv, NEW c \in Clients, NEW code \in Codes \ {"ok"}, Finish(c, code),
         breaker' \in {"closed", "open"}, UNCHANGED <<payment, told, read>>
  PROVE  GInv'
<1>1. /\ Ended(code) \in Gets /\ get' = [get EXCEPT ![c] = Ended(code)]
      /\ Ended(code).at = "idle" /\ Ended(code).code # "ok" /\ Ended(code).id = NoPayment
  BY ValueFacts DEF Finish, Ended, Gets, Steps, Values
<1>2. GetOK(c)'
  BY <1>1, ReadingAssumption DEF GInv, TypeOK, GetOK
<1>3. \A p \in Payments : ReadOK(c, p)'
  BY DEF GInv, ReadOK
<1>4. QED
  BY <1>1, <1>2, <1>3, StepGet DEF GInv, TypeOK

LEMMA StepAsk == ASSUME GInv, NEW c \in Clients, NEW p \in Payments, Ask(c, p) PROVE GInv'
<1> USE ValueFacts DEF GInv, TypeOK
<1>1. CASE Finish(c, "rejected")
  BY <1>1, StepWithout DEF Ask, Codes
<1>2. CASE get' = [get EXCEPT ![c] = NewGet(p)]
  <2>1. /\ NewGet(p) \in Gets /\ NewGet(p).id = p /\ NewGet(p).heard = told[p]
        /\ NewGet(p).code = "none" /\ NewGet(p).at = "checking"
    BY DEF NewGet, Gets, Steps, Codes, Values
  <2>2. told[p] # {} => payment[p] \in Outcomes /\ told[p] = {payment[p]}
    BY DEF Promise
  <2>3. GetOK(c)'
    BY <1>2, <2>1, <2>2 DEF GetOK, Ask
  <2>4. \A q \in Payments : ReadOK(c, q)'
    BY DEF ReadOK, Ask
  <2>5. QED
    BY <1>2, <2>1, <2>3, <2>4, StepGet DEF Ask
<1>3. QED
  BY <1>1, <1>2 DEF Ask

LEMMA StepCheckKey == ASSUME GInv, NEW c \in Clients, CheckKey(c) PROVE GInv'
<1>1. CASE Finish(c, "unauthorized")
  BY <1>1, StepWithout DEF CheckKey, Codes, GInv, TypeOK
<1>2. CASE get' = [get EXCEPT ![c].at = "loading"]
  <2> DEFINE g == [get[c] EXCEPT !.at = "loading"]
  <2>1. g \in Gets /\ get' = [get EXCEPT ![c] = g] /\ g.code = "none"
    BY <1>2 DEF CheckKey, GInv, TypeOK, Gets, Steps, GetOK
  <2>2. GetOK(c)'
    BY <2>1 DEF CheckKey, GInv, TypeOK, GetOK, Gets
  <2>3. \A p \in Payments : ReadOK(c, p)'
    BY DEF CheckKey, GInv, ReadOK
  <2>4. QED
    BY <2>1, <2>2, <2>3, StepGet DEF CheckKey, GInv, TypeOK
<1>3. QED
  BY <1>1, <1>2 DEF CheckKey

LEMMA StepRaise == ASSUME GInv, NEW c \in Clients, Raise(c) PROVE GInv'
  BY StepWithout DEF Raise, Codes, GInv, TypeOK

LEMMA StepLoad == ASSUME GInv, NEW c \in Clients, Load(c) PROVE GInv'
<1> USE ValueFacts DEF GInv, TypeOK, Load, Loads
<1> DEFINE p == get[c].id
           g == [get[c] EXCEPT !.at = "responding", !.loaded = payment[p]]
<1>1. p \in Payments /\ payment[p] \in Values /\ get[c].code = "none"
  BY DEF GetOK, Promise
<1>2. /\ g \in Gets /\ get' = [get EXCEPT ![c] = g]
      /\ g.id = p /\ g.loaded = payment[p] /\ g.heard = get[c].heard
      /\ g.code = "none" /\ g.at = "responding"
  BY <1>1 DEF Gets, Steps
<1>3. LoadedOK(c)'
  BY <1>1, <1>2 DEF LoadedOK
<1>4. GetOK(c)'
  BY <1>1, <1>2, <1>3 DEF GetOK
<1>5. \A q \in Payments : ReadOK(c, q)'
  BY DEF ReadOK
<1>6. QED
  BY <1>2, <1>4, <1>5, StepGet

\* The answer: what was loaded when the client may have read a decision before
\* is that decision.
LEMMA StepRespond == ASSUME GInv, NEW c \in Clients, Respond(c) PROVE GInv'
<1> DEFINE p == get[c].id
           r == get[c].loaded
<1>1. p \in Payments /\ LoadedOK(c) /\ get[c].at = "responding"
  BY DEF Respond, GInv, GetOK
<1>2. CASE Raise(c)
  BY <1>2, StepRaise
<1>3. CASE Finish(c, "unprocessable") /\ UNCHANGED <<payment, told, breaker, read>>
  BY <1>3, StepWithout DEF Codes, GInv, TypeOK
<1>4. CASE /\ r # NoRow /\ Answer(c)
           /\ read' = [read EXCEPT ![c][p] = r] /\ UNCHANGED <<payment, told, breaker>>
  <2> USE ValueFacts DEF GInv, TypeOK
  <2> DEFINE g == [get[c] EXCEPT !.at = "idle", !.code = "ok"]
  <2>1. /\ g \in Gets /\ get' = [get EXCEPT ![c] = g]
        /\ g.id = p /\ g.loaded = r /\ g.heard = get[c].heard
        /\ g.code = "ok" /\ g.at = "idle"
    BY <1>4 DEF Answer, Gets, Steps, Codes
  <2>2. r \in {PendingRow} \cup Outcomes /\ r \in Rows
    BY <1>1, <1>4 DEF LoadedOK, Values
  <2>3. /\ read' \in [Clients -> [Payments -> Rows]]
        /\ \A d \in Clients : d # c => read'[d] = read[d]
        /\ read'[c][p] = r
        /\ \A q \in Payments : q # p => read'[c][q] = read[c][q]
    BY <1>1, <1>4, <2>2
  <2>4. LoadedOK(c)'
    BY <1>1, <1>4, <2>1, <2>3 DEF LoadedOK
  <2>5. GetOK(c)'
    BY <1>1, <1>4, <2>1, <2>4 DEF GetOK
  <2>6. \A q \in Payments : ReadOK(c, q)'
    BY <1>1, <1>4, <2>3 DEF ReadOK, LoadedOK
  <2>7. QED
    BY <1>4, <2>1, <2>2, <2>3, <2>5, <2>6, StepGet
<1>5. QED
  BY <1>2, <1>3, <1>4 DEF Respond

LEMMA NextGInv == GInv /\ [Next]_vars => GInv'
<1> SUFFICES ASSUME GInv, [Next]_vars PROVE GInv'
  OBVIOUS
<1>1. CASE BreakerCloses \/ UNCHANGED vars
  BY <1>1 DEF BreakerCloses, vars, GInv, TypeOK, Promise, GetOK, LoadedOK, ReadOK
<1>2. ASSUME NEW c \in Clients, LoadFails(c) PROVE GInv'
  BY <1>2, StepRaise DEF LoadFails
<1>3. ASSUME NEW c \in Clients, Crash(c) PROVE GInv'
  BY <1>3, StepWithout DEF Crash, Codes, GInv, TypeOK
<1>4. QED
  BY <1>1, <1>2, <1>3, StepServe, StepAsk, StepCheckKey, StepLoad, StepRespond DEF Next

LEMMA Invariance == Spec => []GInv
  BY InitGInv, NextGInv, PTL DEF Spec

-----------------------------------------------------------------------------

\* Every state is one the types allow; a 200 response shows a real payment.
THEOREM TypeCorrect == Spec => []TypeOK
<1>1. GInv => TypeOK
  BY DEF GInv
<1>2. QED
  BY <1>1, Invariance, PTL

\* A GET that begins after the webhook is answered with what the webhook told.
THEOREM ToldBeforeRead == Spec => []ToldIsRead
<1>1. GInv => ToldIsRead
  BY DEF GInv, GetOK, LoadedOK, ToldIsRead
<1>2. QED
  BY <1>1, Invariance, PTL

\* A decision that a client has read is the stored one, and no other is told.
THEOREM ReadDecisionsStored == Spec => []ReadIsStored
<1>1. GInv => ReadIsStored
  BY ValueFacts DEF GInv, ReadOK, Promise, ReadIsStored
<1>2. QED
  BY <1>1, Invariance, PTL

\* A client that has read a decision is never answered anything else.
THEOREM ReadsAreMonotonic == Spec => ReadsNeverGoBack
<1>1. ASSUME GInv, [Next]_vars, NEW c \in Clients, NEW p \in Payments, Decided(read[c][p])
      PROVE  read'[c][p] = read[c][p]
  <2>1. read[c][p] \in Outcomes /\ payment[p] = read[c][p]
    BY <1>1, ValueFacts DEF GInv, ReadOK
  <2>2. ASSUME NEW d \in Clients, Respond(d) PROVE read'[c][p] = read[c][p]
    <3>1. CASE UNCHANGED read
      BY <3>1
    <3>2. CASE /\ get[d].at = "responding"
               /\ read' = [read EXCEPT ![d][get[d].id] = get[d].loaded]
      <4>1. CASE d = c /\ get[d].id = p
        BY <1>1, <2>1, <3>2, <4>1 DEF GInv, TypeOK, GetOK, LoadedOK
      <4>2. CASE ~(d = c /\ get[d].id = p)
        BY <1>1, <3>2, <4>2 DEF GInv, TypeOK
      <4>3. QED
        BY <4>1, <4>2
    <3>3. QED
      BY <2>2, <3>1, <3>2 DEF Respond, Raise
  <2>3. QED
    BY <1>1, <2>2 DEF Next, vars, Serve, BreakerCloses, Ask, CheckKey, Load, Loads,
                      LoadFails, Raise, Crash
<1>2. GInv /\ [Next]_vars =>
        [\A c \in Clients, p \in Payments : Decided(read[c][p]) => read'[c][p] = read[c][p]]_vars
  BY <1>1
<1>3. QED
  BY <1>2, Invariance, PTL DEF Spec, ReadsNeverGoBack

=============================================================================
