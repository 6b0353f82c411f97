------------------------- MODULE AlertServiceProofs -------------------------
(***************************************************************************)
(* Theorems about AlertService, for any sets of rows, handlers, sweeps and *)
(* admins and any bounds.  What a step can do to the alerts table is one   *)
(* of four things (TableStep); the properties of the table follow from     *)
(* that alone.  AtMostOneActive, which concurrent sessions violate, is     *)
(* proved for sessions that run one after another.                         *)
(***************************************************************************)
EXTENDS AlertService, SequenceTheorems, FiniteSetTheorems, TLAPS

Steps == {"idle", "page", "read", "resolve", "escalate", "create", "react"}

-----------------------------------------------------------------------------
(* The type invariant in parts *)

DatabaseOK ==
    /\ quantity \in [Rows -> 0 .. MaxStock]
    /\ threshold \in [Rows -> Nat \cup {NoThreshold}]
    /\ heap \in Orders

TableOK ==
    /\ alerts \in Seq(Alert)
    /\ outbox \subseteq [alert : DOMAIN alerts, type : {"LOW_STOCK", "OUT_OF_STOCK"}]
    /\ asking \in [Admins -> {0} \cup DOMAIN alerts]
    /\ confirmed \in Seq(DOMAIN alerts)

\* One session: it has objects to evaluate unless it is between two pages, and
\* an alert exactly where it is about to write or announce one.
SessionOK(a) ==
    /\ step[a] \in {"idle", "page"} <=> todo[a] = << >>
    /\ step[a] \in {"resolve", "escalate", "react"} <=> target[a] # 0
    /\ target[a] \in {0} \cup DOMAIN alerts

SessionsOK ==
    /\ step \in [Actors -> Steps]
    /\ todo \in [Actors -> Seq(InventoryObject)]
    /\ target \in [Actors -> Nat]
    /\ \A a \in Actors : SessionOK(a)

SweepsOK ==
    /\ skip \in [Sweepers -> Nat]
    /\ batch \in [Sweepers -> SUBSET InventoryObject]
    /\ visited \in [Sweepers -> SUBSET Rows]

\* TypeOK is the conjunction of its parts, before and after a step.
LEMMA Parts ==
    /\ TypeOK <=> DatabaseOK /\ TableOK /\ SessionsOK /\ SweepsOK
    /\ TypeOK' <=> DatabaseOK' /\ TableOK' /\ SessionsOK' /\ SweepsOK'
BY DEF TypeOK, DatabaseOK, TableOK, SessionsOK, SessionOK, SweepsOK, Steps

-----------------------------------------------------------------------------
(* Data *)

\* Replacing one element of a sequence (what an UPDATE by id does).
LEMMA Update ==
    ASSUME NEW S, NEW s \in Seq(S), NEW i \in DOMAIN s, NEW e \in S
    PROVE  /\ [s EXCEPT ![i] = e] \in Seq(S)
           /\ DOMAIN [s EXCEPT ![i] = e] = DOMAIN s
           /\ \A j \in DOMAIN s : [s EXCEPT ![i] = e][j] = IF j = i THEN e ELSE s[j]
BY ExceptSeq

\* Adding an element to a sequence (what an INSERT does).
LEMMA Insert ==
    ASSUME NEW S, NEW s \in Seq(S), NEW e \in S
    PROVE  /\ Append(s, e) \in Seq(S)
           /\ Len(Append(s, e)) \in DOMAIN Append(s, e)
           /\ Len(Append(s, e)) # 0
           /\ DOMAIN Append(s, e) = DOMAIN s \cup {Len(s) + 1}
           /\ \A j \in DOMAIN s : Append(s, e)[j] = s[j]
           /\ Append(s, e)[Len(s) + 1] = e
BY AppendProperties

\* Ids start at 1: no position of a sequence is 0.
LEMMA NoZero ==
    ASSUME NEW S, NEW s \in Seq(S)
    PROVE  0 \notin DOMAIN s /\ DOMAIN s \subseteq Nat
OBVIOUS

\* The limit an evaluation compares with is a number.
LEMMA LimitType ==
    ASSUME NEW t \in Nat \cup {NoThreshold}
    PROVE  Limit(t) \in Nat
BY ThresholdAssumption DEF Limit

\* A row's values load into an Inventory object.
LEMMA LoadedType ==
    ASSUME DatabaseOK, NEW r \in Rows, NEW q \in 0 .. MaxStock
    PROVE  Loaded(r, q) \in InventoryObject /\ Loaded(r, q).row = r
<1>1. Limit(threshold[r]) \in Nat
  BY LimitType DEF DatabaseOK
<1>2. QED
  BY <1>1 DEF Loaded, InventoryObject

\* The alert of an object is an active alert of its row.
LEMMA NewAlertType ==
    ASSUME NEW inv \in InventoryObject
    PROVE  /\ NewAlert(inv) \in Alert
           /\ NewAlert(inv).row = inv.row
           /\ NewAlert(inv).type = AlertType(NewAlert(inv).trigger)
BY DEF NewAlert, Alert, InventoryObject, AlertType

\* An escalation keeps an alert's row and status, and makes its type and its
\* quantity agree.
LEMMA EscalatedType ==
    ASSUME NEW alert \in Alert, NEW inv \in InventoryObject
    PROVE  /\ Escalated(alert, inv) \in Alert
           /\ Escalated(alert, inv).row = alert.row
           /\ Escalated(alert, inv).status = alert.status
           /\ Escalated(alert, inv).type = AlertType(Escalated(alert, inv).trigger)
BY DEF Escalated, Alert, InventoryObject, AlertType

Resolved(alert) == [alert EXCEPT !.status = "RESOLVED"]

\* A resolution changes nothing but the status.
LEMMA ResolvedType ==
    ASSUME NEW alert \in Alert
    PROVE  /\ Resolved(alert) \in Alert
           /\ Resolved(alert).row = alert.row
           /\ Resolved(alert).status = "RESOLVED"
           /\ Resolved(alert).type = alert.type
           /\ Resolved(alert).trigger = alert.trigger
BY DEF Alert, Resolved

-----------------------------------------------------------------------------
(* What a step can do to the alerts table *)

Resolves(i) == alerts' = [alerts EXCEPT ![i].status = "RESOLVED"]

Escalates(i, inv) == alerts' = [alerts EXCEPT ![i] = Escalated(@, inv)]

Creates(inv) == alerts' = Append(alerts, NewAlert(inv))

NoCreation ==
    \/ alerts' = alerts
    \/ \E i \in DOMAIN alerts : Resolves(i)
    \/ \E i \in DOMAIN alerts, inv \in InventoryObject : Escalates(i, inv)

TableStep == NoCreation \/ \E inv \in InventoryObject : Creates(inv)

\* The alerts after a resolution.
LEMMA AfterResolve ==
    ASSUME alerts \in Seq(Alert), NEW i \in DOMAIN alerts, Resolves(i)
    PROVE  /\ alerts' \in Seq(Alert)
           /\ DOMAIN alerts' = DOMAIN alerts
           /\ \A j \in DOMAIN alerts :
                 alerts'[j] = IF j = i THEN Resolved(alerts[i]) ELSE alerts[j]
<1>1. Resolved(alerts[i]) \in Alert
  BY ResolvedType
<1>2. alerts' = [alerts EXCEPT ![i] = Resolved(alerts[i])]
  BY DEF Resolves, Resolved
<1>3. QED
  BY <1>1, <1>2, Update

\* The alerts after an escalation.
LEMMA AfterEscalate ==
    ASSUME alerts \in Seq(Alert), NEW i \in DOMAIN alerts,
           NEW inv \in InventoryObject, Escalates(i, inv)
    PROVE  /\ alerts' \in Seq(Alert)
           /\ DOMAIN alerts' = DOMAIN alerts
           /\ \A j \in DOMAIN alerts :
                 alerts'[j] = IF j = i THEN Escalated(alerts[i], inv) ELSE alerts[j]
<1>1. Escalated(alerts[i], inv) \in Alert
  BY EscalatedType
<1>2. alerts' = [alerts EXCEPT ![i] = Escalated(alerts[i], inv)]
  BY DEF Escalates
<1>3. QED
  BY <1>1, <1>2, Update

\* The alerts after a creation.
LEMMA AfterCreate ==
    ASSUME alerts \in Seq(Alert), NEW inv \in InventoryObject, Creates(inv)
    PROVE  /\ alerts' \in Seq(Alert)
           /\ DOMAIN alerts' = DOMAIN alerts \cup {Len(alerts) + 1}
           /\ \A j \in DOMAIN alerts : alerts'[j] = alerts[j]
           /\ alerts'[Len(alerts) + 1] = NewAlert(inv)
           /\ Len(alerts') \in DOMAIN alerts' /\ Len(alerts') # 0
BY NewAlertType, Insert DEF Creates

\* However the table changes, it stays a table and keeps every id.
LEMMA TableGrows ==
    ASSUME alerts \in Seq(Alert), TableStep
    PROVE  alerts' \in Seq(Alert) /\ DOMAIN alerts \subseteq DOMAIN alerts'
<1>1. CASE alerts' = alerts
  BY <1>1
<1>2. CASE \E i \in DOMAIN alerts : Resolves(i)
  BY <1>2, AfterResolve
<1>3. CASE \E i \in DOMAIN alerts, inv \in InventoryObject : Escalates(i, inv)
  BY <1>3, AfterEscalate
<1>4. CASE \E inv \in InventoryObject : Creates(inv)
  BY <1>4, AfterCreate
<1>5. QED
  BY <1>1, <1>2, <1>3, <1>4 DEF TableStep, NoCreation

\* An evaluating session has a current object, and an alert where it needs one.
LEMMA Current ==
    ASSUME TypeOK, NEW a \in Actors,
           step[a] \in {"read", "resolve", "escalate", "create", "react"}
    PROVE  /\ todo[a] \in Seq(InventoryObject) /\ todo[a] # << >>
           /\ Head(todo[a]) \in InventoryObject
           /\ step[a] \in {"resolve", "escalate", "react"} => target[a] \in DOMAIN alerts
<1>1. todo[a] \in Seq(InventoryObject) /\ todo[a] # << >>
  BY DEF TypeOK
<1>2. step[a] \in {"resolve", "escalate", "react"} => target[a] \in DOMAIN alerts
  BY DEF TypeOK
<1>3. QED
  BY <1>1, <1>2, HeadTailProperties

\* Every step creates one alert, for the current object of a session that is
\* about to, or none.
LEMMA CreatesOrNot ==
    ASSUME TypeOK, [Next]_vars
    PROVE  NoCreation \/ \E a \in Actors : Create(a)
<1>1. CASE alerts' = alerts
  BY <1>1 DEF NoCreation
<1>2. ASSUME NEW a \in Actors, Resolve(a)
      PROVE  NoCreation
  <2>1. target[a] \in DOMAIN alerts
    BY <1>2, Current DEF Resolve
  <2>2. QED
    BY <1>2, <2>1 DEF Resolve, Resolves, NoCreation
<1>3. ASSUME NEW a \in Actors, Escalate(a)
      PROVE  NoCreation
  <2>1. target[a] \in DOMAIN alerts /\ Head(todo[a]) \in InventoryObject
    BY <1>3, Current DEF Escalate
  <2>2. QED
    BY <1>3, <2>1 DEF Escalate, Escalates, NoCreation
<1>4. ASSUME NEW d \in Admins, Confirm(d)
      PROVE  NoCreation
  <2>1. asking[d] \in DOMAIN alerts
    BY <1>4 DEF Confirm, TypeOK
  <2>2. QED
    BY <1>4, <2>1 DEF Confirm, Resolves, NoCreation
<1>5. CASE UNCHANGED vars
  BY <1>1, <1>5 DEF vars
<1>6. CASE Next
  <2>1. \/ \E a \in Actors : Resolve(a) \/ Escalate(a) \/ Create(a)
        \/ \E d \in Admins : Confirm(d)
        \/ alerts' = alerts
    BY <1>6 DEF Next, Move, Edit, Evaluate, Read, ReadRaises, React, Crash, Sweep,
                StartSweep, FetchPage, FinishSweep, Ask, adminVars, sweepVars, dbVars
  <2>2. QED
    BY <2>1, <1>1, <1>2, <1>3, <1>4
<1>7. QED
  BY <1>5, <1>6

\* Every step of every actor is a TableStep.
LEMMA StepsOfTable ==
    ASSUME TypeOK, [Next]_vars
    PROVE  TableStep
<1>1. ASSUME NEW a \in Actors, Create(a)
      PROVE  TableStep
  <2>1. Head(todo[a]) \in InventoryObject
    BY <1>1, Current DEF Create
  <2>2. QED
    BY <1>1, <2>1 DEF Create, Creates, TableStep
<1>2. QED
  BY <1>1, CreatesOrNot DEF TableStep

-----------------------------------------------------------------------------
(* The type invariant *)

\* A well stocked warehouse without alerts is well typed.
LEMMA InitTypes == Init => TypeOK
<1> SUFFICES ASSUME Init PROVE TypeOK
  OBVIOUS
<1>1. DatabaseOK
  BY BoundsAssumption DEF Init, DatabaseOK
<1>2. TableOK
  BY DEF Init, TableOK
<1>3. SessionsOK
  BY DEF Init, SessionsOK, SessionOK, Steps
<1>4. SweepsOK
  BY DEF Init, SweepsOK
<1>5. QED
  BY <1>1, <1>2, <1>3, <1>4, Parts

\* Movements and edits keep the stock within its bound; nothing else writes it.
LEMMA DatabaseTypes ==
    ASSUME TypeOK, [Next]_vars
    PROVE  DatabaseOK'
<1> USE BoundsAssumption
<1>0. DatabaseOK
  BY Parts
<1>1. ASSUME NEW h \in Handlers, Move(h)
      PROVE  DatabaseOK'
  <2>1. CASE \E r \in Rows, q \in 0 .. MaxStock :
                /\ quantity' = [quantity EXCEPT ![r] = q]
                /\ heap' \in Moved(heap, r)
    BY <1>0, <1>1, <2>1 DEF DatabaseOK, Move, Moved
  <2>2. CASE \E r, t \in Rows : \E n \in 1 .. quantity[r] :
                /\ quantity[t] + n <= MaxStock
                /\ quantity' = [quantity EXCEPT ![r] = @ - n, ![t] = @ + n]
                /\ \E order \in Moved(heap, r) : heap' \in Moved(order, t)
    <3>0. PICK r \in Rows, t \in Rows : \E n \in 1 .. quantity[r] :
                /\ quantity[t] + n <= MaxStock
                /\ quantity' = [quantity EXCEPT ![r] = @ - n, ![t] = @ + n]
                /\ \E order \in Moved(heap, r) : heap' \in Moved(order, t)
      BY <2>2
    <3>1. PICK n \in 1 .. quantity[r] :
                /\ quantity[t] + n <= MaxStock
                /\ quantity' = [quantity EXCEPT ![r] = @ - n, ![t] = @ + n]
                /\ \E order \in Moved(heap, r) : heap' \in Moved(order, t)
      BY <3>0
    <3>2. quantity[r] \in 0 .. MaxStock /\ quantity[t] \in 0 .. MaxStock
      BY <1>0 DEF DatabaseOK
    <3>3. quantity[r] - n \in 0 .. MaxStock /\ quantity[t] + n \in 0 .. MaxStock
      BY <3>1, <3>2
    <3>4. quantity' \in [Rows -> 0 .. MaxStock]
      BY <1>0, <3>1, <3>2, <3>3 DEF DatabaseOK
    <3>5. heap' \in Orders
      BY <3>1 DEF Moved
    <3>6. QED
      BY <1>0, <1>1, <3>4, <3>5 DEF DatabaseOK, Move
  <2>3. QED
    BY <1>1, <2>1, <2>2 DEF Move
<1>2. ASSUME NEW r \in Rows, Edit(r)
      PROVE  DatabaseOK'
  <2>1. heap' \in Orders
    BY <1>2 DEF Edit, Moved
  <2>2. quantity' \in [Rows -> 0 .. MaxStock]
    BY <1>0, <1>2 DEF Edit, DatabaseOK
  <2>3. threshold' \in [Rows -> Nat \cup {NoThreshold}]
    BY <1>0, <1>2, ThresholdAssumption DEF Edit, DatabaseOK
  <2>4. QED
    BY <2>1, <2>2, <2>3 DEF DatabaseOK
<1>3. CASE UNCHANGED dbVars
  BY <1>0, <1>3 DEF DatabaseOK, dbVars
<1>4. CASE UNCHANGED vars
  BY <1>3, <1>4 DEF vars, dbVars
<1>5. CASE Next
  BY <1>1, <1>2, <1>3, <1>5
     DEF Next, Evaluate, Read, ReadRaises, Resolve, Escalate, Create, React, Crash, Sweep,
         StartSweep, FetchPage, FinishSweep, Ask, Confirm
<1>6. QED
  BY <1>4, <1>5

\* Emails, questions and answers name alerts that exist.
LEMMA TableTypes ==
    ASSUME TypeOK, [Next]_vars
    PROVE  TableOK'
<1>0. TableOK
  BY Parts
<1>1. alerts' \in Seq(Alert) /\ DOMAIN alerts \subseteq DOMAIN alerts'
  BY <1>0, StepsOfTable, TableGrows DEF TableOK
<1>2. CASE UNCHANGED <<outbox, asking, confirmed>>
  <2>1. confirmed' \in Seq(DOMAIN alerts')
    BY <1>0, <1>1, <1>2 DEF TableOK
  <2>2. outbox' \subseteq [alert : DOMAIN alerts', type : {"LOW_STOCK", "OUT_OF_STOCK"}]
    BY <1>0, <1>1, <1>2 DEF TableOK
  <2>3. asking' \in [Admins -> {0} \cup DOMAIN alerts']
    BY <1>0, <1>1, <1>2 DEF TableOK
  <2>4. QED
    BY <1>1, <2>1, <2>2, <2>3 DEF TableOK
<1>3. ASSUME NEW a \in Actors, React(a)
      PROVE  TableOK'
  <2>1. target[a] \in DOMAIN alerts
    BY <1>3, Current DEF React
  <2>2. alerts[target[a]].type \in {"LOW_STOCK", "OUT_OF_STOCK"}
    <3>1. alerts[target[a]] \in Alert
      BY <1>0, <2>1 DEF TableOK
    <3>2. QED
      BY <3>1 DEF Alert
  <2>3. Email(a) \subseteq [alert : DOMAIN alerts, type : {"LOW_STOCK", "OUT_OF_STOCK"}]
    BY <2>1, <2>2 DEF Email
  <2>4. QED
    BY <1>0, <1>3, <2>3 DEF React, TableOK, adminVars
<1>4. ASSUME NEW d \in Admins, Ask(d)
      PROVE  TableOK'
  BY <1>0, <1>4 DEF Ask, TableOK
<1>5. ASSUME NEW d \in Admins, Confirm(d)
      PROVE  TableOK'
  <2>1. asking[d] \in DOMAIN alerts
    BY <1>0, <1>5 DEF Confirm, TableOK
  <2>2. confirmed \in Seq(DOMAIN alerts')
    BY <1>0, <1>1 DEF TableOK
  <2>3. confirmed' \in Seq(DOMAIN alerts')
    BY <1>1, <1>5, <2>1, <2>2, AppendProperties DEF Confirm
  <2>4. asking' \in [Admins -> {0} \cup DOMAIN alerts']
    BY <1>0, <1>1, <1>5 DEF Confirm, TableOK
  <2>5. outbox' \subseteq [alert : DOMAIN alerts', type : {"LOW_STOCK", "OUT_OF_STOCK"}]
    BY <1>0, <1>1, <1>5 DEF Confirm, TableOK
  <2>6. QED
    BY <1>1, <2>3, <2>4, <2>5 DEF TableOK
<1>6. CASE UNCHANGED vars
  BY <1>2, <1>6 DEF vars
<1>7. CASE Next
  BY <1>2, <1>3, <1>4, <1>5, <1>7
     DEF Next, Move, Edit, Evaluate, Read, ReadRaises, Resolve, Escalate, Create, Crash,
         Sweep, StartSweep, FetchPage, FinishSweep, adminVars
<1>8. QED
  BY <1>6, <1>7

\* A step of one session leaves the other sessions well typed.
LEMMA SessionsStep ==
    ASSUME TypeOK, DOMAIN alerts \subseteq DOMAIN alerts', NEW a \in Actors,
           step' \in [Actors -> Steps],
           todo' \in [Actors -> Seq(InventoryObject)],
           target' \in [Actors -> Nat],
           \A b \in Actors \ {a} :
              step'[b] = step[b] /\ todo'[b] = todo[b] /\ target'[b] = target[b],
           SessionOK(a)'
    PROVE  SessionsOK'
<1>1. ASSUME NEW b \in Actors \ {a}
      PROVE  SessionOK(b)'
  BY Parts DEF SessionsOK, SessionOK
<1>2. QED
  BY <1>1 DEF SessionsOK

\* The next object, or the end of the evaluations.
LEMMA AdvanceTypes ==
    ASSUME TypeOK, DOMAIN alerts \subseteq DOMAIN alerts', NEW a \in Actors,
           todo[a] # << >>, Advance(a)
    PROVE  SessionsOK'
<1>0. SessionsOK
  BY Parts
<1>1. todo[a] \in Seq(InventoryObject)
  BY <1>0 DEF SessionsOK
<1>2. /\ Tail(todo[a]) \in Seq(InventoryObject)
      /\ Len(Tail(todo[a])) = Len(todo[a]) - 1
  BY <1>1, HeadTailProperties
<1>3. Tail(todo[a]) = << >> <=> ~(Len(todo[a]) > 1)
  <2>1. Tail(todo[a]) = << >> <=> Len(Tail(todo[a])) = 0
    BY <1>2, EmptySeq
  <2>2. Len(todo[a]) \in Nat \ {0}
    BY <1>1, EmptySeq
  <2>3. \A n \in Nat \ {0} : n - 1 = 0 <=> ~(n > 1)
    OBVIOUS
  <2>4. QED
    BY <1>2, <2>1, <2>2, <2>3, Zenon
<1>4. /\ step' \in [Actors -> Steps]
      /\ step'[a] \in {"read", "idle", "page"}
      /\ step'[a] = "read" <=> Len(todo[a]) > 1
  BY <1>0 DEF Advance, SessionsOK, Steps
<1>5. /\ todo' \in [Actors -> Seq(InventoryObject)]
      /\ todo'[a] = Tail(todo[a])
  BY <1>0, <1>2 DEF Advance, SessionsOK
<1>6. target' \in [Actors -> Nat] /\ target'[a] = 0
  BY <1>0 DEF Advance, SessionsOK
<1>7. SessionOK(a)'
  BY <1>3, <1>4, <1>5, <1>6 DEF SessionOK
<1>8. \A b \in Actors \ {a} :
         step'[b] = step[b] /\ todo'[b] = todo[b] /\ target'[b] = target[b]
  BY <1>0 DEF Advance, SessionsOK
<1>9. QED
  BY <1>4, <1>5, <1>6, <1>7, <1>8, SessionsStep

\* A session that is closed has nothing left.
LEMMA EndTypes ==
    ASSUME TypeOK, DOMAIN alerts \subseteq DOMAIN alerts', NEW a \in Actors, EndSession(a)
    PROVE  SessionsOK'
<1>0. SessionsOK
  BY Parts
<1>1. /\ step' \in [Actors -> Steps]
      /\ todo' \in [Actors -> Seq(InventoryObject)]
      /\ target' \in [Actors -> Nat]
  BY <1>0 DEF EndSession, SessionsOK, Steps
<1>2. SessionOK(a)'
  BY <1>0 DEF EndSession, SessionsOK, SessionOK
<1>3. \A b \in Actors \ {a} :
         step'[b] = step[b] /\ todo'[b] = todo[b] /\ target'[b] = target[b]
  BY <1>0 DEF EndSession, SessionsOK
<1>4. QED
  BY <1>1, <1>2, <1>3, SessionsStep

\* The rows of a sweep's page.
LEMMA PageType ==
    ASSUME TypeOK, NEW a \in Sweepers
    PROVE  Page(a) \in Seq(Rows)
<1>1. heap \in Seq(Rows)
  <2>1. Cardinality(Rows) \in Nat
    BY RowsAssumption, FS_CardinalityType
  <2>2. heap \in [1 .. Cardinality(Rows) -> Rows]
    BY DEF TypeOK, Orders
  <2>3. QED
    BY <2>1, <2>2
<1>2. skip[a] \in Nat /\ BatchSize \in Nat /\ Len(heap) \in Nat
  BY <1>1, BoundsAssumption, LenProperties DEF TypeOK
<1> DEFINE first == skip[a] + 1
           last == IF skip[a] + BatchSize < Len(heap) THEN skip[a] + BatchSize ELSE Len(heap)
<1>3. first \in Int /\ last \in Int /\ first >= 1 /\ last <= Len(heap)
  BY <1>2
<1>4. \A i \in first .. last : heap[i] \in Rows
  BY <1>1, <1>2, <1>3
<1>5. Page(a) = SubSeq(heap, first, last)
  BY DEF Page
<1>6. SubSeq(heap, first, last) \in Seq(Rows)
  <2> HIDE DEF first, last
  <2>1. QED
    BY <1>3, <1>4, SubSeqProperties
<1>7. QED
  BY <1>5, <1>6

\* The objects of a sweep's page.
LEMMA PageObjects ==
    ASSUME TypeOK, NEW a \in Sweepers, FetchPage(a)
    PROVE  /\ todo'[a] \in Seq(InventoryObject) /\ todo'[a] # << >>
           /\ batch'[a] \subseteq InventoryObject
           /\ visited'[a] \subseteq Rows
<1> DEFINE n == Len(Page(a))
           objects == [k \in 1 .. n |-> ObjectOf(a, Page(a)[k])]
<1>0. a \in Actors /\ DatabaseOK /\ SessionsOK /\ SweepsOK
  BY Parts DEF Actors
<1>1. Page(a) \in Seq(Rows) /\ Page(a) # << >>
  BY PageType DEF FetchPage
<1>2. n \in Nat \ {0}
  BY <1>1, EmptySeq
<1>3. \A k \in 1 .. n : Page(a)[k] \in Rows
  BY <1>1
<1>4. \A r \in Rows : ObjectOf(a, r) \in InventoryObject
  <2> SUFFICES ASSUME NEW r \in Rows
               PROVE  ObjectOf(a, r) \in InventoryObject
    OBVIOUS
  <2>1. batch[a] \subseteq InventoryObject /\ quantity[r] \in 0 .. MaxStock
    BY <1>0 DEF SweepsOK, DatabaseOK
  <2>2. Loaded(r, quantity[r]) \in InventoryObject
    BY <1>0, <2>1, LoadedType
  <2>3. QED
    BY <2>1, <2>2 DEF ObjectOf
<1>5. objects \in [1 .. n -> InventoryObject]
  BY <1>3, <1>4
<1>6. objects \in Seq(InventoryObject) /\ Len(objects) = n
  <2> HIDE DEF n, objects
  <2>1. QED
    BY <1>2, <1>5
<1>7. objects # << >>
  BY <1>2, <1>6, EmptySeq
<1>8. todo'[a] = objects /\ batch'[a] = {objects[k] : k \in DOMAIN objects}
  BY <1>0 DEF FetchPage, SessionsOK, SweepsOK
<1>9. batch'[a] \subseteq InventoryObject
  <2> HIDE DEF n, objects
  <2>1. QED
    BY <1>5, <1>8
<1>10. visited'[a] = visited[a] \cup {Page(a)[k] : k \in DOMAIN Page(a)}
  BY <1>0 DEF FetchPage, SweepsOK
<1>11. {Page(a)[k] : k \in DOMAIN Page(a)} \subseteq Rows
  BY <1>1
<1>12. visited[a] \subseteq Rows
  BY <1>0 DEF SweepsOK
<1>13. QED
  <2> HIDE DEF objects
  <2>1. QED
    BY <1>6, <1>7, <1>8, <1>9, <1>10, <1>11, <1>12

\* A sweep remembers its place, its page and what it has seen.
LEMMA SweepTypes ==
    ASSUME TypeOK, [Next]_vars
    PROVE  SweepsOK'
<1>0. SweepsOK
  BY Parts
<1>1. ASSUME NEW a \in Sweepers, StartSweep(a)
      PROVE  SweepsOK'
  BY <1>0, <1>1 DEF StartSweep, SweepsOK
<1>2. ASSUME NEW a \in Sweepers, FetchPage(a)
      PROVE  SweepsOK'
  <2>1. skip' \in [Sweepers -> Nat]
    BY <1>0, <1>2, BoundsAssumption DEF FetchPage, SweepsOK
  <2>2. /\ batch'[a] \subseteq InventoryObject
        /\ visited'[a] \subseteq Rows
    BY <1>2, PageObjects
  <2>3. batch' = [batch EXCEPT ![a] = batch'[a]] /\ visited' = [visited EXCEPT ![a] = visited'[a]]
    BY <1>0, <1>2 DEF FetchPage, SweepsOK
  <2>4. QED
    BY <1>0, <2>1, <2>2, <2>3 DEF SweepsOK
<1>3. CASE UNCHANGED sweepVars
  BY <1>0, <1>3 DEF SweepsOK, sweepVars
<1>4. CASE UNCHANGED vars
  BY <1>3, <1>4 DEF vars, sweepVars
<1>5. CASE Next
  BY <1>1, <1>2, <1>3, <1>5
     DEF Next, Move, Edit, Evaluate, Read, ReadRaises, Resolve, Escalate, Create, React,
         Crash, Sweep, FinishSweep, Ask, Confirm
<1>6. QED
  BY <1>4, <1>5

\* A handler that has committed has one or two objects to evaluate.
LEMMA MoveTypes ==
    ASSUME TypeOK, NEW h \in Handlers, Move(h)
    PROVE  SessionsOK'
<1>0. h \in Actors /\ DatabaseOK /\ SessionsOK
  BY Parts DEF Actors
<1> DEFINE Loads == /\ todo' = [todo EXCEPT ![h] = todo'[h]]
                    /\ todo'[h] \in Seq(InventoryObject) /\ todo'[h] # << >>
<1>1. Loads
  <2>1. ASSUME NEW r \in Rows, NEW q \in 0 .. MaxStock,
               todo' = [todo EXCEPT ![h] = <<Loaded(r, q)>>]
        PROVE  Loads
    <3>1. Loaded(r, q) \in InventoryObject
      BY <1>0, LoadedType
    <3>2. todo'[h] = <<Loaded(r, q)>>
      BY <1>0, <2>1 DEF SessionsOK
    <3>3. <<Loaded(r, q)>> \in Seq(InventoryObject) /\ <<Loaded(r, q)>> # << >>
      BY <3>1
    <3>4. QED
      BY <2>1, <3>2, <3>3
  <2>2. ASSUME NEW r \in Rows, NEW t \in Rows, NEW n \in 1 .. quantity[r],
               quantity[t] + n <= MaxStock,
               todo' = [todo EXCEPT ![h] = <<Loaded(r, quantity[r] - n),
                                              Loaded(t, quantity[t] + n)>>]
        PROVE  Loads
    <3>1. quantity[r] - n \in 0 .. MaxStock /\ quantity[t] + n \in 0 .. MaxStock
      <4>1. quantity[r] \in 0 .. MaxStock /\ quantity[t] \in 0 .. MaxStock
        BY <1>0 DEF DatabaseOK
      <4>2. QED
        BY <2>2, <4>1, BoundsAssumption
    <3> DEFINE both == <<Loaded(r, quantity[r] - n), Loaded(t, quantity[t] + n)>>
    <3>2. Loaded(r, quantity[r] - n) \in InventoryObject
      BY <1>0, <3>1, LoadedType
    <3>3. Loaded(t, quantity[t] + n) \in InventoryObject
      BY <1>0, <3>1, LoadedType
    <3>4. both \in Seq(InventoryObject) /\ both # << >>
      BY <3>2, <3>3
    <3>5. todo'[h] = both
      BY <1>0, <2>2 DEF SessionsOK
    <3>6. QED
      <4> HIDE DEF both
      <4>1. todo' = [todo EXCEPT ![h] = both]
        BY <2>2 DEF both
      <4>2. QED
        BY <3>4, <3>5, <4>1
  <2>3. QED
    BY <2>1, <2>2 DEF Move
<1>2. step' = [step EXCEPT ![h] = "read"] /\ step[h] = "idle"
  BY DEF Move
<1>3. target' = target /\ alerts' = alerts
  BY DEF Move
<1>4. target[h] = 0
  BY <1>0, <1>2 DEF SessionsOK, SessionOK
<1>5. SessionOK(h)'
  BY <1>0, <1>1, <1>2, <1>3, <1>4 DEF SessionsOK, SessionOK
<1>6. /\ step' \in [Actors -> Steps]
      /\ todo' \in [Actors -> Seq(InventoryObject)]
      /\ target' \in [Actors -> Nat]
  BY <1>0, <1>1, <1>2, <1>3 DEF SessionsOK, Steps
<1>7. \A b \in Actors \ {h} :
         step'[b] = step[b] /\ todo'[b] = todo[b] /\ target'[b] = target[b]
  BY <1>0, <1>1, <1>2, <1>3 DEF SessionsOK
<1>8. QED
  BY <1>0, <1>3, <1>5, <1>6, <1>7, SessionsStep

\* What an evaluation decides, and which alert it needs for that.
LEMMA PlanType ==
    ASSUME NEW inv, NEW found
    PROVE  /\ Plan(inv, found) \in {"nothing", "resolve", "create", "escalate"}
           /\ Plan(inv, found) = "create" => found = {}
           /\ Plan(inv, found) \in {"resolve", "escalate"} => found # {}
BY DEF Plan

\* A read goes on to a write, to the next object or to the end.
LEMMA ReadTypes ==
    ASSUME TypeOK, NEW a \in Actors, Read(a)
    PROVE  SessionsOK'
<1> DEFINE inv == Head(todo[a])
           found == ActiveAlerts(inv.row)
           plan == Plan(inv, found)
<1>0. SessionsOK /\ TableOK
  BY Parts
<1>1. alerts' = alerts /\ todo[a] # << >> /\ step[a] = "read" /\ target[a] = 0
  BY <1>0 DEF Read, SessionsOK, SessionOK
<1>2. CASE plan = "nothing" /\ Advance(a)
  BY <1>1, <1>2, AdvanceTypes
<1>3. CASE /\ plan # "nothing"
           /\ step' = [step EXCEPT ![a] = plan]
           /\ target' = [target EXCEPT ![a] = IF found = {} THEN 0 ELSE CHOOSE i \in found : TRUE]
           /\ UNCHANGED todo
  <2>1. /\ plan \in {"resolve", "create", "escalate"}
        /\ plan = "create" => found = {}
        /\ plan # "create" => found # {}
    BY <1>3, PlanType
  <2>2. found # {} => (CHOOSE i \in found : TRUE) \in DOMAIN alerts
    BY DEF ActiveAlerts
  <2>3. 0 \notin DOMAIN alerts /\ DOMAIN alerts \subseteq Nat
    BY <1>0, NoZero DEF TableOK
  <2> HIDE DEF inv, found, plan
  <2>4. step'[a] = plan /\ step' \in [Actors -> Steps]
    BY <1>0, <1>3, <2>1 DEF SessionsOK, Steps
  <2>5. /\ target'[a] = IF found = {} THEN 0 ELSE CHOOSE i \in found : TRUE
        /\ target' \in [Actors -> Nat]
    BY <1>0, <1>3, <2>2, <2>3 DEF SessionsOK
  <2>6. SessionOK(a)'
    BY <1>1, <1>3, <2>1, <2>2, <2>3, <2>4, <2>5 DEF SessionOK
  <2>7. \A b \in Actors \ {a} :
           step'[b] = step[b] /\ todo'[b] = todo[b] /\ target'[b] = target[b]
    BY <1>0, <1>3 DEF SessionsOK
  <2>8. QED
    BY <1>0, <1>1, <1>3, <2>4, <2>5, <2>6, <2>7, SessionsStep DEF SessionsOK
<1>4. QED
  BY <1>2, <1>3 DEF Read

\* An escalation goes on to announce the alert it has.
LEMMA EscalateTypes ==
    ASSUME TypeOK, NEW a \in Actors, Escalate(a)
    PROVE  SessionsOK'
<1>0. SessionsOK /\ TableOK
  BY Parts
<1>1. step[a] = "escalate" /\ target[a] \in DOMAIN alerts /\ target[a] # 0 /\ todo[a] # << >>
  BY <1>0, Current DEF Escalate, SessionsOK, SessionOK
<1>2. Head(todo[a]) \in InventoryObject
  BY <1>1, Current
<1>3. DOMAIN alerts' = DOMAIN alerts
  BY <1>0, <1>1, <1>2, AfterEscalate DEF Escalate, Escalates, TableOK
<1>4. step' = [step EXCEPT ![a] = "react"] /\ todo' = todo /\ target' = target
  BY DEF Escalate
<1>5. SessionOK(a)'
  BY <1>0, <1>1, <1>3, <1>4 DEF SessionsOK, SessionOK
<1>6. step' \in [Actors -> Steps] /\ \A b \in Actors \ {a} : step'[b] = step[b]
  BY <1>0, <1>4 DEF SessionsOK, Steps
<1>7. QED
  BY <1>0, <1>3, <1>4, <1>5, <1>6, SessionsStep DEF SessionsOK

\* A creation goes on to announce the alert it made.
LEMMA CreateTypes ==
    ASSUME TypeOK, NEW a \in Actors, Create(a)
    PROVE  SessionsOK'
<1>0. SessionsOK /\ TableOK
  BY Parts
<1>1. step[a] = "create" /\ todo[a] # << >>
  BY <1>0 DEF Create, SessionsOK, SessionOK
<1>2. Head(todo[a]) \in InventoryObject
  BY <1>1, Current
<1>3. /\ alerts' \in Seq(Alert)
      /\ DOMAIN alerts \subseteq DOMAIN alerts'
      /\ Len(alerts') \in DOMAIN alerts' /\ Len(alerts') # 0
  BY <1>0, <1>2, AfterCreate DEF Create, Creates, TableOK
<1>4. Len(alerts') \in Nat
  BY <1>3, LenProperties
<1>5. /\ step' = [step EXCEPT ![a] = "react"] /\ todo' = todo
      /\ target' = [target EXCEPT ![a] = Len(alerts')]
  BY DEF Create
<1>6. SessionOK(a)'
  BY <1>0, <1>1, <1>3, <1>5 DEF SessionsOK, SessionOK
<1>7. /\ step' \in [Actors -> Steps] /\ target' \in [Actors -> Nat]
      /\ \A b \in Actors \ {a} : step'[b] = step[b] /\ target'[b] = target[b]
  BY <1>0, <1>4, <1>5 DEF SessionsOK, Steps
<1>8. QED
  BY <1>0, <1>3, <1>5, <1>6, <1>7, SessionsStep DEF SessionsOK

\* A sweep that starts has nothing to evaluate yet, and a page gives it some.
LEMMA PagingTypes ==
    ASSUME TypeOK, NEW a \in Sweepers, StartSweep(a) \/ FetchPage(a)
    PROVE  SessionsOK'
<1>0. a \in Actors /\ SessionsOK
  BY Parts DEF Actors
<1>1. alerts' = alerts /\ target' = target
  BY DEF StartSweep, FetchPage
<1>2. step[a] \in {"idle", "page"} /\ target[a] = 0 /\ todo[a] = << >>
  BY <1>0 DEF StartSweep, FetchPage, SessionsOK, SessionOK
<1>3. CASE StartSweep(a)
  <2>1. step' = [step EXCEPT ![a] = "page"] /\ todo' = todo
    BY <1>3 DEF StartSweep
  <2>2. step' \in [Actors -> Steps] /\ \A b \in Actors \ {a} : step'[b] = step[b]
    BY <1>0, <2>1 DEF SessionsOK, Steps
  <2>3. SessionOK(a)'
    BY <1>0, <1>1, <1>2, <2>1 DEF SessionsOK, SessionOK
  <2>4. QED
    BY <1>0, <1>1, <2>1, <2>2, <2>3, SessionsStep DEF SessionsOK
<1>4. CASE FetchPage(a)
  <2>1. todo'[a] \in Seq(InventoryObject) /\ todo'[a] # << >>
    BY <1>4, PageObjects
  <2>2. todo' = [todo EXCEPT ![a] = todo'[a]]
    BY <1>0, <1>4 DEF FetchPage, SessionsOK
  <2>3. step' = [step EXCEPT ![a] = "read"]
    BY <1>4 DEF FetchPage
  <2>4. /\ step' \in [Actors -> Steps] /\ todo' \in [Actors -> Seq(InventoryObject)]
        /\ \A b \in Actors \ {a} : step'[b] = step[b] /\ todo'[b] = todo[b]
    BY <1>0, <2>1, <2>2, <2>3 DEF SessionsOK, Steps
  <2>5. SessionOK(a)'
    BY <1>0, <1>1, <1>2, <2>1, <2>3 DEF SessionsOK, SessionOK
  <2>6. QED
    BY <1>0, <1>1, <2>4, <2>5, SessionsStep DEF SessionsOK
<1>5. QED
  BY <1>3, <1>4

\* Every step leaves every session well typed.
LEMMA SessionTypes ==
    ASSUME TypeOK, [Next]_vars
    PROVE  SessionsOK'
<1>0. SessionsOK /\ TableOK
  BY Parts
<1>1. DOMAIN alerts \subseteq DOMAIN alerts'
  BY <1>0, StepsOfTable, TableGrows DEF TableOK
<1>2. CASE UNCHANGED <<step, todo, target>>
  BY <1>0, <1>1, <1>2 DEF SessionsOK, SessionOK
<1>3. ASSUME NEW a \in Actors, Resolve(a) \/ React(a)
      PROVE  SessionsOK'
  <2>1. todo[a] # << >>
    BY <1>3, Current DEF Resolve, React
  <2>2. QED
    BY <1>1, <1>3, <2>1, AdvanceTypes DEF Resolve, React
<1>4. ASSUME NEW a \in Actors, ReadRaises(a) \/ Crash(a)
      PROVE  SessionsOK'
  BY <1>1, <1>4, EndTypes DEF ReadRaises, Crash
<1>5. ASSUME NEW a \in Sweepers, FinishSweep(a)
      PROVE  SessionsOK'
  BY <1>1, <1>5, EndTypes DEF FinishSweep, Actors
<1>6. ASSUME NEW a \in Actors, Evaluate(a) \/ Crash(a)
      PROVE  SessionsOK'
  BY <1>3, <1>4, <1>6, ReadTypes, EscalateTypes, CreateTypes DEF Evaluate
<1>7. ASSUME NEW a \in Sweepers, Sweep(a)
      PROVE  SessionsOK'
  BY <1>5, <1>7, PagingTypes DEF Sweep
<1>8. CASE UNCHANGED vars
  BY <1>2, <1>8 DEF vars
<1>9. CASE Next
  BY <1>2, <1>6, <1>7, <1>9, MoveTypes DEF Next, Edit, Ask, Confirm
<1>10. QED
  BY <1>8, <1>9

\* Every step preserves the type invariant.
LEMMA NextTypes == TypeOK /\ [Next]_vars => TypeOK'
BY DatabaseTypes, TableTypes, SessionTypes, SweepTypes, Parts

\* Type correctness: stock stays within its bound, every alert a session is
\* about to write or announce exists, and so does every alert that is named by
\* an email task or an answer.
THEOREM TypeCorrect == Spec => []TypeOK
BY InitTypes, NextTypes, PTL DEF Spec

-----------------------------------------------------------------------------
(* What follows from TableStep *)

\* No step reopens or removes an alert.
LEMMA StepKeepsResolved ==
    ASSUME alerts \in Seq(Alert), TableStep, NEW i \in DOMAIN alerts
    PROVE  /\ i \in DOMAIN alerts'
           /\ alerts[i].status = "RESOLVED" => alerts'[i].status = "RESOLVED"
<1>0. alerts[i] \in Alert
  OBVIOUS
<1>1. CASE alerts' = alerts
  BY <1>1
<1>2. CASE \E j \in DOMAIN alerts : Resolves(j)
  BY <1>0, <1>2, AfterResolve, ResolvedType
<1>3. CASE \E j \in DOMAIN alerts, inv \in InventoryObject : Escalates(j, inv)
  BY <1>0, <1>3, AfterEscalate, EscalatedType
<1>4. CASE \E inv \in InventoryObject : Creates(inv)
  BY <1>4, AfterCreate
<1>5. QED
  BY <1>1, <1>2, <1>3, <1>4 DEF TableStep, NoCreation

\* A resolved alert stays resolved, whichever sessions had loaded it before.
THEOREM ResolutionIsFinal == Spec => ResolvedIsFinal
<1>1. TypeOK /\ [Next]_vars =>
         [\A i \in DOMAIN alerts :
             /\ i \in DOMAIN alerts'
             /\ alerts[i].status = "RESOLVED" => alerts'[i].status = "RESOLVED"]_vars
  <2> SUFFICES ASSUME TypeOK, [Next]_vars, NEW i \in DOMAIN alerts
               PROVE  /\ i \in DOMAIN alerts'
                      /\ alerts[i].status = "RESOLVED" => alerts'[i].status = "RESOLVED"
    OBVIOUS
  <2>1. alerts \in Seq(Alert)
    BY DEF TypeOK
  <2>2. QED
    BY <2>1, StepsOfTable, StepKeepsResolved
<1>2. QED
  BY <1>1, TypeCorrect, PTL DEF Spec, ResolvedIsFinal

\* Every way of writing an alert makes its type and its quantity agree.
LEMMA StepMatchesTrigger ==
    ASSUME TypeOK, [Next]_vars, TypeMatchesTrigger
    PROVE  TypeMatchesTrigger'
<1>0. alerts \in Seq(Alert) /\ TableStep
  BY StepsOfTable DEF TypeOK
<1>1. ASSUME NEW i \in DOMAIN alerts'
      PROVE  alerts'[i].type = AlertType(alerts'[i].trigger)
  <2>1. CASE alerts' = alerts
    BY <2>1 DEF TypeMatchesTrigger
  <2>2. CASE \E j \in DOMAIN alerts : Resolves(j)
    <3>1. PICK j \in DOMAIN alerts : Resolves(j)
      BY <2>2
    <3>2. i \in DOMAIN alerts /\ alerts[i] \in Alert
      BY <1>0, <3>1, AfterResolve
    <3>3. alerts'[i] = alerts[i] \/ alerts'[i] = Resolved(alerts[i])
      BY <1>0, <3>1, <3>2, AfterResolve
    <3>4. QED
      BY <3>2, <3>3, ResolvedType DEF TypeMatchesTrigger
  <2>3. CASE \E j \in DOMAIN alerts, inv \in InventoryObject : Escalates(j, inv)
    <3>1. PICK j \in DOMAIN alerts, inv \in InventoryObject : Escalates(j, inv)
      BY <2>3
    <3>2. i \in DOMAIN alerts /\ alerts[i] \in Alert
      BY <1>0, <3>1, AfterEscalate
    <3>3. alerts'[i] = alerts[i] \/ alerts'[i] = Escalated(alerts[i], inv)
      BY <1>0, <3>1, <3>2, AfterEscalate
    <3>4. QED
      BY <3>2, <3>3, EscalatedType DEF TypeMatchesTrigger
  <2>4. CASE \E inv \in InventoryObject : Creates(inv)
    <3>1. PICK inv \in InventoryObject : Creates(inv)
      BY <2>4
    <3>2. CASE i \in DOMAIN alerts
      BY <1>0, <3>1, <3>2, AfterCreate DEF TypeMatchesTrigger
    <3>3. CASE i = Len(alerts) + 1
      BY <1>0, <3>1, <3>3, AfterCreate, NewAlertType
    <3>4. QED
      BY <1>0, <3>1, <3>2, <3>3, AfterCreate
  <2>5. QED
    BY <1>0, <2>1, <2>2, <2>3, <2>4 DEF TableStep, NoCreation
<1>2. QED
  BY <1>1 DEF TypeMatchesTrigger, AlertType

\* An alert never contradicts its own quantity, however many sessions race.
THEOREM AlertsAreConsistent == Spec => []TypeMatchesTrigger
<1>1. Init => TypeMatchesTrigger
  BY DEF Init, TypeMatchesTrigger
<1>2. TypeOK /\ [Next]_vars /\ TypeMatchesTrigger => TypeMatchesTrigger'
  BY StepMatchesTrigger
<1>3. QED
  BY <1>1, <1>2, TypeCorrect, PTL DEF Spec

-----------------------------------------------------------------------------
(* Sessions one after another *)

\* One session at most is evaluating, and the pair it is about to create an
\* alert for has none.
SerialInv ==
    /\ TypeOK
    /\ \A a, b \in Actors : step[a] # "idle" /\ step[b] # "idle" => a = b
    /\ \A a \in Actors : step[a] = "create" => ActiveAlerts(Head(todo[a]).row) = {}
    /\ AtMostOneActive

\* A step that creates no alert makes none active.
LEMMA NoneBecomesActive ==
    ASSUME alerts \in Seq(Alert), NoCreation, NEW r \in Rows
    PROVE  ActiveAlerts(r)' \subseteq ActiveAlerts(r)
<1> SUFFICES ASSUME NEW i \in ActiveAlerts(r)'
             PROVE  i \in ActiveAlerts(r)
  OBVIOUS
<1>1. i \in DOMAIN alerts' /\ alerts'[i].row = r /\ alerts'[i].status = "ACTIVE"
  BY DEF ActiveAlerts
<1>2. CASE alerts' = alerts
  BY <1>1, <1>2 DEF ActiveAlerts
<1>3. CASE \E j \in DOMAIN alerts : Resolves(j)
  <2>1. PICK j \in DOMAIN alerts : Resolves(j)
    BY <1>3
  <2>2. i \in DOMAIN alerts /\ alerts[i] \in Alert
    BY <1>1, <2>1, AfterResolve
  <2>3. alerts'[i] = alerts[i] \/ alerts'[i] = Resolved(alerts[i])
    BY <2>1, <2>2, AfterResolve
  <2>4. QED
    BY <1>1, <2>2, <2>3, ResolvedType DEF ActiveAlerts
<1>4. CASE \E j \in DOMAIN alerts, inv \in InventoryObject : Escalates(j, inv)
  <2>1. PICK j \in DOMAIN alerts, inv \in InventoryObject : Escalates(j, inv)
    BY <1>4
  <2>2. i \in DOMAIN alerts /\ alerts[i] \in Alert
    BY <1>1, <2>1, AfterEscalate
  <2>3. alerts'[i] = alerts[i] \/ alerts'[i] = Escalated(alerts[i], inv)
    BY <2>1, <2>2, AfterEscalate
  <2>4. QED
    BY <1>1, <2>2, <2>3, EscalatedType DEF ActiveAlerts
<1>5. QED
  BY <1>2, <1>3, <1>4 DEF NoCreation

\* A creation makes one alert active, of the row it is for.
LEMMA OneBecomesActive ==
    ASSUME TypeOK, NEW a \in Actors, Create(a), NEW r \in Rows
    PROVE  /\ r # Head(todo[a]).row => ActiveAlerts(r)' = ActiveAlerts(r)
           /\ r = Head(todo[a]).row => ActiveAlerts(r)' = ActiveAlerts(r) \cup {Len(alerts) + 1}
<1> DEFINE inv == Head(todo[a])
           new == Len(alerts) + 1
<1>0. alerts \in Seq(Alert) /\ inv \in InventoryObject
  BY Current DEF TypeOK, Create
<1>1. /\ DOMAIN alerts' = DOMAIN alerts \cup {new}
      /\ \A j \in DOMAIN alerts : alerts'[j] = alerts[j]
      /\ alerts'[new] = NewAlert(inv)
  BY <1>0, AfterCreate DEF Create, Creates
<1>2. NewAlert(inv).row = inv.row /\ NewAlert(inv).status = "ACTIVE"
  BY DEF NewAlert
<1>3. new \notin DOMAIN alerts
  BY <1>0
<1>4. QED
  <2> HIDE DEF inv, new
  <2>1. r # inv.row => ActiveAlerts(r)' = ActiveAlerts(r)
    BY <1>1, <1>2 DEF ActiveAlerts
  <2>2. r = inv.row => ActiveAlerts(r)' = ActiveAlerts(r) \cup {new}
    BY <1>1, <1>2, <1>3 DEF ActiveAlerts
  <2>3. QED
    BY <2>1, <2>2 DEF inv, new

\* The other sessions stay where they are.
Alone(c) ==
    \A b \in Actors \ {c} : step'[b] = step[b] /\ todo'[b] = todo[b]

\* A step of one session is its own.
LEMMA StepsAlone ==
    ASSUME TypeOK, NEW c \in Actors,
           \/ Evaluate(c) \/ Crash(c)
           \/ c \in Handlers /\ Move(c)
           \/ c \in Sweepers /\ Sweep(c)
    PROVE  Alone(c)
<1>0. step \in [Actors -> Steps] /\ todo \in [Actors -> Seq(InventoryObject)]
  BY DEF TypeOK, Steps
<1>1. CASE Advance(c) \/ EndSession(c)
  BY <1>0, <1>1 DEF Advance, EndSession, Alone
<1>2. CASE Read(c)
  BY <1>0, <1>1, <1>2 DEF Read, Alone
<1>3. CASE Escalate(c) \/ Create(c)
  BY <1>0, <1>3 DEF Escalate, Create, Alone
<1>4. CASE ReadRaises(c) \/ Resolve(c) \/ React(c) \/ Crash(c) \/ FinishSweep(c)
  BY <1>1, <1>4 DEF ReadRaises, Resolve, React, Crash, FinishSweep
<1>5. CASE StartSweep(c) \/ FetchPage(c)
  BY <1>0, <1>5 DEF StartSweep, FetchPage, Alone
<1>6. CASE Move(c)
  BY <1>0, <1>6 DEF Move, Alone
<1>7. QED
  BY <1>2, <1>3, <1>4, <1>5, <1>6 DEF Evaluate, Sweep

\* Every step is of one session or of none.
LEMMA WhoMoves ==
    ASSUME TypeOK, [Next]_vars
    PROVE  \/ UNCHANGED <<step, todo>>
           \/ \E c \in Actors :
                 /\ Alone(c)
                 /\ \/ Evaluate(c) \/ Crash(c)
                    \/ c \in Handlers /\ Move(c)
                    \/ c \in Sweepers /\ Sweep(c)
<1>1. CASE UNCHANGED vars
  BY <1>1 DEF vars
<1>2. CASE Next
  BY <1>2, StepsAlone DEF Next, Actors, Edit, Ask, Confirm
<1>3. QED
  BY <1>1, <1>2

\* A session that is about to create an alert has just found none for its row,
\* or was about to before.
LEMMA CreatePlanned ==
    ASSUME TypeOK, [Next]_vars, NEW a \in Actors, step'[a] = "create"
    PROVE  /\ todo'[a] = todo[a]
           /\ \/ step[a] = "create"
              \/ alerts' = alerts /\ ActiveAlerts(Head(todo[a]).row) = {}
<1>0. step \in [Actors -> Steps] /\ todo \in [Actors -> Seq(InventoryObject)]
  BY DEF TypeOK, Steps
<1>1. CASE UNCHANGED <<step, todo>>
  BY <1>1
<1>2. CASE \E c \in Actors \ {a} : Alone(c)
  BY <1>2 DEF Alone
<1>3. ~Advance(a) /\ ~EndSession(a)
  BY <1>0 DEF Advance, EndSession
<1>4. ASSUME Read(a)
      PROVE  /\ todo'[a] = todo[a]
             /\ alerts' = alerts /\ ActiveAlerts(Head(todo[a]).row) = {}
  <2> DEFINE found == ActiveAlerts(Head(todo[a]).row)
             plan == Plan(Head(todo[a]), found)
  <2>1. step' = [step EXCEPT ![a] = plan] /\ todo' = todo /\ alerts' = alerts
    BY <1>3, <1>4 DEF Read
  <2>2. plan = "create" => found = {}
    BY PlanType
  <2> HIDE DEF found, plan
  <2>3. plan = "create"
    BY <1>0, <2>1
  <2>4. QED
    BY <2>1, <2>2, <2>3 DEF found
<1>5. ~(Escalate(a) \/ Create(a) \/ StartSweep(a) \/ FetchPage(a) \/ Move(a))
  BY <1>0 DEF Escalate, Create, StartSweep, FetchPage, Move
<1>6. ~(ReadRaises(a) \/ Resolve(a) \/ React(a) \/ Crash(a) \/ FinishSweep(a))
  BY <1>3 DEF ReadRaises, Resolve, React, Crash, FinishSweep
<1>7. QED
  BY <1>1, <1>2, <1>4, <1>5, <1>6, WhoMoves DEF Evaluate, Sweep

\* A serial step is a step, and starts a session only when all are quiet.
LEMMA SerialIsStep ==
    ASSUME TypeOK, SerialNext
    PROVE  /\ Next
           /\ \A a \in Actors : step[a] = "idle" /\ step'[a] # "idle" => Quiet
<1>1. Next
  BY DEF SerialNext, Next, Sweep
<1>2. ASSUME NEW a \in Actors, step[a] = "idle", step'[a] # "idle"
      PROVE  Quiet
  <2>1. CASE \E h \in Handlers : Quiet /\ Move(h)
    BY <2>1
  <2>2. CASE \E r \in Rows : Edit(r)
    BY <1>2, <2>2 DEF Edit
  <2>3. CASE \E c \in Actors : Evaluate(c) \/ Crash(c)
    <3>1. PICK c \in Actors : Evaluate(c) \/ Crash(c)
      BY <2>3
    <3>2. step[c] # "idle"
      BY <3>1 DEF Evaluate, Read, ReadRaises, Resolve, Escalate, Create, React, Crash
    <3>3. QED
      BY <1>2, <3>1, <3>2, StepsAlone DEF Alone
  <2>4. CASE \E c \in Sweepers : FetchPage(c) \/ FinishSweep(c)
    <3>1. PICK c \in Sweepers : FetchPage(c) \/ FinishSweep(c)
      BY <2>4
    <3>2. step[c] # "idle" /\ c \in Actors /\ Sweep(c)
      BY <3>1 DEF FetchPage, FinishSweep, Actors, Sweep
    <3>3. QED
      BY <1>2, <3>2, StepsAlone DEF Alone
  <2>5. CASE \E c \in Sweepers : Quiet /\ StartSweep(c)
    BY <2>5
  <2>6. CASE \E d \in Admins : Ask(d) \/ Confirm(d)
    BY <1>2, <2>6 DEF Ask, Confirm
  <2>7. QED
    BY <2>1, <2>2, <2>3, <2>4, <2>5, <2>6 DEF SerialNext
<1>3. QED
  BY <1>1, <1>2

\* Sessions that start only when all are quiet are never two at a time.
LEMMA StaysSerial ==
    ASSUME SerialInv, [SerialNext]_vars,
           NEW a \in Actors, NEW b \in Actors, step'[a] # "idle", step'[b] # "idle"
    PROVE  a = b
<1> SUFFICES ASSUME a # b
             PROVE  FALSE
  OBVIOUS
<1>0. TypeOK /\ [Next]_vars
  BY SerialIsStep DEF SerialInv
<1>1. step'[a] = step[a] \/ step'[b] = step[b]
  BY <1>0, WhoMoves DEF Alone
<1>2. step[a] = "idle" \/ step[b] = "idle"
  BY DEF SerialInv
<1>3. CASE UNCHANGED vars
  BY <1>2, <1>3 DEF vars
<1>4. CASE SerialNext
  <2>1. step[a] = "idle" => step[b] = "idle"
    BY <1>0, <1>2, <1>4, SerialIsStep DEF Quiet
  <2>2. step[b] = "idle" => step[a] = "idle"
    BY <1>0, <1>2, <1>4, SerialIsStep DEF Quiet
  <2>3. QED
    BY <1>1, <1>2, <2>1, <2>2
<1>5. QED
  BY <1>3, <1>4

\* The serial invariant is inductive.
LEMMA SerialStep == SerialInv /\ [SerialNext]_vars => SerialInv'
<1> SUFFICES ASSUME SerialInv, [SerialNext]_vars
             PROVE  SerialInv'
  OBVIOUS
<1>0. TypeOK /\ [Next]_vars /\ alerts \in Seq(Alert)
  BY SerialIsStep DEF SerialInv, TypeOK
<1>1. TypeOK'
  BY <1>0, NextTypes
<1>2. \A a, b \in Actors : step'[a] # "idle" /\ step'[b] # "idle" => a = b
  BY StaysSerial
<1>3. ASSUME NEW a \in Actors, step'[a] = "create"
      PROVE  (ActiveAlerts(Head(todo[a]).row) = {})'
  <2>1. /\ todo'[a] = todo[a]
        /\ \/ step[a] = "create"
           \/ alerts' = alerts /\ ActiveAlerts(Head(todo[a]).row) = {}
    BY <1>0, <1>3, CreatePlanned
  <2>2. CASE alerts' = alerts /\ ActiveAlerts(Head(todo[a]).row) = {}
    BY <2>1, <2>2 DEF ActiveAlerts
  <2>3. CASE step[a] = "create"
    <3>1. ActiveAlerts(Head(todo[a]).row) = {}
      BY <2>3 DEF SerialInv
    <3>2. Head(todo[a]).row \in Rows
      BY <1>0, <2>3, Current DEF InventoryObject
    <3>3. ~(\E c \in Actors : Create(c))
      <4>1. ASSUME NEW c \in Actors, Create(c)
            PROVE  FALSE
        <5>1. c = a
          BY <2>3, <4>1 DEF Create, SerialInv
        <5>2. step'[a] = "react"
          BY <1>0, <4>1, <5>1 DEF Create, TypeOK
        <5>3. QED
          BY <1>3, <5>2
      <4>2. QED
        BY <4>1
    <3>4. PICK r \in Rows : r = Head(todo[a]).row
      BY <3>2
    <3>5. ActiveAlerts(r)' \subseteq ActiveAlerts(r)
      BY <1>0, <3>3, CreatesOrNot, NoneBecomesActive
    <3>6. ActiveAlerts(r)' = {}
      BY <3>1, <3>4, <3>5
    <3>7. QED
      BY <2>1, <3>4, <3>6 DEF ActiveAlerts
  <2>4. QED
    BY <2>1, <2>2, <2>3
<1>4. AtMostOneActive'
  <2> SUFFICES ASSUME NEW r \in Rows
               PROVE  Single(ActiveAlerts(r))'
    BY DEF AtMostOneActive
  <2>0. Single(ActiveAlerts(r))
    BY DEF SerialInv, AtMostOneActive
  <2>1. CASE NoCreation
    BY <1>0, <2>0, <2>1, NoneBecomesActive DEF Single
  <2>2. ASSUME NEW c \in Actors, Create(c)
        PROVE  Single(ActiveAlerts(r))'
    <3>1. r = Head(todo[c]).row => ActiveAlerts(r) = {}
      BY <2>2 DEF SerialInv, Create
    <3>2. QED
      BY <1>0, <2>0, <2>2, <3>1, OneBecomesActive DEF Single
  <2>3. QED
    BY <1>0, <2>1, <2>2, CreatesOrNot
<1>5. QED
  BY <1>1, <1>2, <1>3, <1>4 DEF SerialInv

\* No session has anything to do at first.
LEMMA InitSerial == Init => SerialInv
<1> SUFFICES ASSUME Init PROVE SerialInv
  OBVIOUS
<1>1. TypeOK
  BY InitTypes
<1>2. \A r \in Rows : ActiveAlerts(r) = {}
  BY DEF Init, ActiveAlerts
<1>3. QED
  BY <1>1, <1>2 DEF Init, SerialInv, AtMostOneActive, Single

\* What get_active_by_product_and_warehouse promises: a pair never has two
\* active alerts, provided that no session evaluates while another one does.
THEOREM OneActiveAlert == SerialSpec => []AtMostOneActive
<1>1. SerialInv => AtMostOneActive
  BY DEF SerialInv
<1>2. QED
  BY <1>1, InitSerial, SerialStep, PTL DEF SerialSpec

-----------------------------------------------------------------------------
(* The alert state reflects the movements *)

\* No session died, nobody edited the database or resolved an alert by hand.
Undisturbed == used.crashes = 0 /\ used.edits = 0 /\ confirmed = << >>

UsedOK == used \in [moves : Nat, edits : Nat, crashes : Nat, outages : Nat]

\* Row r is still to be evaluated.
Waits(r) == \E a \in Actors : \E k \in DOMAIN todo[a] : todo[a][k].row = r

\* An Inventory object that has what its row has.
Fresh(inv) == inv = Loaded(inv.row, quantity[inv.row])

\* What a session works with is fresh, what it is about to write is what its
\* row needs, and a row whose alert it announces is done.
FreshTodo(a) == \A k \in DOMAIN todo[a] : Fresh(todo[a][k])

FreshPage(a) == a \in Sweepers /\ step[a] # "idle" => \A inv \in batch[a] : Fresh(inv)

Decided(a) ==
    step[a] \in {"resolve", "escalate", "create"} =>
        LET inv == Head(todo[a])
            found == ActiveAlerts(inv.row)
        IN  /\ Plan(inv, found) = step[a]
            /\ step[a] # "create" => found = {target[a]}

Announced(a) == step[a] = "react" => Correct(Head(todo[a]).row)

Working(a) == FreshTodo(a) /\ FreshPage(a) /\ Decided(a) /\ Announced(a)

\* A row is as it should be, or some session still has it before it.
Reflects ==
    /\ \A r \in Rows : Waits(r) \/ Correct(r)
    /\ \A a \in Actors : Working(a)

\* The current object of a session has the values of its row.
LEMMA HeadFresh ==
    ASSUME TypeOK, NEW a \in Actors, FreshTodo(a),
           step[a] \in {"read", "resolve", "escalate", "create", "react"}
    PROVE  /\ Head(todo[a]).row \in Rows
           /\ Head(todo[a]).quantity = quantity[Head(todo[a]).row]
           /\ Head(todo[a]).limit = Limit(threshold[Head(todo[a]).row])
<1>1. todo[a] \in Seq(InventoryObject) /\ todo[a] # << >> /\ Head(todo[a]) \in InventoryObject
  BY Current
<1>2. 1 \in DOMAIN todo[a] /\ Head(todo[a]) = todo[a][1]
  BY <1>1, EmptySeq
<1>3. Fresh(Head(todo[a]))
  BY <1>2 DEF FreshTodo
<1>4. QED
  BY <1>1, <1>3 DEF Fresh, Loaded, InventoryObject

\* A row whose alerts and whose values stay is as right as it was.
LEMMA CorrectStays ==
    ASSUME NEW r \in Rows, Correct(r), UNCHANGED dbVars,
           ActiveAlerts(r)' = ActiveAlerts(r),
           \A i \in ActiveAlerts(r) : alerts'[i].type = alerts[i].type
    PROVE  Correct(r)'
BY DEF Correct, dbVars

\* While one session evaluates, the others have nothing to do.
LEMMA OthersIdle ==
    ASSUME SerialInv, NEW a \in Actors, step[a] # "idle", NEW b \in Actors \ {a}
    PROVE  step[b] = "idle" /\ todo[b] = << >>
BY DEF SerialInv, TypeOK

\* A session that has nothing to do is not working on anything.
LEMMA IdleWorks ==
    ASSUME NEW b \in Actors, step'[b] = "idle", todo'[b] = << >>
    PROVE  Working(b)'
BY DEF Working, FreshTodo, FreshPage, Decided, Announced

\* A session that is done with a row leaves it as it should be.
LEMMA AdvanceReflects ==
    ASSUME SerialInv, Reflects, NEW a \in Actors, Advance(a),
           step[a] \in {"read", "resolve", "react"},
           UNCHANGED <<dbVars, sweepVars>>,
           \A r \in Rows : (r = Head(todo[a]).row \/ Correct(r)) => Correct(r)'
    PROVE  Reflects'
<1>0. TypeOK /\ step \in [Actors -> Steps] /\ todo \in [Actors -> Seq(InventoryObject)]
  BY DEF SerialInv, TypeOK, Steps
<1>1. todo[a] \in Seq(InventoryObject) /\ todo[a] # << >>
  BY <1>0, Current
<1>2. /\ todo'[a] = Tail(todo[a]) /\ step'[a] \in {"read", "idle", "page"}
      /\ \A b \in Actors \ {a} : step'[b] = step[b] /\ todo'[b] = todo[b]
  BY <1>0 DEF Advance
<1>3. /\ \A k \in DOMAIN todo'[a] : k + 1 \in DOMAIN todo[a] /\ todo'[a][k] = todo[a][k + 1]
      /\ \A k \in DOMAIN todo[a] : k # 1 => k - 1 \in DOMAIN todo'[a] /\ todo'[a][k - 1] = todo[a][k]
      /\ Head(todo[a]) = todo[a][1]
  <2>1. /\ Tail(todo[a]) \in Seq(InventoryObject)
        /\ Len(Tail(todo[a])) = Len(todo[a]) - 1
        /\ \A k \in 1 .. Len(Tail(todo[a])) : Tail(todo[a])[k] = todo[a][k + 1]
    BY <1>1, HeadTailProperties
  <2>2. Len(todo[a]) \in Nat
    BY <1>1
  <2>3. DOMAIN todo[a] = 1 .. Len(todo[a]) /\ DOMAIN todo'[a] = 1 .. (Len(todo[a]) - 1)
    BY <1>1, <1>2, <2>1
  <2>4. ASSUME NEW k \in DOMAIN todo'[a]
        PROVE  k + 1 \in DOMAIN todo[a] /\ todo'[a][k] = todo[a][k + 1]
    BY <1>2, <2>1, <2>2, <2>3
  <2>5. ASSUME NEW k \in DOMAIN todo[a], k # 1
        PROVE  k - 1 \in DOMAIN todo'[a] /\ todo'[a][k - 1] = todo[a][k]
    <3>1. k - 1 \in DOMAIN todo'[a] /\ (k - 1) + 1 = k
      BY <2>2, <2>3, <2>5
    <3>2. QED
      BY <3>1, <2>4
  <2>6. QED
    BY <1>1, <2>4, <2>5
<1>4. Working(a)'
  <2>1. FreshTodo(a)'
    BY <1>3 DEF Reflects, Working, FreshTodo, Fresh, Loaded, dbVars
  <2>2. FreshPage(a)'
    BY DEF Reflects, Working, FreshPage, Fresh, Loaded, dbVars, sweepVars
  <2>3. Decided(a)' /\ Announced(a)'
    BY <1>2 DEF Decided, Announced
  <2>4. QED
    BY <2>1, <2>2, <2>3 DEF Working
<1>5. ASSUME NEW b \in Actors \ {a}
      PROVE  Working(b)'
  BY <1>2, OthersIdle, IdleWorks
<1>6. ASSUME NEW r \in Rows
      PROVE  Waits(r)' \/ Correct(r)'
  <2>1. CASE r = Head(todo[a]).row \/ Correct(r)
    BY <2>1
  <2>2. CASE r # Head(todo[a]).row /\ Waits(r)
    <3>1. PICK k \in DOMAIN todo[a] : todo[a][k].row = r
      BY <2>2, OthersIdle DEF Waits
    <3>2. k # 1
      BY <1>3, <2>2, <3>1
    <3>3. QED
      BY <1>3, <3>1, <3>2 DEF Waits
  <2>3. QED
    BY <2>1, <2>2 DEF Reflects
<1>7. QED
  BY <1>4, <1>5, <1>6 DEF Reflects

\* A session that has written goes on to announce what it wrote.
LEMMA WriteReflects ==
    ASSUME SerialInv, Reflects, NEW a \in Actors,
           step[a] \in {"escalate", "create"},
           step' = [step EXCEPT ![a] = "react"], todo' = todo,
           UNCHANGED <<dbVars, sweepVars>>,
           \A r \in Rows : (r = Head(todo[a]).row \/ Correct(r)) => Correct(r)'
    PROVE  Reflects'
<1>0. TypeOK /\ step \in [Actors -> Steps]
  BY DEF SerialInv, TypeOK, Steps
<1>1. step'[a] = "react" /\ \A b \in Actors \ {a} : step'[b] = step[b]
  BY <1>0
<1>2. PICK r \in Rows : r = Head(todo[a]).row
  BY <1>0, Current DEF InventoryObject
<1>3. Working(a)'
  <2>1. FreshTodo(a)' /\ FreshPage(a)'
    BY DEF Reflects, Working, FreshTodo, FreshPage, Fresh, Loaded, dbVars, sweepVars
  <2>2. Decided(a)'
    BY <1>1 DEF Decided
  <2>3. Correct(r)'
    BY <1>2
  <2>4. Announced(a)'
    BY <1>2, <2>3 DEF Announced, Correct, ActiveAlerts
  <2>5. QED
    BY <2>1, <2>2, <2>4 DEF Working
<1>4. ASSUME NEW b \in Actors \ {a}
      PROVE  Working(b)'
  BY <1>1, OthersIdle, IdleWorks
<1>5. \A s \in Rows : Waits(s)' \/ Correct(s)'
  BY DEF Reflects, Waits
<1>6. QED
  BY <1>3, <1>4, <1>5 DEF Reflects

\* The write of a resolution leaves the row without an active alert.
LEMMA ResolveReflects ==
    ASSUME SerialInv, Reflects, NEW a \in Actors, Resolve(a)
    PROVE  Reflects'
<1> DEFINE inv == Head(todo[a])
           i == target[a]
<1>0. /\ TypeOK /\ alerts \in Seq(Alert) /\ step[a] = "resolve" /\ i \in DOMAIN alerts
      /\ Advance(a) /\ UNCHANGED <<dbVars, sweepVars>> /\ Resolves(i)
  BY Current DEF SerialInv, TypeOK, Resolve, Resolves
<1>1. /\ inv.row \in Rows /\ inv.quantity = quantity[inv.row]
      /\ inv.limit = Limit(threshold[inv.row])
  BY <1>0, HeadFresh DEF Reflects, Working
<1>2. Plan(inv, ActiveAlerts(inv.row)) = "resolve" /\ ActiveAlerts(inv.row) = {i}
  BY <1>0 DEF Reflects, Working, Decided
<1>3. quantity[inv.row] > Limit(threshold[inv.row])
  BY <1>1, <1>2 DEF Plan
<1> HIDE DEF inv, i
<1>4. /\ DOMAIN alerts' = DOMAIN alerts
      /\ \A j \in DOMAIN alerts :
            alerts'[j] = IF j = i THEN Resolved(alerts[i]) ELSE alerts[j]
      /\ Resolved(alerts[i]).status = "RESOLVED"
      /\ alerts[i].row = inv.row
  <2>1. alerts[i] \in Alert /\ i \in ActiveAlerts(inv.row)
    BY <1>0, <1>2
  <2>2. QED
    BY <1>0, <2>1, AfterResolve, ResolvedType DEF ActiveAlerts
<1>5. ASSUME NEW r \in Rows, r = inv.row
      PROVE  Correct(r)'
  <2>1. ActiveAlerts(r)' = {}
    BY <1>2, <1>4, <1>5 DEF ActiveAlerts
  <2>2. quantity'[r] > Limit(threshold'[r])
    BY <1>0, <1>3, <1>5 DEF dbVars
  <2>3. QED
    BY <2>1, <2>2 DEF Correct
<1>6. ASSUME NEW r \in Rows, r # inv.row, Correct(r)
      PROVE  Correct(r)'
  <2>1. ActiveAlerts(r)' = ActiveAlerts(r)
    BY <1>0, <1>4, <1>6, ResolvedType DEF ActiveAlerts
  <2>2. \A j \in ActiveAlerts(r) : alerts'[j].type = alerts[j].type
    BY <1>4, <1>6 DEF ActiveAlerts
  <2>3. QED
    BY <1>0, <1>6, <2>1, <2>2, CorrectStays
<1>7. QED
  BY <1>0, <1>5, <1>6, AdvanceReflects DEF inv

\* The write of an escalation leaves the row with the one active alert it had,
\* of the type of its quantity.
LEMMA EscalateReflects ==
    ASSUME SerialInv, Reflects, NEW a \in Actors, Escalate(a)
    PROVE  Reflects'
<1> DEFINE inv == Head(todo[a])
           i == target[a]
<1>0. /\ TypeOK /\ alerts \in Seq(Alert) /\ step[a] = "escalate" /\ i \in DOMAIN alerts
      /\ step' = [step EXCEPT ![a] = "react"] /\ todo' = todo
      /\ UNCHANGED <<dbVars, sweepVars>> /\ Escalates(i, inv) /\ inv \in InventoryObject
  BY Current DEF SerialInv, TypeOK, Escalate, Escalates
<1>1. /\ inv.row \in Rows /\ inv.quantity = quantity[inv.row]
      /\ inv.limit = Limit(threshold[inv.row])
  BY <1>0, HeadFresh DEF Reflects, Working
<1>2. Plan(inv, ActiveAlerts(inv.row)) = "escalate" /\ ActiveAlerts(inv.row) = {i}
  BY <1>0 DEF Reflects, Working, Decided
<1>3. ~(quantity[inv.row] > Limit(threshold[inv.row]))
  BY <1>1, <1>2 DEF Plan
<1> HIDE DEF inv, i
<1>4. /\ DOMAIN alerts' = DOMAIN alerts
      /\ \A j \in DOMAIN alerts :
            alerts'[j] = IF j = i THEN Escalated(alerts[i], inv) ELSE alerts[j]
  BY <1>0, AfterEscalate
<1>5. /\ Escalated(alerts[i], inv).status = alerts[i].status
      /\ Escalated(alerts[i], inv).row = alerts[i].row
      /\ Escalated(alerts[i], inv).type = AlertType(inv.quantity)
      /\ alerts[i].row = inv.row
  <2>1. alerts[i] \in Alert /\ i \in ActiveAlerts(inv.row)
    BY <1>0, <1>2
  <2>2. alerts[i].row = inv.row
    BY <2>1 DEF ActiveAlerts
  <2>3. Escalated(alerts[i], inv).type = AlertType(inv.quantity)
    BY <2>1 DEF Escalated, Alert
  <2>4. QED
    BY <1>0, <2>1, <2>2, <2>3, EscalatedType
<1>6. \A r \in Rows : ActiveAlerts(r)' = ActiveAlerts(r)
  BY <1>4, <1>5 DEF ActiveAlerts
<1>7. ASSUME NEW r \in Rows, r = inv.row
      PROVE  Correct(r)'
  <2>1. ActiveAlerts(r)' = {i}
    BY <1>2, <1>6, <1>7
  <2>2. alerts'[i].type = AlertType(quantity'[r])
    BY <1>0, <1>1, <1>4, <1>5, <1>7 DEF dbVars
  <2>3. ~(quantity'[r] > Limit(threshold'[r]))
    BY <1>0, <1>3, <1>7 DEF dbVars
  <2>4. QED
    BY <2>1, <2>2, <2>3 DEF Correct
<1>8. ASSUME NEW r \in Rows, r # inv.row, Correct(r)
      PROVE  Correct(r)'
  <2>1. \A j \in ActiveAlerts(r) : alerts'[j].type = alerts[j].type
    BY <1>4, <1>5, <1>8 DEF ActiveAlerts
  <2>2. QED
    BY <1>0, <1>6, <1>8, <2>1, CorrectStays
<1>9. QED
  BY <1>0, <1>7, <1>8, WriteReflects DEF inv

\* The write of a creation leaves the row with its new alert.
LEMMA CreateReflects ==
    ASSUME SerialInv, Reflects, NEW a \in Actors, Create(a)
    PROVE  Reflects'
<1> DEFINE inv == Head(todo[a])
           new == Len(alerts) + 1
<1>0. /\ TypeOK /\ alerts \in Seq(Alert) /\ step[a] = "create"
      /\ step' = [step EXCEPT ![a] = "react"] /\ todo' = todo
      /\ UNCHANGED <<dbVars, sweepVars>> /\ Creates(inv) /\ inv \in InventoryObject
  BY Current DEF SerialInv, TypeOK, Create, Creates
<1>1. /\ inv.row \in Rows /\ inv.quantity = quantity[inv.row]
      /\ inv.limit = Limit(threshold[inv.row])
  BY <1>0, HeadFresh DEF Reflects, Working
<1>2. Plan(inv, ActiveAlerts(inv.row)) = "create"
  BY <1>0 DEF Reflects, Working, Decided
<1>3. ~(quantity[inv.row] > Limit(threshold[inv.row])) /\ ActiveAlerts(inv.row) = {}
  BY <1>1, <1>2 DEF Plan
<1>4. \A r \in Rows :
         /\ r # inv.row => ActiveAlerts(r)' = ActiveAlerts(r)
         /\ r = inv.row => ActiveAlerts(r)' = ActiveAlerts(r) \cup {new}
  BY <1>0, OneBecomesActive
<1>5. /\ \A j \in DOMAIN alerts : alerts'[j] = alerts[j]
      /\ alerts'[new] = NewAlert(inv)
  BY <1>0, AfterCreate
<1> HIDE DEF inv, new
<1>6. ASSUME NEW r \in Rows, r = inv.row
      PROVE  Correct(r)'
  <2>1. ActiveAlerts(r)' = {new}
    BY <1>3, <1>4, <1>6
  <2>2. alerts'[new].type = AlertType(quantity'[r])
    BY <1>0, <1>1, <1>5, <1>6 DEF NewAlert, dbVars
  <2>3. ~(quantity'[r] > Limit(threshold'[r]))
    BY <1>0, <1>3, <1>6 DEF dbVars
  <2>4. QED
    BY <2>1, <2>2, <2>3 DEF Correct
<1>7. ASSUME NEW r \in Rows, r # inv.row, Correct(r)
      PROVE  Correct(r)'
  <2>1. \A j \in ActiveAlerts(r) : alerts'[j].type = alerts[j].type
    BY <1>5 DEF ActiveAlerts
  <2>2. QED
    BY <1>0, <1>4, <1>7, <2>1, CorrectStays
<1>8. QED
  BY <1>0, <1>6, <1>7, WriteReflects DEF inv

\* A read that finds nothing to do has found its row as it should be; any
\* other has decided what its row needs.
LEMMA ReadReflects ==
    ASSUME SerialInv, Reflects, NEW a \in Actors, Read(a)
    PROVE  Reflects'
<1> DEFINE inv == Head(todo[a])
           found == ActiveAlerts(inv.row)
           plan == Plan(inv, found)
<1>0. /\ TypeOK /\ step \in [Actors -> Steps] /\ target \in [Actors -> Nat]
      /\ step[a] = "read" /\ Single(found)
      /\ UNCHANGED <<dbVars, sweepVars, alerts>>
  BY DEF SerialInv, TypeOK, Steps, Read
<1>1. /\ inv.row \in Rows /\ inv.quantity = quantity[inv.row]
      /\ inv.limit = Limit(threshold[inv.row])
  BY <1>0, HeadFresh DEF Reflects, Working
<1>2. \A r \in Rows : Correct(r) => Correct(r)'
  BY <1>0 DEF Correct, ActiveAlerts, dbVars
<1>3. CASE plan = "nothing" /\ Advance(a)
  <2>1. Correct(inv.row)
    <3>1. CASE inv.quantity > inv.limit
      BY <1>1, <1>3, <3>1 DEF Plan, Correct
    <3>2. CASE ~(inv.quantity > inv.limit)
      <4>1. found # {} /\ \A i \in found : alerts[i].type = AlertType(inv.quantity)
        BY <1>3, <3>2 DEF Plan
      <4>2. PICK i \in found : found = {i}
        BY <1>0, <4>1 DEF Single
      <4>3. QED
        BY <1>1, <3>2, <4>1, <4>2 DEF Correct
    <3>3. QED
      BY <3>1, <3>2
  <2>2. \A r \in Rows : (r = inv.row \/ Correct(r)) => Correct(r)'
    BY <1>2, <2>1
  <2>3. QED
    BY <1>0, <1>3, <2>2, AdvanceReflects
<1>4. CASE /\ plan # "nothing"
           /\ step' = [step EXCEPT ![a] = plan]
           /\ target' = [target EXCEPT ![a] = IF found = {} THEN 0 ELSE CHOOSE i \in found : TRUE]
           /\ todo' = todo
  <2>1. /\ step'[a] = plan /\ \A b \in Actors \ {a} : step'[b] = step[b]
        /\ target'[a] = IF found = {} THEN 0 ELSE CHOOSE i \in found : TRUE
    BY <1>0, <1>4
  <2>2. plan \in {"resolve", "escalate"} => found = {target'[a]}
    <3>1. plan \in {"resolve", "escalate"} => found # {}
      BY PlanType
    <3>2. QED
      BY <1>0, <2>1, <3>1 DEF Single
  <2>3. plan \in {"resolve", "escalate", "create"}
    BY <1>4, PlanType
  <2>4. Plan(inv, found)' = plan /\ (found' = found) /\ (inv' = inv)
    BY <1>0, <1>4 DEF Plan, ActiveAlerts
  <2>5. Decided(a)'
    <3> HIDE DEF plan
    <3>1. QED
      BY <2>1, <2>2, <2>3, <2>4 DEF Decided
  <2>6. FreshTodo(a)' /\ FreshPage(a)'
    BY <1>0, <1>4 DEF Reflects, Working, FreshTodo, FreshPage, Fresh, Loaded, dbVars, sweepVars
  <2>7. Announced(a)'
    <3> HIDE DEF plan
    <3>1. QED
      BY <2>1, <2>3 DEF Announced
  <2>8. ASSUME NEW b \in Actors \ {a}
        PROVE  Working(b)'
    BY <1>0, <1>4, <2>1, OthersIdle, IdleWorks
  <2>9. \A r \in Rows : Waits(r)' \/ Correct(r)'
    BY <1>2, <1>4 DEF Reflects, Waits
  <2>10. QED
    BY <2>5, <2>6, <2>7, <2>8, <2>9 DEF Reflects, Working
<1>5. QED
  BY <1>3, <1>4 DEF Read

\* When nothing is left to evaluate, every row is as it should be.
LEMMA NothingWaits ==
    ASSUME Reflects, \A b \in Actors : todo[b] = << >>
    PROVE  \A r \in Rows : Correct(r)
BY DEF Reflects, Waits

\* A movement gives its session the rows it has changed, as they have become.
LEMMA MoveReflects ==
    ASSUME SerialInv, Reflects, Quiet, NEW h \in Handlers, Move(h)
    PROVE  Reflects'
<1>0. /\ TypeOK /\ h \in Actors
      /\ quantity \in [Rows -> 0 .. MaxStock]
      /\ step \in [Actors -> Steps] /\ todo \in [Actors -> Seq(InventoryObject)]
      /\ UNCHANGED <<threshold, alerts, sweepVars>>
      /\ step' = [step EXCEPT ![h] = "read"]
  BY DEF SerialInv, TypeOK, Steps, Move, Actors
<1>1. \A b \in Actors : step[b] = "idle" /\ todo[b] = << >>
  BY <1>0 DEF Quiet, TypeOK
<1> DEFINE Gives ==
              /\ \A k \in DOMAIN todo'[h] :
                    todo'[h][k] = Loaded(todo'[h][k].row, quantity'[todo'[h][k].row])
              /\ \A x \in Rows :
                    quantity'[x] = quantity[x] \/ \E k \in DOMAIN todo'[h] : todo'[h][k].row = x
              /\ \A b \in Actors \ {h} : todo'[b] = todo[b]
<1>2. Gives
  <2>1. ASSUME NEW r \in Rows, NEW q \in 0 .. MaxStock,
               quantity' = [quantity EXCEPT ![r] = q],
               todo' = [todo EXCEPT ![h] = <<Loaded(r, q)>>]
        PROVE  Gives
    <3>1. todo'[h] = <<Loaded(r, q)>> /\ Loaded(r, q).row = r /\ quantity'[r] = q
      BY <1>0, <2>1 DEF Loaded
    <3>2. DOMAIN todo'[h] = {1} /\ todo'[h][1] = Loaded(r, q)
      BY <3>1
    <3>3. \A x \in Rows : x # r => quantity'[x] = quantity[x]
      BY <1>0, <2>1
    <3>4. QED
      BY <1>0, <2>1, <3>1, <3>2, <3>3
  <2>2. ASSUME NEW r \in Rows, NEW t \in Rows, NEW n \in 1 .. quantity[r], r # t,
               quantity' = [quantity EXCEPT ![r] = @ - n, ![t] = @ + n],
               todo' = [todo EXCEPT ![h] = <<Loaded(r, quantity[r] - n),
                                              Loaded(t, quantity[t] + n)>>]
        PROVE  Gives
    <3> DEFINE x1 == Loaded(r, quantity[r] - n)
               x2 == Loaded(t, quantity[t] + n)
    <3>1. x1.row = r /\ x2.row = t
      BY DEF Loaded
    <3>2. quantity'[r] = quantity[r] - n /\ quantity'[t] = quantity[t] + n
      BY <1>0, <2>2
    <3>3. x1 = Loaded(r, quantity'[r]) /\ x2 = Loaded(t, quantity'[t])
      BY <3>2
    <3>4. \A x \in Rows : x # r /\ x # t => quantity'[x] = quantity[x]
      BY <1>0, <2>2
    <3> HIDE DEF x1, x2
    <3>5. todo' = [todo EXCEPT ![h] = <<x1, x2>>]
      BY <2>2 DEF x1, x2
    <3>6. todo'[h] = <<x1, x2>> /\ \A b \in Actors \ {h} : todo'[b] = todo[b]
      BY <1>0, <3>5
    <3>7. DOMAIN todo'[h] = {1, 2} /\ todo'[h][1] = x1 /\ todo'[h][2] = x2
      BY <3>6
    <3>8. QED
      BY <3>1, <3>3, <3>4, <3>6, <3>7
  <2>3. QED
    BY <2>1, <2>2 DEF Move
<1>3. ASSUME NEW r \in Rows
      PROVE  Waits(r)' \/ Correct(r)'
  <2>1. CASE quantity'[r] = quantity[r]
    BY <1>0, <1>1, <2>1, NothingWaits DEF Correct, ActiveAlerts
  <2>2. CASE \E k \in DOMAIN todo'[h] : todo'[h][k].row = r
    BY <1>0, <2>2 DEF Waits
  <2>3. QED
    BY <1>2, <2>1, <2>2
<1>4. Working(h)'
  <2>1. FreshTodo(h)'
    BY <1>0, <1>2 DEF FreshTodo, Fresh, Loaded
  <2>2. FreshPage(h)'
    BY ActorsAssumption DEF FreshPage
  <2>3. Decided(h)' /\ Announced(h)'
    BY <1>0 DEF Decided, Announced
  <2>4. QED
    BY <2>1, <2>2, <2>3 DEF Working
<1>5. ASSUME NEW b \in Actors \ {h}
      PROVE  Working(b)'
  <2>1. step'[b] = "idle" /\ todo'[b] = << >>
    BY <1>0, <1>1, <1>2
  <2>2. QED
    BY <2>1, IdleWorks
<1>6. QED
  BY <1>3, <1>4, <1>5 DEF Reflects

\* A sweep starts with an empty session.
LEMMA StartReflects ==
    ASSUME SerialInv, Reflects, Quiet, NEW a \in Sweepers, StartSweep(a)
    PROVE  Reflects'
<1>0. /\ TypeOK /\ a \in Actors
      /\ step \in [Actors -> Steps] /\ batch \in [Sweepers -> SUBSET InventoryObject]
      /\ UNCHANGED <<dbVars, alerts, todo>>
      /\ step' = [step EXCEPT ![a] = "page"] /\ batch' = [batch EXCEPT ![a] = {}]
  BY DEF SerialInv, TypeOK, Steps, StartSweep, Actors
<1>1. \A b \in Actors : step[b] = "idle" /\ todo[b] = << >>
  BY <1>0 DEF Quiet, TypeOK
<1>2. \A r \in Rows : Correct(r)'
  BY <1>0, <1>1, NothingWaits DEF Correct, ActiveAlerts, dbVars
<1>3. Working(a)'
  BY <1>0, <1>1 DEF Working, FreshTodo, FreshPage, Decided, Announced
<1>4. ASSUME NEW b \in Actors \ {a}
      PROVE  Working(b)'
  BY <1>0, <1>1, IdleWorks
<1>5. QED
  BY <1>2, <1>3, <1>4 DEF Reflects

\* The objects of a page are fresh, the ones the session still had included.
LEMMA PageReflects ==
    ASSUME SerialInv, Reflects, NEW a \in Sweepers, FetchPage(a)
    PROVE  Reflects'
<1> DEFINE n == Len(Page(a))
           objects == [k \in 1 .. n |-> ObjectOf(a, Page(a)[k])]
<1>0. /\ TypeOK /\ a \in Actors /\ step[a] = "page"
      /\ step \in [Actors -> Steps] /\ todo \in [Actors -> Seq(InventoryObject)]
      /\ batch \in [Sweepers -> SUBSET InventoryObject]
      /\ UNCHANGED <<dbVars, alerts>>
      /\ step' = [step EXCEPT ![a] = "read"]
      /\ todo' = [todo EXCEPT ![a] = objects]
      /\ batch' = [batch EXCEPT ![a] = {objects[k] : k \in DOMAIN objects}]
  BY DEF SerialInv, TypeOK, Steps, FetchPage, Actors
<1>1. todo[a] = << >>
  BY <1>0 DEF TypeOK
<1>2. \A b \in Actors \ {a} : step[b] = "idle" /\ todo[b] = << >>
  BY <1>0, OthersIdle
<1>3. \A r : Fresh(ObjectOf(a, r))
  <2> SUFFICES ASSUME NEW r
               PROVE  Fresh(ObjectOf(a, r))
    OBVIOUS
  <2>1. CASE \E inv \in batch[a] : inv.row = r
    <3>1. ObjectOf(a, r) \in batch[a]
      BY <2>1 DEF ObjectOf
    <3>2. QED
      BY <1>0, <3>1 DEF Reflects, Working, FreshPage
  <2>2. CASE ~(\E inv \in batch[a] : inv.row = r)
    BY <2>2 DEF ObjectOf, Fresh, Loaded
  <2>3. QED
    BY <2>1, <2>2
<1>4. \A k \in DOMAIN objects : Fresh(objects[k])
  BY <1>3
<1> HIDE DEF objects, n
<1>5. todo'[a] = objects /\ batch'[a] = {objects[k] : k \in DOMAIN objects}
  BY <1>0
<1>6. Working(a)'
  <2>1. FreshTodo(a)' /\ FreshPage(a)'
    BY <1>0, <1>4, <1>5 DEF FreshTodo, FreshPage, Fresh, Loaded, dbVars
  <2>2. Decided(a)' /\ Announced(a)'
    BY <1>0 DEF Decided, Announced
  <2>3. QED
    BY <2>1, <2>2 DEF Working
<1>7. ASSUME NEW b \in Actors \ {a}
      PROVE  Working(b)'
  BY <1>0, <1>2, IdleWorks
<1>8. \A r \in Rows : Correct(r)'
  BY <1>0, <1>1, <1>2, NothingWaits DEF Correct, ActiveAlerts, dbVars
<1>9. QED
  BY <1>6, <1>7, <1>8 DEF Reflects

\* A sweep that is over leaves nothing.
LEMMA FinishReflects ==
    ASSUME SerialInv, Reflects, NEW a \in Sweepers, FinishSweep(a)
    PROVE  Reflects'
<1>0. /\ TypeOK /\ a \in Actors /\ step[a] = "page"
      /\ step \in [Actors -> Steps] /\ todo \in [Actors -> Seq(InventoryObject)]
      /\ UNCHANGED <<dbVars, alerts>> /\ EndSession(a)
  BY DEF SerialInv, TypeOK, Steps, FinishSweep, Actors
<1>1. todo[a] = << >> /\ \A b \in Actors \ {a} : step[b] = "idle" /\ todo[b] = << >>
  BY <1>0, OthersIdle DEF TypeOK
<1>2. \A b \in Actors : step'[b] = "idle" /\ todo'[b] = << >>
  BY <1>0, <1>1 DEF EndSession
<1>3. \A r \in Rows : Correct(r)'
  BY <1>0, <1>1, NothingWaits DEF Correct, ActiveAlerts, dbVars
<1>4. QED
  BY <1>2, <1>3, IdleWorks DEF Reflects

\* What a step can be that no session dies in, and nobody edits or resolves.
LEMMA HarmlessSteps ==
    ASSUME TypeOK, UsedOK, [SerialNext]_vars
    PROVE  /\ UsedOK'
           /\ Undisturbed' =>
                 /\ Undisturbed
                 /\ \/ UNCHANGED vars
                    \/ \E h \in Handlers : Quiet /\ Move(h)
                    \/ \E a \in Actors : Evaluate(a)
                    \/ \E a \in Sweepers : (Quiet /\ StartSweep(a)) \/ FetchPage(a) \/ FinishSweep(a)
                    \/ \E d \in Admins : Ask(d)
<1>0. used.crashes \in Nat /\ used.edits \in Nat
  BY DEF UsedOK
<1>1. ASSUME used' = used, confirmed' = confirmed
      PROVE  UsedOK' /\ (Undisturbed' => Undisturbed)
  BY <1>1 DEF UsedOK, Undisturbed
<1>2. ASSUME NEW a \in Actors, Crash(a)
      PROVE  UsedOK' /\ ~Undisturbed'
  BY <1>0, <1>2 DEF Crash, UsedOK, Undisturbed
<1>3. ASSUME NEW r \in Rows, Edit(r)
      PROVE  UsedOK' /\ ~Undisturbed'
  BY <1>0, <1>3 DEF Edit, UsedOK, Undisturbed
<1>4. ASSUME NEW d \in Admins, Confirm(d)
      PROVE  UsedOK' /\ ~Undisturbed'
  <2>1. confirmed \in Seq(DOMAIN alerts) /\ asking[d] \in DOMAIN alerts
    BY <1>4 DEF Confirm, TypeOK
  <2>2. confirmed' # << >>
    BY <1>4, <2>1, Insert DEF Confirm
  <2>3. QED
    BY <1>4, <2>2 DEF Confirm, UsedOK, Undisturbed
<1>5. ASSUME NEW a \in Actors, Evaluate(a)
      PROVE  UsedOK' /\ (Undisturbed' => Undisturbed)
  <2>1. CASE React(a)
    BY <2>1 DEF React, UsedOK, Undisturbed, adminVars
  <2>2. CASE ~React(a)
    BY <1>1, <1>5, <2>2
       DEF Evaluate, Read, ReadRaises, Resolve, Escalate, Create, adminVars
  <2>3. QED
    BY <2>1, <2>2
<1>6. ASSUME NEW h \in Handlers, Move(h)
      PROVE  UsedOK' /\ (Undisturbed' => Undisturbed)
  BY <1>6 DEF Move, UsedOK, Undisturbed, adminVars
<1>7. ASSUME NEW a \in Sweepers, StartSweep(a) \/ FetchPage(a) \/ FinishSweep(a)
      PROVE  UsedOK' /\ (Undisturbed' => Undisturbed)
  BY <1>1, <1>7 DEF StartSweep, FetchPage, FinishSweep, adminVars
<1>8. ASSUME NEW d \in Admins, Ask(d)
      PROVE  UsedOK' /\ (Undisturbed' => Undisturbed)
  BY <1>1, <1>8 DEF Ask
<1>9. CASE UNCHANGED vars
  BY <1>1, <1>9 DEF vars
<1>10. CASE SerialNext
  <2>1. CASE \/ \E r \in Rows : Edit(r)
             \/ \E a \in Actors : Crash(a)
             \/ \E d \in Admins : Confirm(d)
    BY <1>2, <1>3, <1>4, <2>1
  <2>2. CASE \E a \in Actors : Evaluate(a)
    BY <1>5, <2>2
  <2>3. CASE \E h \in Handlers : Quiet /\ Move(h)
    BY <1>6, <2>3
  <2>4. CASE \E a \in Sweepers : (Quiet /\ StartSweep(a)) \/ FetchPage(a) \/ FinishSweep(a)
    BY <1>7, <2>4
  <2>5. CASE \E d \in Admins : Ask(d)
    BY <1>8, <2>5
  <2>6. QED
    BY <1>10, <2>1, <2>2, <2>3, <2>4, <2>5 DEF SerialNext
<1>11. QED
  BY <1>9, <1>10

\* An evaluation leaves its row closer to what it should be.
LEMMA EvaluateReflects ==
    ASSUME SerialInv, Reflects, NEW a \in Actors, Evaluate(a)
    PROVE  Reflects'
<1>0. TypeOK
  BY DEF SerialInv
<1>1. ASSUME React(a)
      PROVE  Reflects'
  <2>1. /\ step[a] = "react" /\ Advance(a) /\ UNCHANGED <<dbVars, alerts, sweepVars>>
    BY <1>1 DEF React
  <2>2. Correct(Head(todo[a]).row)
    BY <2>1 DEF Reflects, Working, Announced
  <2>3. \A r \in Rows : (r = Head(todo[a]).row \/ Correct(r)) => Correct(r)'
    BY <2>1, <2>2 DEF Correct, ActiveAlerts, dbVars
  <2>4. QED
    BY <2>1, <2>3, AdvanceReflects
<1>2. ASSUME ReadRaises(a)
      PROVE  FALSE
  <2>1. Head(todo[a]).row \in Rows
    BY <1>0, <1>2, Current DEF ReadRaises, InventoryObject
  <2>2. QED
    BY <1>2, <2>1 DEF ReadRaises, SerialInv, AtMostOneActive
<1>3. QED
  BY <1>1, <1>2, ReadReflects, ResolveReflects, EscalateReflects, CreateReflects DEF Evaluate

\* What is assumed of the sessions so far carries over to the next step.
ReflectsInv == SerialInv /\ UsedOK /\ (Undisturbed => Reflects)

LEMMA ReflectsStep == ReflectsInv /\ [SerialNext]_vars => ReflectsInv'
<1> SUFFICES ASSUME ReflectsInv, [SerialNext]_vars
             PROVE  ReflectsInv'
  OBVIOUS
<1>0. SerialInv /\ TypeOK /\ UsedOK
  BY DEF ReflectsInv, SerialInv
<1>1. SerialInv' /\ UsedOK'
  BY <1>0, SerialStep, HarmlessSteps
<1>2. ASSUME Undisturbed'
      PROVE  Reflects'
  <2>0. Reflects
    BY <1>0, <1>2, HarmlessSteps DEF ReflectsInv
  <2>1. CASE UNCHANGED <<dbVars, alerts, step, todo, target, sweepVars>>
    BY <2>0, <2>1
       DEF Reflects, Waits, Working, FreshTodo, FreshPage, Decided, Announced, Fresh, Loaded,
           Plan, Correct, ActiveAlerts, dbVars, sweepVars
  <2>2. CASE UNCHANGED vars \/ \E d \in Admins : Ask(d)
    BY <2>1, <2>2 DEF vars, Ask, dbVars, sweepVars
  <2>3. QED
    BY <1>0, <1>2, <2>0, <2>2, HarmlessSteps, MoveReflects, EvaluateReflects, StartReflects,
       PageReflects, FinishReflects
<1>3. QED
  BY <1>1, <1>2 DEF ReflectsInv

\* "Alert state must reflect the movement that just happened before the request
\* returns": it does for requests and sweeps that come one after another, from
\* the first movement on, as long as nothing comes between.
THEOREM AlertsReflectMovements == SerialSpec => []ReflectsMovements
<1>1. Init => ReflectsInv
  <2> SUFFICES ASSUME Init PROVE ReflectsInv
    OBVIOUS
  <2>1. SerialInv /\ UsedOK
    BY InitSerial DEF Init, UsedOK
  <2>2. \A r \in Rows : Correct(r)
    BY BoundsAssumption, ThresholdAssumption DEF Init, Correct, ActiveAlerts, Limit
  <2>3. \A a \in Actors : Working(a)
    BY ActorsAssumption DEF Init, Working, FreshTodo, FreshPage, Decided, Announced
  <2>4. QED
    BY <2>1, <2>2, <2>3 DEF ReflectsInv, Reflects
<1>2. ReflectsInv => ReflectsMovements
  <2> SUFFICES ASSUME ReflectsInv, Undisturbed, Quiet
               PROVE  \A r \in Rows : Correct(r)
    BY DEF ReflectsMovements, Undisturbed
  <2>1. \A b \in Actors : todo[b] = << >>
    BY DEF ReflectsInv, SerialInv, TypeOK, Quiet
  <2>2. QED
    BY <2>1, NothingWaits DEF ReflectsInv
<1>3. QED
  BY <1>1, <1>2, ReflectsStep, PTL DEF SerialSpec
=============================================================================
