---------------------------- MODULE AlertService ----------------------------
(***************************************************************************)
(* AlertService (app/services/alert.py) under everything that calls it:    *)
(* request handlers after their movement has committed (app/services/      *)
(* inventory_command.py), the periodic sweep (app/tasks/alerts.py) and the *)
(* manual resolution endpoint, all at READ COMMITTED and without locks on  *)
(* the alerts table.                                                       *)
(*                                                                         *)
(* An evaluation reads the active alert of its pair in one step and writes *)
(* in a later one, working with the quantity its Inventory object had when *)
(* it was loaded: in a handler at its commit, in the sweep at its page.    *)
(***************************************************************************)
EXTENDS Integers, Sequences, FiniteSets

CONSTANTS
    Rows,               \* inventory rows, one per (product, warehouse) pair
    Handlers,           \* request handlers that record movements
    Sweepers,           \* executions of check_low_stock_levels at one time
    Admins,             \* clients of the resolve endpoint
    MaxStock,           \* bound: stock of a row
    Thresholds,         \* values low_stock_threshold is edited to
    NoThreshold,        \* low_stock_threshold is NULL
    DefaultThreshold,   \* settings.low_stock_alert_threshold_default
    BatchSize,          \* _BATCH_SIZE of the sweep
    MaxMoves,           \* bound: movements recorded
    MaxEdits,           \* bound: out-of-band corrections
    MaxCrashes,         \* bound: sessions that die on the way
    MaxOutages,         \* bound: enqueues the broker refuses
    MaxAlerts           \* bound: admins act while there are fewer alerts

ASSUME ActorsAssumption == Handlers \cap Sweepers = {}
ASSUME RowsAssumption == IsFiniteSet(Rows)
ASSUME ThresholdAssumption ==
    /\ NoThreshold \notin Nat
    /\ Thresholds \subseteq Nat \cup {NoThreshold}
    /\ DefaultThreshold \in Nat
ASSUME BoundsAssumption ==
    /\ MaxStock \in Nat /\ MaxStock > DefaultThreshold /\ BatchSize \in Nat \ {0}
    /\ MaxMoves \in Nat /\ MaxEdits \in Nat /\ MaxCrashes \in Nat
    /\ MaxOutages \in Nat /\ MaxAlerts \in Nat

Actors == Handlers \cup Sweepers

VARIABLES
    quantity,   \* database: committed stock of every row
    threshold,  \* database: low_stock_threshold of every row
    heap,       \* database: the order an unordered SELECT returns rows in
    alerts,     \* database: the alerts table, an alert's id is its position
    step,       \* what each evaluating session does next
    todo,       \* the Inventory objects it has to evaluate, current one first
    target,     \* id of the Alert object its evaluation loaded, 0 for None
    skip,       \* offset of each sweep's next page
    batch,      \* the Inventory objects of each sweep's latest page
    visited,    \* history: rows each sweep has loaded since it started
    outbox,     \* ids of the alerts whose email task was enqueued
    asking,     \* the alert each admin has loaded and not yet resolved, or 0
    confirmed,  \* history: ids the resolve endpoint answered 200 for, in order
    used        \* how much of every bound is used up

dbVars == <<quantity, threshold, heap>>
sweepVars == <<skip, batch, visited>>
adminVars == <<asking, confirmed>>
vars == <<quantity, threshold, heap, alerts, step, todo, target, skip, batch, visited,
          outbox, asking, confirmed, used>>

-----------------------------------------------------------------------------
(* The data of alerts *)

\* The quantity an evaluation compares with.
Limit(t) == IF t = NoThreshold THEN DefaultThreshold ELSE t

AlertType(q) == IF q = 0 THEN "OUT_OF_STOCK" ELSE "LOW_STOCK"

NewAlert(inv) == [row |-> inv.row, status |-> "ACTIVE", type |-> AlertType(inv.quantity),
                  trigger |-> inv.quantity, threshold |-> inv.limit]

\* An Inventory object, loaded with the committed values of its row.
Loaded(r, q) == [row |-> r, quantity |-> q, limit |-> Limit(threshold[r])]

\* get_active_by_product_and_warehouse, before scalar_one_or_none.
ActiveAlerts(r) == {i \in DOMAIN alerts : alerts[i].row = r /\ alerts[i].status = "ACTIVE"}

\* At most one element.
Single(S) == \A i, j \in S : i = j

\* The orders a table can be scanned in, and the ones an UPDATE of row r can
\* leave it in: the new version of r is stored wherever there is space, the
\* others stay.
Orders == {s \in [1 .. Cardinality(Rows) -> Rows] : {s[i] : i \in DOMAIN s} = Rows}

Before(s, x, y) == \E i, j \in DOMAIN s : i < j /\ s[i] = x /\ s[j] = y

Moved(order, r) ==
    {s \in Orders : \A x, y \in Rows \ {r} : Before(s, x, y) <=> Before(order, x, y)}

-----------------------------------------------------------------------------
(* Actions *)

\* A well stocked warehouse and no alerts.
Init ==
    /\ quantity = [r \in Rows |-> MaxStock]
    /\ threshold = [r \in Rows |-> NoThreshold]
    /\ heap \in Orders
    /\ alerts = << >>
    /\ step = [a \in Actors |-> "idle"]
    /\ todo = [a \in Actors |-> << >>]
    /\ target = [a \in Actors |-> 0]
    /\ skip = [a \in Sweepers |-> 0]
    /\ batch = [a \in Sweepers |-> {}]
    /\ visited = [a \in Sweepers |-> {}]
    /\ outbox = {}
    /\ asking = [d \in Admins |-> 0]
    /\ confirmed = << >>
    /\ used = [moves |-> 0, edits |-> 0, crashes |-> 0, outages |-> 0]

\* The evaluation of the current object is over: the next one, or the end of
\* the request, or the sweep's next page.
Advance(a) ==
    /\ todo' = [todo EXCEPT ![a] = Tail(@)]
    /\ target' = [target EXCEPT ![a] = 0]
    /\ step' = [step EXCEPT ![a] = IF Len(todo[a]) > 1 THEN "read"
                                   ELSE IF a \in Handlers THEN "idle" ELSE "page"]

\* The session is closed with whatever it had left to do.
EndSession(a) ==
    /\ step' = [step EXCEPT ![a] = "idle"]
    /\ todo' = [todo EXCEPT ![a] = << >>]
    /\ target' = [target EXCEPT ![a] = 0]

\* A handler commits an IN or OUT movement of row r, or a TRANSFER from r to t,
\* and goes on to evaluate the affected rows with the quantities it wrote.
Move(h) ==
    /\ step[h] = "idle"
    /\ used.moves < MaxMoves
    /\ used' = [used EXCEPT !.moves = @ + 1]
    /\ step' = [step EXCEPT ![h] = "read"]
    /\ \/ \E r \in Rows, q \in 0 .. MaxStock :
             /\ q # quantity[r]
             /\ quantity' = [quantity EXCEPT ![r] = q]
             /\ todo' = [todo EXCEPT ![h] = <<Loaded(r, q)>>]
             /\ heap' \in Moved(heap, r)
       \/ \E r, t \in Rows : \E n \in 1 .. quantity[r] :
             /\ r # t
             /\ quantity[t] + n <= MaxStock
             /\ quantity' = [quantity EXCEPT ![r] = @ - n, ![t] = @ + n]
             /\ todo' = [todo EXCEPT ![h] = <<Loaded(r, quantity[r] - n),
                                              Loaded(t, quantity[t] + n)>>]
             /\ \E order \in Moved(heap, r) : heap' \in Moved(order, t)
    /\ UNCHANGED <<threshold, alerts, target, sweepVars, outbox, adminVars>>

\* A manual correction of the database: no session evaluates the row.
Edit(r) ==
    /\ used.edits < MaxEdits
    /\ used' = [used EXCEPT !.edits = @ + 1]
    /\ \/ \E q \in 0 .. MaxStock :
             q # quantity[r] /\ quantity' = [quantity EXCEPT ![r] = q] /\ UNCHANGED threshold
       \/ \E t \in Thresholds :
             t # threshold[r] /\ threshold' = [threshold EXCEPT ![r] = t] /\ UNCHANGED quantity
    /\ heap' \in Moved(heap, r)
    /\ UNCHANGED <<alerts, step, todo, target, sweepVars, outbox, adminVars>>

\* Mutant of Plan: a low quantity always gets a new alert.
PlanCreating(inv, found) ==
    IF inv.quantity <= inv.limit THEN "create"
    ELSE IF found = {} THEN "nothing" ELSE "resolve"

\* Mutant of Plan: an active alert is left as it is whatever its type.
PlanNotEscalating(inv, found) ==
    IF inv.quantity <= inv.limit
    THEN IF found = {} THEN "create" ELSE "nothing"
    ELSE IF found = {} THEN "nothing" ELSE "resolve"

\* Mutant of Plan: a recovered row is resolved without asking for an alert.
PlanResolvingNone(inv, found) ==
    IF inv.quantity > inv.limit THEN "resolve"
    ELSE IF found = {} THEN "create" ELSE "nothing"

\* What evaluate_stock_level decides with the active alerts it has found.
Plan(inv, found) ==
    IF inv.quantity > inv.limit
    THEN IF found = {} THEN "nothing" ELSE "resolve"
    ELSE IF found = {} THEN "create"
    ELSE IF \E i \in found : alerts[i].type # AlertType(inv.quantity) THEN "escalate"
    ELSE "nothing"

\* The read of evaluate_stock_level and its decision.
Read(a) ==
    /\ step[a] = "read"
    /\ LET inv == Head(todo[a])
           found == ActiveAlerts(inv.row)
       IN /\ Single(found)
          /\ \/ Plan(inv, found) = "nothing" /\ Advance(a)
             \/ /\ Plan(inv, found) # "nothing"
                /\ step' = [step EXCEPT ![a] = Plan(inv, found)]
                /\ target' = [target EXCEPT ![a] = IF found = {} THEN 0 ELSE CHOOSE i \in found : TRUE]
                /\ UNCHANGED todo
    /\ UNCHANGED <<dbVars, alerts, sweepVars, outbox, adminVars, used>>

\* Two active alerts: scalar_one_or_none raises MultipleResultsFound, which
\* ends the request with an error, or the whole sweep.
ReadRaises(a) ==
    /\ step[a] = "read"
    /\ ~Single(ActiveAlerts(Head(todo[a]).row))
    /\ EndSession(a)
    /\ UNCHANGED <<dbVars, alerts, sweepVars, outbox, adminVars, used>>

\* _resolve of the alert that was found: the UPDATE names its id only.
Resolve(a) ==
    /\ step[a] = "resolve"
    /\ alerts' = [alerts EXCEPT ![target[a]].status = "RESOLVED"]
    /\ Advance(a)
    /\ UNCHANGED <<dbVars, sweepVars, outbox, adminVars, used>>

\* Mutant of Escalated: the whole object is written back, status included.
EscalatedWhole(alert, inv) ==
    [alert EXCEPT !.type = AlertType(inv.quantity), !.trigger = inv.quantity,
                  !.status = "ACTIVE"]

\* Mutant of Escalated: quantity_at_trigger keeps its old value.
EscalatedTypeOnly(alert, inv) == [alert EXCEPT !.type = AlertType(inv.quantity)]

\* The columns an escalation writes, by id and whatever the status has become.
Escalated(alert, inv) ==
    [alert EXCEPT !.type = AlertType(inv.quantity), !.trigger = inv.quantity]

Escalate(a) ==
    /\ step[a] = "escalate"
    /\ alerts' = [alerts EXCEPT ![target[a]] = Escalated(@, Head(todo[a]))]
    /\ step' = [step EXCEPT ![a] = "react"]
    /\ UNCHANGED <<dbVars, todo, target, sweepVars, outbox, adminVars, used>>

Create(a) ==
    /\ step[a] = "create"
    /\ alerts' = Append(alerts, NewAlert(Head(todo[a])))
    /\ target' = [target EXCEPT ![a] = Len(alerts')]
    /\ step' = [step EXCEPT ![a] = "react"]
    /\ UNCHANGED <<dbVars, todo, sweepVars, outbox, adminVars, used>>

\* Mutant of Email: only the creation of an alert is worth an email.
EmailIfNew(a) ==
    IF \E e \in outbox : e.alert = target[a] THEN {}
    ELSE {[alert |-> target[a], type |-> alerts[target[a]].type]}

\* The task that is enqueued for the alert; its type is history.
Email(a) == {[alert |-> target[a], type |-> alerts[target[a]].type]}

\* _react_to_alert, after the commit: an event for the WebSocket clients and
\* send_low_stock_alert_email.delay.  When the broker refuses the task the
\* exception is swallowed and the evaluation goes on.
React(a) ==
    /\ step[a] = "react"
    /\ \/ outbox' = outbox \cup Email(a) /\ UNCHANGED used
       \/ /\ used.outages < MaxOutages
          /\ used' = [used EXCEPT !.outages = @ + 1]
          /\ UNCHANGED outbox
    /\ Advance(a)
    /\ UNCHANGED <<dbVars, alerts, sweepVars, adminVars>>

\* The process of a session dies, or its connection is lost.
Crash(a) ==
    /\ step[a] # "idle"
    /\ used.crashes < MaxCrashes
    /\ used' = [used EXCEPT !.crashes = @ + 1]
    /\ EndSession(a)
    /\ UNCHANGED <<dbVars, alerts, sweepVars, outbox, adminVars>>

\* Celery Beat has the sweep executed.
StartSweep(a) ==
    /\ step[a] = "idle"
    /\ step' = [step EXCEPT ![a] = "page"]
    /\ skip' = [skip EXCEPT ![a] = 0]
    /\ batch' = [batch EXCEPT ![a] = {}]
    /\ visited' = [visited EXCEPT ![a] = {}]
    /\ UNCHANGED <<dbVars, alerts, todo, target, outbox, adminVars, used>>

\* Mutant of Page: the page starts one row late.
PageLate(a) ==
    LET end == skip[a] + BatchSize + 1
    IN SubSeq(heap, skip[a] + 2, IF end < Len(heap) THEN end ELSE Len(heap))

\* The rows list_all(skip, limit) returns: OFFSET and LIMIT with no ORDER BY.
Page(a) ==
    LET end == skip[a] + BatchSize
    IN SubSeq(heap, skip[a] + 1, IF end < Len(heap) THEN end ELSE Len(heap))

\* The object of row r in a's session.  One of the latest page is still in the
\* session's identity map, and a SELECT does not refresh it.
ObjectOf(a, r) ==
    IF \E inv \in batch[a] : inv.row = r
    THEN CHOOSE inv \in batch[a] : inv.row = r
    ELSE Loaded(r, quantity[r])

FetchPage(a) ==
    /\ step[a] = "page"
    /\ Page(a) # << >>
    /\ LET objects == [k \in 1 .. Len(Page(a)) |-> ObjectOf(a, Page(a)[k])]
       IN /\ todo' = [todo EXCEPT ![a] = objects]
          /\ batch' = [batch EXCEPT ![a] = {objects[k] : k \in DOMAIN objects}]
    /\ visited' = [visited EXCEPT ![a] = @ \cup {Page(a)[k] : k \in DOMAIN Page(a)}]
    /\ skip' = [skip EXCEPT ![a] = @ + BatchSize]
    /\ step' = [step EXCEPT ![a] = "read"]
    /\ UNCHANGED <<dbVars, alerts, target, outbox, adminVars, used>>

\* An empty page ends the sweep.
FinishSweep(a) ==
    /\ step[a] = "page"
    /\ Page(a) = << >>
    /\ EndSession(a)
    /\ UNCHANGED <<dbVars, alerts, sweepVars, outbox, adminVars, used>>

\* resolve_alert reads the alert; one that is resolved is a ConflictError,
\* which changes nothing.
Ask(d) ==
    /\ asking[d] = 0
    /\ Len(alerts) < MaxAlerts
    /\ \E i \in DOMAIN alerts :
          alerts[i].status = "ACTIVE" /\ asking' = [asking EXCEPT ![d] = i]
    /\ UNCHANGED <<dbVars, alerts, step, todo, target, sweepVars, outbox, confirmed, used>>

\* ... and resolves it, by id, in a later step.
Confirm(d) ==
    /\ asking[d] # 0
    /\ alerts' = [alerts EXCEPT ![asking[d]].status = "RESOLVED"]
    /\ confirmed' = Append(confirmed, asking[d])
    /\ asking' = [asking EXCEPT ![d] = 0]
    /\ UNCHANGED <<dbVars, step, todo, target, sweepVars, outbox, used>>

Evaluate(a) ==
    \/ Read(a)
    \/ ReadRaises(a)
    \/ Resolve(a)
    \/ Escalate(a)
    \/ Create(a)
    \/ React(a)

Sweep(a) == StartSweep(a) \/ FetchPage(a) \/ FinishSweep(a)

Next ==
    \/ \E h \in Handlers : Move(h)
    \/ \E r \in Rows : Edit(r)
    \/ \E a \in Actors : Evaluate(a) \/ Crash(a)
    \/ \E a \in Sweepers : Sweep(a)
    \/ \E d \in Admins : Ask(d) \/ Confirm(d)

Spec == Init /\ [][Next]_vars

\* A session that can go on does, and Celery Beat starts the sweep again and
\* again.  Movements, edits, crashes and admins come when they like.
Fairness ==
    /\ \A a \in Actors : WF_vars(Evaluate(a))
    /\ \A a \in Sweepers : WF_vars(Sweep(a))

FairSpec == Spec /\ Fairness

Quiet == \A a \in Actors : step[a] = "idle"

\* Requests and sweeps one after the other: none starts its evaluations while
\* another has some left.  Edits and admins still come at any time.
SerialNext ==
    \/ \E h \in Handlers : Quiet /\ Move(h)
    \/ \E r \in Rows : Edit(r)
    \/ \E a \in Actors : Evaluate(a) \/ Crash(a)
    \/ \E a \in Sweepers : (Quiet /\ StartSweep(a)) \/ FetchPage(a) \/ FinishSweep(a)
    \/ \E d \in Admins : Ask(d) \/ Confirm(d)

SerialSpec == Init /\ [][SerialNext]_vars

FairSerialSpec == SerialSpec /\ Fairness

-----------------------------------------------------------------------------
(* Properties *)

InventoryObject == [row : Rows, quantity : 0 .. MaxStock, limit : Nat]

Alert == [row : Rows, status : {"ACTIVE", "RESOLVED"}, type : {"LOW_STOCK", "OUT_OF_STOCK"},
          trigger : 0 .. MaxStock, threshold : Nat]

\* The type invariant.
TypeOK ==
    /\ quantity \in [Rows -> 0 .. MaxStock]
    /\ threshold \in [Rows -> Nat \cup {NoThreshold}]
    /\ heap \in Orders
    /\ alerts \in Seq(Alert)
    /\ step \in [Actors -> {"idle", "page", "read", "resolve", "escalate", "create", "react"}]
    /\ todo \in [Actors -> Seq(InventoryObject)]
    /\ \A a \in Actors : step[a] \in {"idle", "page"} <=> todo[a] = << >>
    /\ target \in [Actors -> Nat]
    /\ \A a \in Actors : step[a] \in {"resolve", "escalate", "react"} <=> target[a] # 0
    /\ \A a \in Actors : target[a] \in {0} \cup DOMAIN alerts
    /\ skip \in [Sweepers -> Nat]
    /\ batch \in [Sweepers -> SUBSET InventoryObject]
    /\ visited \in [Sweepers -> SUBSET Rows]
    /\ outbox \subseteq [alert : DOMAIN alerts, type : {"LOW_STOCK", "OUT_OF_STOCK"}]
    /\ asking \in [Admins -> {0} \cup DOMAIN alerts] /\ confirmed \in Seq(DOMAIN alerts)

\* An alert's type and its quantity_at_trigger agree, whichever of several
\* evaluations created, escalated or de-escalated it, and however old the
\* quantity they worked with was.
TypeMatchesTrigger ==
    \A i \in DOMAIN alerts : alerts[i].type = AlertType(alerts[i].trigger)

\* A resolved alert stays resolved, also under an escalation that had loaded
\* it while it was active; and alerts are never removed.
ResolvedIsFinal ==
    [][\A i \in DOMAIN alerts :
          /\ i \in DOMAIN alerts'
          /\ alerts[i].status = "RESOLVED" => alerts'[i].status = "RESOLVED"]_vars

\* The docstring of get_active_by_product_and_warehouse: a pair never has more
\* than one active alert at a time.
AtMostOneActive == \A r \in Rows : Single(ActiveAlerts(r))

\* The alert state a row should have: no active alert above the limit, and
\* else exactly one, of the type of its quantity.
Correct(r) ==
    IF quantity[r] > Limit(threshold[r]) THEN ActiveAlerts(r) = {}
    ELSE \E i \in ActiveAlerts(r) :
            ActiveAlerts(r) = {i} /\ alerts[i].type = AlertType(quantity[r])

\* "Alert state must reflect the movement that just happened before the
\* request returns": once the requests have returned, it does, unless a session
\* died, the database was edited behind its back or an alert resolved by hand.
ReflectsMovements ==
    (Quiet /\ used.crashes = 0 /\ used.edits = 0 /\ confirmed = << >>) =>
        \A r \in Rows : Correct(r)

\* The part of it that does not depend on duplicates: a row is low when some
\* alert is active, and only then.
LowIffAlert ==
    Quiet => \A r \in Rows : quantity[r] <= Limit(threshold[r]) <=> ActiveAlerts(r) # {}

\* The sweep is self-healing: when movements and edits have ceased, the alert
\* state becomes what it should be and stays so.
Heals == <>[](\A r \in Rows : Correct(r))

\* "Re-evaluate every inventory record": a sweep that ends normally has loaded
\* every row.
SweepsEveryRow == [][\A a \in Sweepers : FinishSweep(a) => visited[a] = Rows]_vars

HasType(i, t) == i \in DOMAIN alerts /\ alerts[i].type = t

\* An email task is enqueued for every alert that is raised, and once more for
\* every escalation that lasts.
EveryAlertEmailed ==
    \A i \in 1 .. MaxAlerts, t \in {"LOW_STOCK", "OUT_OF_STOCK"} :
        HasType(i, t) ~> ([alert |-> i, type |-> t] \in outbox \/ ~HasType(i, t))

\* The docstring of resolve_alert, "ConflictError: If the alert is already
\* resolved": of the clients that resolve an alert by hand one is told that it
\* did.  The code reads, checks and writes without a lock.
ResolvedOnce == \A j, k \in DOMAIN confirmed : j # k => confirmed[j] # confirmed[k]
=============================================================================
