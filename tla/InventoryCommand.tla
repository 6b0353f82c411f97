-------------------------- MODULE InventoryCommand --------------------------
(***************************************************************************)
(* InventoryCommandService.record_movement, run by concurrent request      *)
(* handlers on PostgreSQL at READ COMMITTED (app/services/                 *)
(* inventory_command.py, app/repositories/inventory.py).                   *)
(*                                                                         *)
(* A step is what one handler does between two awaits that others can      *)
(* observe.  A handler keeps its Inventory objects in `work' and the       *)
(* database keeps the committed rows in `records' and `quantity'.          *)
(* lock[r] is the transaction that holds key r: the row lock of SELECT ... *)
(* FOR UPDATE when the row is committed, the pending entry of the unique   *)
(* index when the row is an INSERT that has not committed.                 *)
(***************************************************************************)
EXTENDS Movements, Sequences, FiniteSets, Sums

CONSTANTS
    Workers,        \* concurrent request handlers, one database session each
    NoWorker,       \* lock owner of a free key
    NoRequest,      \* req of an idle worker
    MaxMovements    \* bound: requests are taken while the history has room

ASSUME WorkersAssumption == IsFiniteSet(Workers)
ASSUME NoWorkerAssumption == NoWorker \notin Workers
ASSUME NoRequestAssumption == NoRequest \notin MovementCreate
ASSUME MaxMovementsAssumption == MaxMovements \in Nat

VARIABLES
    records,    \* database: pairs with a committed inventory row
    quantity,   \* database: committed stock of every pair
    movements,  \* database: the movement table, in commit order
    lock,       \* database: holder of every key
    pc,         \* where each worker is in record_movement
    req,        \* the validated payload each worker handles
    leg,        \* which of its legs the worker is applying
    work,       \* stock of the worker's Inventory objects, 0 if not loaded
    own,        \* history: position in movements of the worker's commit
    events      \* history: movement events handed to the event publisher

dbVars == <<records, quantity, movements>>
vars == <<records, quantity, movements, lock, pc, req, leg, work, own, events>>

-----------------------------------------------------------------------------
(* The legs of a movement *)

Increase(m) == [effect |-> "increase", warehouse |-> m.destination]
Decrease(m) == [effect |-> "decrease", warehouse |-> m.source]

\* Mutant of Legs: the source first, whatever the order of the ids.
LegsSourceFirst(m) ==
    IF m.type = "IN" THEN <<Increase(m)>>
    ELSE IF m.type = "OUT" THEN <<Decrease(m)>>
    ELSE <<Decrease(m), Increase(m)>>

\* Two legs are applied in the order of the warehouse ids, whichever of
\* them is the source.
Legs(m) ==
    IF m.type = "IN" THEN <<Increase(m)>>
    ELSE IF m.type = "OUT" THEN <<Decrease(m)>>
    ELSE IF m.source < m.destination THEN <<Decrease(m), Increase(m)>>
    ELSE <<Increase(m), Decrease(m)>>

Leg(w) == Legs(req[w])[leg[w]]
Row(w) == <<req[w].product, Leg(w).warehouse>>

\* The stock of the current row once its leg is applied.
Result(w) ==
    work[w][Row(w)] + (IF Leg(w).effect = "increase" THEN req[w].quantity
                                                     ELSE -req[w].quantity)

\* Mutant of Fits: neither the stock check nor the column's range.
FitsUnchecked(w) == TRUE

\* An increase must stay in the column's range, a decrease needs the stock.
Fits(w) == Result(w) \in Stock

\* Mutant of CanLock: a plain SELECT, which does not wait.
CanRead(w) == Row(w) \in records

\* SELECT ... FOR UPDATE returns a committed row once nobody holds it.
CanLock(w) == Row(w) \in records /\ lock[Row(w)] = NoWorker

\* Mutant of CanInsert: no unique constraint on (product, warehouse).
CanInsertAnyway(w) == lock[Row(w)] = NoWorker

\* INSERT goes through once no row of the key is committed or pending.
CanInsert(w) == Row(w) \notin records /\ lock[Row(w)] = NoWorker

\* Mutant of Released: the session is never closed.
ReleasedNothing(w) == lock

\* The lock table when w's transaction is over.
Released(w) == [r \in Rows |-> IF lock[r] = w THEN NoWorker ELSE lock[r]]

\* Mutant of MovementEvent: the quantity is read again after the commit.
RefreshedMovementEvent(w) ==
    [movement |-> req[w], position |-> own[w],
     resulting |-> IF req[w].type = "TRANSFER" THEN {}
                   ELSE {quantity[r] : r \in AffectedRows(req[w])}]

\* The event of a movement.  It carries the post-mutation quantity of the row
\* an IN or OUT changed, and none for a TRANSFER.  `position' is history.
MovementEvent(w) ==
    [movement |-> req[w], position |-> own[w],
     resulting |-> IF req[w].type = "TRANSFER" THEN {}
                   ELSE {work[w][r] : r \in AffectedRows(req[w])}]

-----------------------------------------------------------------------------
(* Actions *)

Init ==
    /\ records = {}
    /\ quantity = [r \in Rows |-> 0]
    /\ movements = << >>
    /\ lock = [r \in Rows |-> NoWorker]
    /\ pc = [w \in Workers |-> "idle"]
    /\ req = [w \in Workers |-> NoRequest]
    /\ leg = [w \in Workers |-> 1]
    /\ work = [w \in Workers |-> [r \in Rows |-> 0]]
    /\ own = [w \in Workers |-> 0]
    /\ events = {}

Goto(w, label) == pc' = [pc EXCEPT ![w] = label]

\* The session is closed: what it holds is released and forgotten.  Before
\* the commit this is the rollback.
EndRequest(w) ==
    /\ lock' = Released(w)
    /\ Goto(w, "idle")
    /\ req' = [req EXCEPT ![w] = NoRequest]
    /\ leg' = [leg EXCEPT ![w] = 1]
    /\ work' = [work EXCEPT ![w] = [r \in Rows |-> 0]]
    /\ own' = [own EXCEPT ![w] = 0]

\* The request ends with an error response; the database is as it was.
Fail(w) == EndRequest(w) /\ UNCHANGED <<dbVars, events>>

HasRoom == Len(movements) + Cardinality({w \in Workers : pc[w] # "idle"}) < MaxMovements

\* POST /inventory/movements with a payload that validates.
Receive(w) ==
    /\ pc[w] = "idle"
    /\ HasRoom
    /\ \E m \in Payload :
          /\ ValidMovement(m)
          /\ req' = [req EXCEPT ![w] = m]
    /\ Goto(w, "product")
    /\ UNCHANGED <<dbVars, lock, leg, work, own, events>>

\* product_repository.get_by_id_or_raise
CheckProduct(w) ==
    /\ pc[w] = "product"
    /\ \/ /\ req[w].product \in Products
          /\ Goto(w, "warehouse")
          /\ UNCHANGED <<dbVars, lock, req, leg, work, own, events>>
       \/ req[w].product \notin Products /\ Fail(w)

\* warehouse_repository.get_by_id_or_raise, first thing in either leg
CheckWarehouse(w) ==
    /\ pc[w] = "warehouse"
    /\ \/ /\ Leg(w).warehouse \in Warehouses
          /\ Goto(w, "select")
          /\ UNCHANGED <<dbVars, lock, req, leg, work, own, events>>
       \/ Leg(w).warehouse \notin Warehouses /\ Fail(w)

\* The worker becomes the holder of row r and has an object with stock q.
Hold(w, r, q) ==
    /\ lock' = [lock EXCEPT ![r] = w]
    /\ work' = [work EXCEPT ![w][r] = q]
    /\ Goto(w, "apply")
    /\ UNCHANGED <<dbVars, req, leg, own, events>>

\* SELECT ... FOR UPDATE on a committed row: waits for its holder, then reads
\* the latest committed version.
LockRow(w) ==
    /\ pc[w] = "select"
    /\ CanLock(w)
    /\ Hold(w, Row(w), quantity[Row(w)])

\* SELECT ... FOR UPDATE finds no committed row, and does not wait for one
\* that is being inserted: an increase creates it, a decrease is NotFound.
RowMissing(w) ==
    /\ pc[w] = "select"
    /\ Row(w) \notin records
    /\ \/ /\ Leg(w).effect = "increase"
          /\ Goto(w, "insert")
          /\ UNCHANGED <<dbVars, lock, req, leg, work, own, events>>
       \/ Leg(w).effect = "decrease" /\ Fail(w)

\* INSERT of the row with quantity 0.  A pending INSERT of the same key makes
\* it wait; once such a row is committed it is an IntegrityError.
InsertRow(w) ==
    /\ pc[w] = "insert"
    /\ \/ CanInsert(w) /\ Hold(w, Row(w), 0)
       \/ Row(w) \in records /\ Fail(w)

\* The check and the += / -= of one leg, flushed.  A result outside the
\* column's range is an InsufficientStockError or a database error.
ApplyLeg(w) ==
    /\ pc[w] = "apply"
    /\ \/ /\ Fits(w)
          /\ work' = [work EXCEPT ![w][Row(w)] = Result(w)]
          /\ IF leg[w] < Len(Legs(req[w]))
             THEN leg' = [leg EXCEPT ![w] = @ + 1] /\ Goto(w, "warehouse")
             ELSE leg' = leg /\ Goto(w, "commit")
          /\ UNCHANGED <<dbVars, lock, req, own, events>>
       \/ ~Fits(w) /\ Fail(w)

\* The Movement row is inserted and the transaction commits: its writes
\* become visible and its locks are released.  The objects stay loaded
\* (expire_on_commit=False).
Commit(w) ==
    /\ pc[w] = "commit"
    /\ records' = records \cup AffectedRows(req[w])
    /\ quantity' = [r \in Rows |-> IF r \in AffectedRows(req[w]) THEN work[w][r] ELSE quantity[r]]
    /\ movements' = Append(movements, req[w])
    /\ lock' = Released(w)
    /\ own' = [own EXCEPT ![w] = Len(movements')]
    /\ Goto(w, "evaluate")
    /\ UNCHANGED <<req, leg, work, events>>

\* AlertService.evaluate_stock_level for every affected row; what it does is
\* modelled in AlertService, here it returns (or raises: Crash).
EvaluateAffected(w) ==
    /\ pc[w] = "evaluate"
    /\ Goto(w, "publish")
    /\ UNCHANGED <<dbVars, lock, req, leg, work, own, events>>

\* event_publisher.publish, after which the request is answered.
Publish(w) ==
    /\ pc[w] = "publish"
    /\ events' = events \cup {MovementEvent(w)}
    /\ EndRequest(w)
    /\ UNCHANGED dbVars

\* The process dies, the connection is lost, or something raises: the
\* session is gone at whatever point the request had reached.
Crash(w) == pc[w] # "idle" /\ Fail(w)

Step(w) ==
    \/ CheckProduct(w)
    \/ CheckWarehouse(w)
    \/ LockRow(w)
    \/ RowMissing(w)
    \/ InsertRow(w)
    \/ ApplyLeg(w)
    \/ Commit(w)
    \/ EvaluateAffected(w)
    \/ Publish(w)

\* The bounded history is full and every request was answered.
Full == ~HasRoom /\ (\A w \in Workers : pc[w] = "idle") /\ UNCHANGED vars

Next == (\E w \in Workers : Receive(w) \/ Step(w) \/ Crash(w)) \/ Full

Spec == Init /\ [][Next]_vars

\* A handler that can run and goes on being able to does (the event loop is
\* fair).  Nothing is assumed of the order in which PostgreSQL serves those
\* that wait for a key.
Fairness == \A w \in Workers : WF_vars(Step(w))

FairSpec == Spec /\ Fairness

-----------------------------------------------------------------------------
(* Properties *)

Labels == {"idle", "product", "warehouse", "select", "insert", "apply",
           "commit", "evaluate", "publish"}

\* The type invariant: every variable has its type; an idle worker is the one
\* without a payload.
TypeOK ==
    /\ records \subseteq Rows
    /\ quantity \in [Rows -> Stock]
    /\ movements \in Seq(MovementCreate)
    /\ lock \in [Rows -> Workers \cup {NoWorker}]
    /\ pc \in [Workers -> Labels]
    /\ req \in [Workers -> MovementCreate \cup {NoRequest}]
    /\ \A w \in Workers : pc[w] = "idle" <=> req[w] = NoRequest
    /\ leg \in [Workers -> {1, 2}]
    /\ work \in [Workers -> [Rows -> Stock]]
    /\ own \in [Workers -> Nat]

\* How many legs of its movement worker w has a row for.
LegsHeld(w) ==
    IF pc[w] \in {"warehouse", "select", "insert"} THEN leg[w] - 1
    ELSE IF pc[w] \in {"apply", "commit"} THEN leg[w]
    ELSE 0

HeldRows(w) == {<<req[w].product, Legs(req[w])[i].warehouse>> : i \in 1 .. LegsHeld(w)}

\* A worker holds exactly the rows of the legs it has reached, from the SELECT
\* or INSERT of the leg to the commit or rollback: no lock is taken early,
\* dropped before the commit, or left behind by a failed request.
LockDiscipline ==
    \A w \in Workers, r \in Rows : lock[r] = w <=> r \in HeldRows(w)

\* Whether w has already added its leg's quantity to its object of row r.
Applied(w, r) ==
    \/ pc[w] = "commit"
    \/ \E i \in 1 .. leg[w] - 1 : Legs(req[w])[i].warehouse = r[2]

\* No lost update: from the moment a row is held, what its holder is about to
\* write is the committed stock plus the holder's own movement.  A read made
\* before the lock was granted would break this as soon as another handler
\* commits in between.
NoStaleWork ==
    \A w \in Workers, r \in Rows :
        lock[r] = w =>
            work[w][r] = quantity[r] + (IF Applied(w, r) THEN Effect(req[w], r) ELSE 0)

\* Where a worker can be in its movement: it is at one of its legs, at the
\* last when it commits, and past the checks that its label says it passed.
Progress(w) ==
    /\ pc[w] \in {"idle", "product"} => leg[w] = 1
    /\ pc[w] # "idle" => leg[w] <= Len(Legs(req[w]))
    /\ pc[w] = "commit" => leg[w] = Len(Legs(req[w]))
    /\ pc[w] \notin {"idle", "product"} => req[w].product \in Products
    /\ pc[w] \in {"select", "insert", "apply"} => Leg(w).warehouse \in Warehouses
    /\ pc[w] = "insert" => Leg(w).effect = "increase"
    /\ \A i \in 1 .. LegsHeld(w) :
          /\ Legs(req[w])[i].warehouse \in Warehouses
          /\ Legs(req[w])[i].effect = "decrease" =>
                <<req[w].product, Legs(req[w])[i].warehouse>> \in records

\* The inductive invariant.  A key without a committed row has no stock, so an
\* INSERT with quantity 0 starts from the committed stock as a SELECT does.
IndInv ==
    /\ TypeOK
    /\ \A w \in Workers : Progress(w)
    /\ LockDiscipline
    /\ NoStaleWork
    /\ \A r \in Rows \ records : quantity[r] = 0

\* w waits for a key that v holds.
WaitsFor(w, v) ==
    /\ \/ pc[w] = "select" /\ Row(w) \in records
       \/ pc[w] = "insert" /\ Row(w) \notin records
    /\ lock[Row(w)] = v

\* The docstring of _transfer_stock: handlers can never deadlock on each
\* other.  In every set of handlers one waits for none of the others.
NoDeadlock ==
    \A S \in (SUBSET Workers) \ {{}} :
        \E w \in S : \A v \in S : ~WaitsFor(w, v)

\* Why: along a chain of waiting handlers the rows they wait for ascend.
WaitsAscend ==
    \A w, v \in Workers :
        (WaitsFor(w, v) /\ \E u \in Workers : WaitsFor(v, u)) =>
            Row(w)[1] = Row(v)[1] /\ Row(w)[2] < Row(v)[2]

\* Stock of row r after the first n movements of the history.
BalanceAfter(r, n) ==
    SumOver([i \in DOMAIN movements |-> Effect(movements[i], r)], 1 .. n)

\* Stock and history are consistent with each other (the docstring of the
\* service): a pair has the stock its movements add up to, and a row exists
\* for exactly the pairs that movements touched.
StockMatchesHistory ==
    \A r \in Rows :
        /\ quantity[r] = BalanceAfter(r, Len(movements))
        /\ r \in records <=> \E i \in DOMAIN movements : r \in AffectedRows(movements[i])

\* An event is published only for a committed movement, and the quantity it
\* reports is the stock right after that movement, whatever was committed
\* between the commit and the publication.
EventsReportCommits ==
    \A e \in events :
        /\ e.position \in DOMAIN movements
        /\ movements[e.position] = e.movement
        /\ e.movement.type # "TRANSFER" =>
              e.resulting = {BalanceAfter(r, e.position) : r \in AffectedRows(e.movement)}

Ledger == INSTANCE StockLedger

\* Transactions and locks implement the ledger: every step changes the
\* committed database as one Record step, or not at all.
ImplementsLedger == Ledger!LedgerSpec

\* Nobody waits for a lock for ever once requests stop coming: every request
\* in flight is answered, whoever waits for whom and whoever is served first.
\* While requests keep coming it need not be, since each may take the key
\* before the one that waits.
EveryRequestEnds ==
    (<>[][\A w \in Workers : ~Receive(w)]_vars) =>
        \A w \in Workers : pc[w] # "idle" ~> pc[w] = "idle"
=============================================================================
