----------------------- MODULE InventoryCommandProofs -----------------------
(***************************************************************************)
(* Proofs about InventoryCommand, for any number of handlers, products,    *)
(* warehouses and movements: the inductive invariant IndInv, the safety    *)
(* properties that follow from it, and that the transactions implement     *)
(* StockLedger.                                                            *)
(***************************************************************************)
EXTENDS InventoryCommand, SumTheorems, TLAPS

\* What the schema's validators leave: a positive quantity and typed fields
\* (MovementCreate in app/schemas/movement.py).
LEMMA MovementFields ==
    ASSUME NEW m \in MovementCreate
    PROVE  /\ m.type \in {"IN", "OUT", "TRANSFER"}
           /\ m.product \in ProductIds
           /\ m.quantity \in Nat
           /\ m.quantity > 0
           /\ m.source \in WarehouseIds \cup {NoWarehouse}
           /\ m.destination \in WarehouseIds \cup {NoWarehouse}
           /\ ValidMovement(m)
  <1>1. m \in Payload /\ ValidMovement(m)
    BY DEF MovementCreate
  <1>2. m.quantity > 0
    BY <1>1 DEF ValidMovement
  <1>3. /\ m.type \in MovementType
        /\ m.product \in ProductIds
        /\ m.quantity \in Amounts
        /\ m.source \in WarehouseIds \cup {NoWarehouse}
        /\ m.destination \in WarehouseIds \cup {NoWarehouse}
    BY <1>1 DEF Payload
  <1>4. m.quantity \in Int
    BY <1>3, AmountsAssumption
  <1>5. m.quantity \in Nat
    BY <1>2, <1>4
  <1> QED
    BY <1>1, <1>2, <1>3, <1>5 DEF MovementType

\* The legs of each movement type (record_movement, _transfer_stock).
LEMMA LegsShape ==
    ASSUME NEW m \in MovementCreate
    PROVE  /\ m.type = "IN" => Legs(m) = <<Increase(m)>>
           /\ m.type = "OUT" => Legs(m) = <<Decrease(m)>>
           /\ m.type = "TRANSFER" =>
                 \/ m.source < m.destination /\ Legs(m) = <<Decrease(m), Increase(m)>>
                 \/ ~(m.source < m.destination) /\ Legs(m) = <<Increase(m), Decrease(m)>>
  BY DEF Legs

\* A movement has one leg or two.
LEMMA LegsLength ==
    ASSUME NEW m \in MovementCreate
    PROVE  Len(Legs(m)) \in {1, 2} /\ DOMAIN Legs(m) = 1 .. Len(Legs(m))
  BY LegsShape, MovementFields

\* Every leg is at a warehouse of its movement: an increase at the destination,
\* a decrease at the source.
LEMMA LegFields ==
    ASSUME NEW m \in MovementCreate, NEW i \in 1 .. Len(Legs(m))
    PROVE  /\ \/ Legs(m)[i].effect = "increase" /\ Legs(m)[i].warehouse = m.destination
              \/ Legs(m)[i].effect = "decrease" /\ Legs(m)[i].warehouse = m.source
           /\ Legs(m)[i].warehouse \in WarehouseIds
           /\ Legs(m)[i].warehouse # NoWarehouse
  BY LegsShape, MovementFields, NoWarehouseAssumption DEF Increase, Decrease, ValidMovement

\* _transfer_stock takes its two legs in the order of the warehouse ids.
LEMMA LegsAscend ==
    ASSUME NEW m \in MovementCreate, Len(Legs(m)) = 2
    PROVE  /\ Legs(m)[1].warehouse < Legs(m)[2].warehouse
           /\ m.type = "TRANSFER"
  <1>1. m.type = "TRANSFER" /\ m.source # m.destination
        /\ m.source \in WarehouseIds /\ m.destination \in WarehouseIds
    BY LegsShape, MovementFields DEF ValidMovement
  <1>2. m.source \in Nat /\ m.destination \in Nat
    BY <1>1, WarehouseIdsAssumption
  <1>3. CASE m.source < m.destination
    BY <1>1, <1>2, <1>3, LegsShape DEF Increase, Decrease
  <1>4. CASE ~(m.source < m.destination)
    <2>1. m.destination < m.source
      BY <1>1, <1>2, <1>4
    <2>2. Legs(m) = <<Increase(m), Decrease(m)>>
      BY <1>1, <1>4, LegsShape
    <2> QED BY <1>1, <2>1, <2>2 DEF Increase, Decrease
  <1> QED
    BY <1>3, <1>4

\* The legs of a movement are at its warehouses and nowhere else.
LEMMA LegsCover ==
    ASSUME NEW m \in MovementCreate, NEW h \in Warehouses
    PROVE  h \in {m.source, m.destination} <=> \E i \in 1 .. Len(Legs(m)) : Legs(m)[i].warehouse = h
  <1>0. h # NoWarehouse
    BY KnownAssumption, NoWarehouseAssumption
  <1>1. CASE m.type = "IN"
    <2>1. Len(Legs(m)) = 1 /\ Legs(m)[1].warehouse = m.destination
      BY <1>1, LegsShape DEF Increase
    <2>2. m.source = NoWarehouse
      BY <1>1, MovementFields DEF ValidMovement
    <2> QED
      BY <1>0, <2>1, <2>2
  <1>2. CASE m.type = "OUT"
    <2>1. Len(Legs(m)) = 1 /\ Legs(m)[1].warehouse = m.source
      BY <1>2, LegsShape DEF Decrease
    <2>2. m.destination = NoWarehouse
      BY <1>2, MovementFields DEF ValidMovement
    <2> QED
      BY <1>0, <2>1, <2>2
  <1>3. CASE m.type = "TRANSFER"
    <2>1. /\ Len(Legs(m)) = 2
          /\ {Legs(m)[1].warehouse, Legs(m)[2].warehouse} = {m.source, m.destination}
      BY <1>3, LegsShape DEF Increase, Decrease
    <2> QED
      BY <2>1
  <1> QED
    BY <1>1, <1>2, <1>3, MovementFields

-----------------------------------------------------------------------------

\* What the invariant says of one worker.
WorkerOK(w) ==
    /\ Progress(w)
    /\ \A r \in Rows : lock[r] = w <=> r \in HeldRows(w)
    /\ \A r \in Rows :
          lock[r] = w =>
             work[w][r] = quantity[r] + (IF Applied(w, r) THEN Effect(req[w], r) ELSE 0)

\* A key without a committed row has no stock.
EmptyKeys == \A r \in Rows \ records : quantity[r] = 0

\* The inductive invariant, rearranged into what it says of each worker.
LEMMA IndInvParts ==
    IndInv <=> TypeOK /\ EmptyKeys /\ \A w \in Workers : WorkerOK(w)
  BY DEF IndInv, WorkerOK, EmptyKeys, LockDiscipline, NoStaleWork

\* A worker that is not idle has a validated payload.
LEMMA BusyRequest ==
    ASSUME TypeOK, NEW w \in Workers, pc[w] # "idle"
    PROVE  req[w] \in MovementCreate
  BY DEF TypeOK

\* The rows a worker holds are rows of the table.
LEMMA HeldAreRows ==
    ASSUME TypeOK, NEW w \in Workers, Progress(w)
    PROVE  /\ LegsHeld(w) \in {0, 1, 2}
           /\ pc[w] # "idle" => LegsHeld(w) <= leg[w] /\ leg[w] \in 1 .. Len(Legs(req[w]))
           /\ pc[w] = "idle" => LegsHeld(w) = 0
           /\ HeldRows(w) \subseteq Rows
           /\ pc[w] \in {"select", "insert", "apply"} => Row(w) \in Rows
  <1>1. /\ LegsHeld(w) \in {0, 1, 2}
        /\ pc[w] = "idle" => LegsHeld(w) = 0
        /\ LegsHeld(w) <= leg[w]
    BY DEF TypeOK, LegsHeld, Labels
  <1>2. pc[w] # "idle" => leg[w] \in 1 .. Len(Legs(req[w]))
    <2>1. SUFFICES ASSUME pc[w] # "idle" PROVE leg[w] \in 1 .. Len(Legs(req[w]))
      OBVIOUS
    <2>2. req[w] \in MovementCreate
      BY <2>1, BusyRequest
    <2>3. Len(Legs(req[w])) \in {1, 2}
      BY <2>2, LegsLength
    <2> QED
      BY <2>1, <2>3 DEF TypeOK, Progress
  <1>3. HeldRows(w) \subseteq Rows
    <2>1. SUFFICES ASSUME NEW i \in 1 .. LegsHeld(w)
                   PROVE  <<req[w].product, Legs(req[w])[i].warehouse>> \in Rows
      BY DEF HeldRows
    <2>2. pc[w] \notin {"idle", "product"}
      BY <2>1 DEF LegsHeld
    <2> QED
      BY <2>1, <2>2 DEF Progress, Rows
  <1>4. pc[w] \in {"select", "insert", "apply"} => Row(w) \in Rows
    BY DEF Progress, Row, Rows
  <1> QED
    BY <1>1, <1>2, <1>3, <1>4

\* A step of another worker leaves v as it is when it touches none of v's
\* variables, none of v's locks, and no committed stock that v holds.
LEMMA OthersKept ==
    ASSUME NEW v \in Workers, WorkerOK(v),
           pc'[v] = pc[v], req'[v] = req[v], leg'[v] = leg[v], work'[v] = work[v],
           records \subseteq records',
           \A r \in Rows : lock'[r] = v <=> lock[r] = v,
           \A r \in Rows : lock[r] = v => quantity'[r] = quantity[r]
    PROVE  WorkerOK(v)'
  <1>1. LegsHeld(v)' = LegsHeld(v)
    BY DEF LegsHeld
  <1>2. HeldRows(v)' = HeldRows(v)
    BY <1>1 DEF HeldRows
  <1>3. \A r \in Rows : Applied(v, r)' = Applied(v, r)
    BY DEF Applied
  <1>4. Leg(v)' = Leg(v)
    BY DEF Leg
  <1>5. Progress(v)'
    BY <1>1, <1>4 DEF Progress, WorkerOK
  <1> QED
    BY <1>2, <1>3, <1>5 DEF WorkerOK

\* IndInvParts for the next state.
LEMMA IndInvNext ==
    ASSUME TypeOK', EmptyKeys', \A v \in Workers : WorkerOK(v)'
    PROVE  IndInv'
  BY DEF IndInv, WorkerOK, EmptyKeys, LockDiscipline, NoStaleWork

\* The empty database with idle handlers satisfies the invariant.
LEMMA InitIndInv == Init => IndInv
  <1> SUFFICES ASSUME Init PROVE IndInv
    OBVIOUS
  <1>1. TypeOK
    BY NoRequestAssumption, MaxIntAssumption DEF Init, TypeOK, Labels, Stock
  <1>2. EmptyKeys
    BY DEF Init, EmptyKeys
  <1>3. ASSUME NEW w \in Workers PROVE WorkerOK(w)
    <2>1. pc[w] = "idle" /\ leg[w] = 1 /\ LegsHeld(w) = 0
      BY DEF Init, LegsHeld
    <2>2. HeldRows(w) = {}
      BY <2>1 DEF HeldRows
    <2>3. \A r \in Rows : lock[r] # w
      BY NoWorkerAssumption DEF Init
    <2>4. Progress(w)
      BY <2>1 DEF Progress
    <2> QED
      BY <2>2, <2>3, <2>4 DEF WorkerOK
  <1> QED
    BY <1>1, <1>2, <1>3, IndInvParts

\* The end of a request, by an answer, a failure or a crash.
LEMMA EndRequestStep ==
    ASSUME IndInv, NEW w \in Workers, EndRequest(w), UNCHANGED dbVars
    PROVE  IndInv'
  <1> USE DEF EndRequest, Goto, dbVars, Released
  <1>1. TypeOK'
    BY MaxIntAssumption DEF IndInv, TypeOK, Labels, Stock
  <1>2. EmptyKeys'
    BY DEF IndInv, EmptyKeys
  <1>3. ASSUME NEW v \in Workers PROVE WorkerOK(v)'
    <2>1. CASE v = w
      <3>1. pc'[w] = "idle" /\ leg'[w] = 1 /\ LegsHeld(w)' = 0
        BY DEF IndInv, TypeOK, LegsHeld
      <3>2. HeldRows(w)' = {}
        BY <3>1 DEF HeldRows
      <3>3. \A r \in Rows : lock'[r] # w
        BY NoWorkerAssumption
      <3>4. Progress(w)'
        BY <3>1 DEF Progress
      <3> QED
        BY <2>1, <3>2, <3>3, <3>4 DEF WorkerOK
    <2>2. CASE v # w
      <3>1. WorkerOK(v)
        BY IndInvParts
      <3>2. \A r \in Rows : lock'[r] = v <=> lock[r] = v
        BY <2>2, NoWorkerAssumption
      <3>3. pc'[v] = pc[v] /\ req'[v] = req[v] /\ leg'[v] = leg[v] /\ work'[v] = work[v]
        BY <2>2 DEF IndInv, TypeOK
      <3> QED
        BY <3>1, <3>2, <3>3, OthersKept
    <2> QED
      BY <2>1, <2>2
  <1> QED
    BY <1>1, <1>2, <1>3, IndInvNext

\* A step that only moves the worker on, with the rows it had.
LEMMA MoveStep ==
    ASSUME IndInv, NEW w \in Workers, NEW l \in Labels \ {"idle", "commit"},
           Goto(w, l), UNCHANGED <<dbVars, lock, req, leg, work, own>>,
           pc[w] \notin {"idle", "commit"}, LegsHeld(w)' = LegsHeld(w), Progress(w)'
    PROVE  IndInv'
  <1> USE DEF Goto, dbVars
  <1>1. TypeOK'
    BY DEF IndInv, TypeOK
  <1>2. EmptyKeys'
    BY DEF IndInv, EmptyKeys
  <1>3. ASSUME NEW v \in Workers PROVE WorkerOK(v)'
    <2>1. CASE v = w
      <3>1. HeldRows(w)' = HeldRows(w)
        BY DEF HeldRows
      <3>2. \A r \in Rows : Applied(w, r)' = Applied(w, r)
        BY DEF IndInv, TypeOK, Applied
      <3> QED
        BY <2>1, <3>1, <3>2, IndInvParts DEF WorkerOK
    <2>2. CASE v # w
      <3>1. pc'[v] = pc[v]
        BY <2>2 DEF IndInv, TypeOK
      <3> QED
        BY <3>1, IndInvParts, OthersKept
    <2> QED
      BY <2>1, <2>2
  <1> QED
    BY <1>1, <1>2, <1>3, IndInvNext

\* Taking a request keeps the invariant: the worker holds no row yet.
LEMMA ReceiveStep ==
    ASSUME IndInv, NEW w \in Workers, Receive(w)
    PROVE  IndInv'
  <1>0. /\ pc[w] = "idle" /\ pc' = [pc EXCEPT ![w] = "product"]
        /\ UNCHANGED <<records, quantity, movements, lock, leg, work, own>>
    BY DEF Receive, Goto, dbVars
  <1>1. PICK m \in MovementCreate : req' = [req EXCEPT ![w] = m]
    BY DEF Receive, MovementCreate
  <1>2. TypeOK'
    BY <1>0, <1>1, NoRequestAssumption DEF IndInv, TypeOK, Labels
  <1>3. EmptyKeys'
    BY <1>0 DEF IndInv, EmptyKeys
  <1>4. ASSUME NEW v \in Workers PROVE WorkerOK(v)'
    <2>1. CASE v = w
      <3>1. leg[w] = 1 /\ LegsHeld(w) = 0
        BY <1>0, IndInvParts DEF WorkerOK, Progress, LegsHeld
      <3>2. pc'[w] = "product" /\ leg'[w] = 1 /\ req'[w] = m
        BY <1>0, <1>1, <3>1 DEF IndInv, TypeOK
      <3>3. LegsHeld(w)' = 0
        BY <3>2 DEF LegsHeld
      <3>4. HeldRows(w)' = {} /\ HeldRows(w) = {}
        BY <3>1, <3>3 DEF HeldRows
      <3>5. Progress(w)'
        <4>1. Len(Legs(m)) \in {1, 2}
          BY LegsLength
        <4>2. leg'[w] <= Len(Legs(req'[w]))
          <5>1. Legs(req'[w]) = Legs(m)
            BY <3>2
          <5>2. Len(Legs(req'[w])) \in {1, 2}
            BY <4>1, <5>1
          <5>3. leg'[w] = 1
            BY <3>2
          <5> QED
            BY <5>2, <5>3
        <4>3. 1 .. LegsHeld(w)' = {}
          BY <3>3
        <4> QED
          BY <3>2, <4>2, <4>3 DEF Progress
      <3>6. \A r \in Rows : lock'[r] # w
        BY <1>0, <3>4, IndInvParts DEF WorkerOK
      <3> QED
        BY <2>1, <3>4, <3>5, <3>6 DEF WorkerOK
    <2>2. CASE v # w
      <3>1. pc'[v] = pc[v] /\ req'[v] = req[v]
        BY <1>0, <1>1, <2>2 DEF IndInv, TypeOK
      <3> QED
        BY <1>0, <3>1, IndInvParts, OthersKept
    <2> QED
      BY <2>1, <2>2
  <1> QED
    BY <1>2, <1>3, <1>4, IndInvNext

\* The rollback of a failed request keeps the invariant.
LEMMA FailStep ==
    ASSUME IndInv, NEW w \in Workers, Fail(w)
    PROVE  IndInv'
  BY EndRequestStep DEF Fail

\* The product check of record_movement keeps the invariant.
LEMMA CheckProductStep ==
    ASSUME IndInv, NEW w \in Workers, CheckProduct(w)
    PROVE  IndInv'
  <1>1. CASE Fail(w)
    BY <1>1, FailStep
  <1>2. CASE ~Fail(w)
    <2>1. /\ pc[w] = "product" /\ req[w].product \in Products
          /\ Goto(w, "warehouse")
          /\ UNCHANGED <<dbVars, lock, req, leg, work, own>>
      BY <1>2 DEF CheckProduct
    <2>2. Progress(w) /\ leg[w] = 1
      BY <2>1, IndInvParts DEF WorkerOK, Progress
    <2>3. pc'[w] = "warehouse" /\ leg'[w] = 1 /\ req'[w] = req[w] /\ records' = records
      BY <2>1, <2>2 DEF Goto, dbVars, IndInv, TypeOK
    <2>4. LegsHeld(w) = 0 /\ LegsHeld(w)' = 0
      BY <2>1, <2>2, <2>3 DEF LegsHeld
    <2>5. Progress(w)'
      BY <2>1, <2>2, <2>3, <2>4 DEF Progress
    <2> QED
      BY <2>1, <2>4, <2>5, MoveStep DEF Labels
  <1> QED
    BY <1>1, <1>2

\* The warehouse check of a leg keeps the invariant.
LEMMA CheckWarehouseStep ==
    ASSUME IndInv, NEW w \in Workers, CheckWarehouse(w)
    PROVE  IndInv'
  <1>1. CASE Fail(w)
    BY <1>1, FailStep
  <1>2. CASE ~Fail(w)
    <2>1. /\ pc[w] = "warehouse" /\ Leg(w).warehouse \in Warehouses
          /\ Goto(w, "select")
          /\ UNCHANGED <<dbVars, lock, req, leg, work, own>>
      BY <1>2 DEF CheckWarehouse
    <2>2. Progress(w)
      BY IndInvParts DEF WorkerOK
    <2>3. pc'[w] = "select" /\ leg' = leg /\ req' = req /\ records' = records
      BY <2>1 DEF Goto, dbVars, IndInv, TypeOK
    <2>4. LegsHeld(w)' = LegsHeld(w)
      BY <2>1, <2>3 DEF LegsHeld
    <2>5. Progress(w)'
      BY <2>1, <2>2, <2>3, <2>4 DEF Progress, Leg
    <2> QED
      BY <2>1, <2>4, <2>5, MoveStep DEF Labels
  <1> QED
    BY <1>1, <1>2

\* A SELECT that finds no row keeps the invariant: an increase goes on to its
\* INSERT, a decrease rolls back.
LEMMA RowMissingStep ==
    ASSUME IndInv, NEW w \in Workers, RowMissing(w)
    PROVE  IndInv'
  <1>1. CASE Fail(w)
    BY <1>1, FailStep
  <1>2. CASE ~Fail(w)
    <2>1. /\ pc[w] = "select" /\ Leg(w).effect = "increase"
          /\ Goto(w, "insert")
          /\ UNCHANGED <<dbVars, lock, req, leg, work, own>>
      BY <1>2 DEF RowMissing
    <2>2. Progress(w)
      BY IndInvParts DEF WorkerOK
    <2>3. pc'[w] = "insert" /\ leg' = leg /\ req' = req /\ records' = records
      BY <2>1 DEF Goto, dbVars, IndInv, TypeOK
    <2>4. LegsHeld(w)' = LegsHeld(w)
      BY <2>1, <2>3 DEF LegsHeld
    <2>5. Progress(w)'
      BY <2>1, <2>2, <2>3, <2>4 DEF Progress, Leg
    <2> QED
      BY <2>1, <2>4, <2>5, MoveStep DEF Labels
  <1> QED
    BY <1>1, <1>2

\* The alert evaluation, which holds no lock, keeps the invariant.
LEMMA EvaluateAffectedStep ==
    ASSUME IndInv, NEW w \in Workers, EvaluateAffected(w)
    PROVE  IndInv'
  <1>1. /\ pc[w] = "evaluate"
        /\ Goto(w, "publish")
        /\ UNCHANGED <<dbVars, lock, req, leg, work, own>>
    BY DEF EvaluateAffected
  <1>2. Progress(w)
    BY IndInvParts DEF WorkerOK
  <1>3. pc'[w] = "publish" /\ leg' = leg /\ req' = req /\ records' = records
    BY <1>1 DEF Goto, dbVars, IndInv, TypeOK
  <1>4. LegsHeld(w)' = LegsHeld(w)
    BY <1>1, <1>3 DEF LegsHeld
  <1>5. Progress(w)'
    BY <1>1, <1>2, <1>3, <1>4 DEF Progress, Leg
  <1> QED
    BY <1>1, <1>4, <1>5, MoveStep DEF Labels

\* What a leg does to its row is what the movement does to that row.
LEMMA EffectOfLeg ==
    ASSUME NEW m \in MovementCreate, NEW i \in 1 .. Len(Legs(m))
    PROVE  Effect(m, <<m.product, Legs(m)[i].warehouse>>) =
              IF Legs(m)[i].effect = "increase" THEN m.quantity ELSE -m.quantity
  <1>1. CASE Legs(m)[i].effect = "increase"
    <2>1. Legs(m)[i].warehouse = m.destination
      BY <1>1, LegFields
    <2> QED
      BY <1>1, <2>1 DEF Effect
  <1>2. CASE Legs(m)[i].effect # "increase"
    <2>1. Legs(m)[i].warehouse = m.source /\ m.source # NoWarehouse
      BY <1>2, LegFields
    <2>2. m.source # m.destination
      BY <2>1, MovementFields DEF ValidMovement
    <2> QED
      BY <1>2, <2>1, <2>2 DEF Effect
  <1> QED
    BY <1>1, <1>2

\* No two legs of a movement are at the same warehouse.
LEMMA LegsDistinct ==
    ASSUME NEW m \in MovementCreate, NEW i \in 1 .. Len(Legs(m)), NEW j \in 1 .. Len(Legs(m)),
           Legs(m)[i].warehouse = Legs(m)[j].warehouse
    PROVE  i = j
  <1>1. CASE Len(Legs(m)) = 2
    <2>0. 1 \in 1 .. Len(Legs(m)) /\ 2 \in 1 .. Len(Legs(m))
      BY <1>1
    <2>1. Legs(m)[1].warehouse \in WarehouseIds /\ Legs(m)[2].warehouse \in WarehouseIds
      BY <2>0, LegFields
    <2>2. Legs(m)[1].warehouse # Legs(m)[2].warehouse
      BY <1>1, <2>1, LegsAscend, WarehouseIdsAssumption
    <2> QED
      BY <1>1, <2>2
  <1>2. CASE Len(Legs(m)) = 1
    BY <1>2
  <1> QED
    BY <1>1, <1>2, LegsLength

\* The step that locks or inserts the current row, whose stock is the
\* committed one either way.
LEMMA HoldStep ==
    ASSUME IndInv, NEW w \in Workers, pc[w] \in {"select", "insert"},
           Row(w) \in Rows, lock[Row(w)] = NoWorker,
           Leg(w).effect = "decrease" => Row(w) \in records,
           Hold(w, Row(w), quantity[Row(w)])
    PROVE  IndInv'
  <1> DEFINE row == Row(w)
  <1>1. /\ TypeOK /\ EmptyKeys /\ Progress(w) /\ WorkerOK(w)
        /\ req[w] \in MovementCreate
        /\ leg[w] \in 1 .. Len(Legs(req[w]))
        /\ LegsHeld(w) = leg[w] - 1
    BY IndInvParts, BusyRequest, HeldAreRows DEF WorkerOK, LegsHeld
  <1>2. /\ lock' = [lock EXCEPT ![row] = w]
        /\ work' = [work EXCEPT ![w][row] = quantity[row]]
        /\ pc' = [pc EXCEPT ![w] = "apply"]
        /\ records' = records /\ quantity' = quantity /\ movements' = movements
        /\ req' = req /\ leg' = leg /\ own' = own
    BY DEF Hold, Goto, dbVars
  <1>3. TypeOK'
    BY <1>1, <1>2 DEF TypeOK, Labels
  <1>4. EmptyKeys'
    BY <1>1, <1>2 DEF EmptyKeys
  <1>5. WorkerOK(w)'
    <2>1. LegsHeld(w)' = leg[w] /\ leg[w] \in 1 .. 2
      BY <1>1, <1>2 DEF LegsHeld, TypeOK
    <2>2. row = <<req[w].product, Legs(req[w])[leg[w]].warehouse>>
      BY DEF Row, Leg
    <2>3. HeldRows(w)' = HeldRows(w) \cup {row}
      <3>1. 1 .. leg[w] = (1 .. (leg[w] - 1)) \cup {leg[w]}
        BY <2>1
      <3> QED
        BY <1>1, <1>2, <2>1, <2>2, <3>1 DEF HeldRows
    <2>4. Progress(w)'
      <3>1. ASSUME NEW i \in 1 .. leg[w]
            PROVE  /\ Legs(req[w])[i].warehouse \in Warehouses
                   /\ Legs(req[w])[i].effect = "decrease" =>
                         <<req[w].product, Legs(req[w])[i].warehouse>> \in records
        <4>1. CASE i = leg[w]
          BY <1>1, <2>2, <4>1 DEF Progress, Leg
        <4>2. CASE i # leg[w]
          <5>1. i \in 1 .. LegsHeld(w)
            BY <1>1, <2>1, <4>2
          <5> QED
            BY <1>1, <5>1 DEF Progress
        <4> QED
          BY <4>1, <4>2
      <3>2. pc'[w] = "apply"
        BY <1>1, <1>2 DEF TypeOK
      <3> QED
        BY <1>1, <1>2, <2>1, <3>1, <3>2 DEF Progress, Leg
    <2>5. ASSUME NEW r \in Rows PROVE lock'[r] = w <=> r \in HeldRows(w)'
      BY <1>1, <1>2, <2>3 DEF WorkerOK, TypeOK
    <2>6. ASSUME NEW r \in Rows, lock'[r] = w
          PROVE  work'[w][r] = quantity'[r] + (IF Applied(w, r)' THEN Effect(req'[w], r) ELSE 0)
      <3>1. Applied(w, r)' <=> Applied(w, r)
        BY <1>1, <1>2 DEF Applied, TypeOK
      <3>2. CASE r = row
        <4>1. ~Applied(w, r)
          <5>1. SUFFICES ASSUME NEW i \in 1 .. leg[w] - 1, Legs(req[w])[i].warehouse = r[2]
                         PROVE  FALSE
            BY DEF Applied
          <5>2. r[2] = Legs(req[w])[leg[w]].warehouse
            BY <2>2, <3>2
          <5>3. i \in 1 .. Len(Legs(req[w])) /\ i # leg[w]
            BY <1>1, <2>1, LegsLength
          <5> QED
            BY <1>1, <5>1, <5>2, <5>3, LegsDistinct
        <4>2. work'[w][r] = quantity[r]
          BY <1>1, <1>2, <3>2 DEF TypeOK
        <4>3. quantity[r] \in Int
          BY <1>1, MaxIntAssumption DEF TypeOK, Stock
        <4> QED
          BY <1>2, <3>1, <4>1, <4>2, <4>3
      <3>3. CASE r # row
        <4>1. lock[r] = w /\ work'[w][r] = work[w][r]
          BY <1>1, <1>2, <2>6, <3>3 DEF TypeOK
        <4> QED
          BY <1>1, <1>2, <3>1, <4>1 DEF WorkerOK
      <3> QED
        BY <3>2, <3>3
    <2> QED
      BY <2>4, <2>5, <2>6 DEF WorkerOK
  <1>6. ASSUME NEW v \in Workers, v # w PROVE WorkerOK(v)'
    <2>1. pc'[v] = pc[v] /\ work'[v] = work[v]
      BY <1>1, <1>2, <1>6 DEF TypeOK
    <2>2. \A r \in Rows : lock'[r] = v <=> lock[r] = v
      BY <1>1, <1>2, <1>6, NoWorkerAssumption DEF TypeOK
    <2> QED
      BY <1>2, <2>1, <2>2, IndInvParts, OthersKept
  <1> QED
    BY <1>3, <1>4, <1>5, <1>6, IndInvNext

\* SELECT ... FOR UPDATE keeps the invariant: it reads the committed stock.
LEMMA LockRowStep ==
    ASSUME IndInv, NEW w \in Workers, LockRow(w)
    PROVE  IndInv'
  <1>1. pc[w] = "select" /\ Row(w) \in records /\ lock[Row(w)] = NoWorker
        /\ Hold(w, Row(w), quantity[Row(w)])
    BY DEF LockRow, CanLock
  <1>2. Row(w) \in Rows
    BY <1>1 DEF IndInv, TypeOK
  <1> QED
    BY <1>1, <1>2, HoldStep

\* The INSERT of a missing row keeps the invariant: a key without a committed
\* row has no stock, so the new object has the committed stock too.
LEMMA InsertRowStep ==
    ASSUME IndInv, NEW w \in Workers, InsertRow(w)
    PROVE  IndInv'
  <1>1. CASE Fail(w)
    BY <1>1, FailStep
  <1>2. CASE ~Fail(w)
    <2>1. /\ pc[w] = "insert" /\ Row(w) \notin records /\ lock[Row(w)] = NoWorker
          /\ Hold(w, Row(w), 0)
      BY <1>2 DEF InsertRow, CanInsert
    <2>2. TypeOK /\ Progress(w) /\ EmptyKeys
      BY IndInvParts DEF WorkerOK
    <2>3. Row(w) \in Rows
      BY <2>1, <2>2, HeldAreRows
    <2>4. quantity[Row(w)] = 0
      BY <2>1, <2>2, <2>3 DEF EmptyKeys
    <2>5. Leg(w).effect = "increase"
      BY <2>1, <2>2 DEF Progress
    <2> QED
      BY <2>1, <2>3, <2>4, <2>5, HoldStep
  <1> QED
    BY <1>1, <1>2

\* Arithmetic of one or two legs.
LEMMA OneOrTwo ==
    ASSUME NEW n \in {1, 2}, NEW k \in {1, 2}, k <= n
    PROVE  IF k < n THEN k = 1 /\ n = 2 ELSE k = n
  OBVIOUS

\* Applying a leg keeps the invariant: the object of its row moves from the
\* committed stock to the committed stock plus the movement's effect.
LEMMA ApplyLegStep ==
    ASSUME IndInv, NEW w \in Workers, ApplyLeg(w)
    PROVE  IndInv'
  <1>1. CASE Fail(w)
    BY <1>1, FailStep
  <1>2. CASE ~Fail(w)
    <2> DEFINE row == Row(w)
    <2>1. /\ TypeOK /\ EmptyKeys /\ Progress(w) /\ WorkerOK(w)
          /\ req[w] \in MovementCreate
          /\ leg[w] \in 1 .. Len(Legs(req[w]))
          /\ pc[w] = "apply" /\ LegsHeld(w) = leg[w]
          /\ row \in Rows
      BY <1>2, IndInvParts, BusyRequest, HeldAreRows DEF WorkerOK, LegsHeld, ApplyLeg
    <2>2. /\ Result(w) \in Stock
          /\ work' = [work EXCEPT ![w][row] = Result(w)]
          /\ \/ /\ leg[w] < Len(Legs(req[w])) /\ leg' = [leg EXCEPT ![w] = leg[w] + 1]
                /\ pc' = [pc EXCEPT ![w] = "warehouse"]
             \/ /\ ~(leg[w] < Len(Legs(req[w]))) /\ leg' = leg
                /\ pc' = [pc EXCEPT ![w] = "commit"]
          /\ records' = records /\ quantity' = quantity /\ movements' = movements
          /\ req' = req /\ own' = own /\ lock' = lock
      BY <1>2 DEF ApplyLeg, Fits, Goto, dbVars
    <2>3. Len(Legs(req[w])) \in {1, 2}
      BY <2>1, LegsLength
    <2>4. \/ leg[w] = 1 /\ leg'[w] = 2 /\ pc'[w] = "warehouse" /\ Len(Legs(req[w])) = 2
          \/ leg'[w] = leg[w] /\ leg[w] = Len(Legs(req[w])) /\ pc'[w] = "commit"
      <3>1. leg[w] \in {1, 2} /\ leg[w] <= Len(Legs(req[w]))
        BY <2>1 DEF TypeOK, Progress
      <3>2. CASE leg[w] < Len(Legs(req[w]))
        <4>1. leg[w] = 1 /\ Len(Legs(req[w])) = 2
          BY <2>3, <3>1, <3>2, OneOrTwo
        <4>2. leg'[w] = leg[w] + 1 /\ pc'[w] = "warehouse"
          BY <2>1, <2>2, <3>2 DEF TypeOK
        <4> QED
          BY <4>1, <4>2
      <3>3. CASE ~(leg[w] < Len(Legs(req[w])))
        <4>1. leg[w] = Len(Legs(req[w]))
          BY <2>3, <3>1, <3>3, OneOrTwo
        <4>2. leg'[w] = leg[w] /\ pc'[w] = "commit"
          BY <2>1, <2>2, <3>3 DEF TypeOK
        <4> QED
          BY <4>1, <4>2
      <3> QED
        BY <3>2, <3>3
    <2>5. TypeOK'
      <3>1. leg' \in [Workers -> {1, 2}]
        BY <2>1, <2>2, <2>4 DEF TypeOK
      <3>2. pc' \in [Workers -> Labels] /\ \A v \in Workers : pc'[v] = "idle" <=> pc[v] = "idle"
        BY <2>1, <2>2 DEF TypeOK, Labels
      <3>3. work' \in [Workers -> [Rows -> Stock]]
        BY <2>1, <2>2 DEF TypeOK
      <3> QED
        BY <2>1, <2>2, <3>1, <3>2, <3>3 DEF TypeOK
    <2>6. EmptyKeys'
      BY <2>1, <2>2 DEF EmptyKeys
    <2>7. WorkerOK(w)'
      <3>1. LegsHeld(w)' = LegsHeld(w)
        BY <2>1, <2>4 DEF LegsHeld
      <3>2. HeldRows(w)' = HeldRows(w)
        BY <2>2, <3>1 DEF HeldRows
      <3>3. Progress(w)'
        BY <2>1, <2>2, <2>3, <2>4, <3>1 DEF Progress
      <3>4. ASSUME NEW r \in Rows, lock'[r] = w
            PROVE  work'[w][r] = quantity'[r] + (IF Applied(w, r)' THEN Effect(req'[w], r) ELSE 0)
        <4>1. row = <<req[w].product, Legs(req[w])[leg[w]].warehouse>>
          BY DEF Row, Leg
        <4>2. PICK i \in 1 .. leg[w] : r = <<req[w].product, Legs(req[w])[i].warehouse>>
          BY <2>1, <2>2, <3>4 DEF WorkerOK, HeldRows
        <4>3. i \in 1 .. Len(Legs(req[w])) /\ leg[w] \in Nat
          BY <2>1, <2>3, <4>2
        <4>4. Applied(w, r)'
          <5>1. CASE pc'[w] = "commit"
            BY <5>1 DEF Applied
          <5>2. CASE pc'[w] # "commit"
            <6>1. i \in 1 .. leg'[w] - 1 /\ Legs(req'[w])[i].warehouse = r[2]
              BY <2>2, <2>4, <4>2, <5>2
            <6> QED
              BY <6>1 DEF Applied
          <5> QED
            BY <5>1, <5>2
        <4>5. /\ work[w][r] = quantity[r] + (IF Applied(w, r) THEN Effect(req[w], r) ELSE 0)
              /\ quantity[r] \in Int
          BY <2>1, <2>2, <3>4, MaxIntAssumption DEF WorkerOK, TypeOK, Stock
        <4>6. CASE r = row
          <5>1. ~Applied(w, r)
            <6>1. SUFFICES ASSUME NEW j \in 1 .. leg[w] - 1, Legs(req[w])[j].warehouse = r[2]
                           PROVE  FALSE
              BY <2>1 DEF Applied
            <6>2. r[2] = Legs(req[w])[leg[w]].warehouse
              BY <4>1, <4>6
            <6>3. j \in 1 .. Len(Legs(req[w])) /\ j # leg[w]
              BY <2>1, <2>3, <6>1
            <6> QED
              BY <2>1, <6>1, <6>2, <6>3, LegsDistinct
          <5>2. work[w][row] = quantity[r]
            BY <4>5, <4>6, <5>1
          <5>3. work'[w][r] = Result(w)
            BY <2>1, <2>2, <4>6 DEF TypeOK
          <5>4. Effect(req[w], r) =
                   IF Leg(w).effect = "increase" THEN req[w].quantity ELSE -req[w].quantity
            BY <2>1, <4>1, <4>6, EffectOfLeg DEF Leg
          <5> QED
            BY <2>2, <4>4, <5>2, <5>3, <5>4 DEF Result
        <4>7. CASE r # row
          <5>1. i \in 1 .. leg[w] - 1
            BY <2>1, <4>1, <4>2, <4>3, <4>7
          <5>2. Applied(w, r)
            BY <4>2, <5>1 DEF Applied
          <5>3. work'[w][r] = work[w][r]
            BY <2>1, <2>2, <4>7 DEF TypeOK
          <5> QED
            BY <2>2, <4>4, <4>5, <5>2, <5>3
        <4> QED
          BY <4>6, <4>7
      <3> QED
        BY <2>1, <2>2, <3>2, <3>3, <3>4 DEF WorkerOK
    <2>8. ASSUME NEW v \in Workers, v # w PROVE WorkerOK(v)'
      <3>1. pc'[v] = pc[v] /\ leg'[v] = leg[v] /\ work'[v] = work[v]
        BY <2>1, <2>2, <2>8 DEF TypeOK
      <3> QED
        BY <2>2, <3>1, IndInvParts, OthersKept
    <2> QED
      BY <2>5, <2>6, <2>7, <2>8, IndInvNext
  <1> QED
    BY <1>1, <1>2

\* What a worker knows when it commits: it holds the rows of its movement and
\* nothing else, and its objects have their stock after the movement.
LEMMA CommitReady ==
    ASSUME IndInv, NEW w \in Workers, pc[w] = "commit"
    PROVE  /\ req[w] \in MovementCreate
           /\ req[w].product \in Products
           /\ HeldRows(w) = AffectedRows(req[w])
           /\ \A r \in Rows : lock[r] = w <=> r \in AffectedRows(req[w])
           /\ \A r \in AffectedRows(req[w]) : work[w][r] = quantity[r] + Effect(req[w], r)
  <1>1. /\ TypeOK /\ Progress(w) /\ WorkerOK(w) /\ req[w] \in MovementCreate
        /\ req[w].product \in Products
        /\ LegsHeld(w) = Len(Legs(req[w]))
    BY IndInvParts, BusyRequest DEF WorkerOK, Progress, LegsHeld
  <1>2. HeldRows(w) \subseteq Rows
    BY <1>1, HeldAreRows
  <1>3. HeldRows(w) = AffectedRows(req[w])
    <2>1. ASSUME NEW r \in Rows PROVE r \in HeldRows(w) <=> r \in AffectedRows(req[w])
      <3>1. r = <<r[1], r[2]>> /\ r[2] \in Warehouses
        BY DEF Rows
      <3>2. r[2] \in {req[w].source, req[w].destination} <=>
               \E i \in 1 .. Len(Legs(req[w])) : Legs(req[w])[i].warehouse = r[2]
        BY <1>1, <3>1, LegsCover
      <3>3. r \in HeldRows(w) <=>
               \E i \in 1 .. Len(Legs(req[w])) : r = <<req[w].product, Legs(req[w])[i].warehouse>>
        BY <1>1 DEF HeldRows
      <3>4. ASSUME NEW i \in 1 .. Len(Legs(req[w]))
            PROVE  r = <<req[w].product, Legs(req[w])[i].warehouse>> <=>
                      r[1] = req[w].product /\ Legs(req[w])[i].warehouse = r[2]
        BY <3>1
      <3> QED
        BY <3>2, <3>3, <3>4 DEF AffectedRows
    <2> QED
      BY <1>2, <2>1 DEF AffectedRows
  <1>4. \A r \in Rows : lock[r] = w <=> r \in AffectedRows(req[w])
    BY <1>1, <1>3 DEF WorkerOK
  <1>5. \A r \in AffectedRows(req[w]) : work[w][r] = quantity[r] + Effect(req[w], r)
    <2>1. \A r \in Rows : Applied(w, r)
      BY DEF Applied
    <2> QED
      BY <1>1, <1>4, <2>1 DEF WorkerOK, AffectedRows
  <1> QED
    BY <1>1, <1>3, <1>4, <1>5

\* The commit keeps the invariant: it changes committed stock only of rows that
\* nobody else holds.
LEMMA CommitStep ==
    ASSUME IndInv, NEW w \in Workers, Commit(w)
    PROVE  IndInv'
  <1>1. /\ pc[w] = "commit" /\ pc' = [pc EXCEPT ![w] = "evaluate"]
        /\ records' = records \cup AffectedRows(req[w])
        /\ quantity' = [r \in Rows |-> IF r \in AffectedRows(req[w]) THEN work[w][r] ELSE quantity[r]]
        /\ movements' = Append(movements, req[w])
        /\ lock' = [r \in Rows |-> IF lock[r] = w THEN NoWorker ELSE lock[r]]
        /\ own' = [own EXCEPT ![w] = Len(movements')]
        /\ req' = req /\ leg' = leg /\ work' = work
    BY DEF Commit, Goto, Released
  <1>2. TypeOK /\ EmptyKeys /\ Progress(w)
    BY IndInvParts DEF WorkerOK
  <1>3. /\ req[w] \in MovementCreate /\ req[w].product \in Products
        /\ \A r \in Rows : lock[r] = w <=> r \in AffectedRows(req[w])
    BY <1>1, CommitReady
  <1>4. TypeOK'
    <2>1. records' \subseteq Rows /\ quantity' \in [Rows -> Stock]
      BY <1>1, <1>2 DEF TypeOK, AffectedRows
    <2>2. movements' \in Seq(MovementCreate) /\ own' \in [Workers -> Nat]
      BY <1>1, <1>2, <1>3 DEF TypeOK
    <2>3. lock' \in [Rows -> Workers \cup {NoWorker}]
      BY <1>1, <1>2 DEF TypeOK
    <2>4. pc' \in [Workers -> Labels] /\ \A v \in Workers : pc'[v] = "idle" <=> pc[v] = "idle"
      BY <1>1, <1>2 DEF TypeOK, Labels
    <2> QED
      BY <1>1, <1>2, <2>1, <2>2, <2>3, <2>4 DEF TypeOK
  <1>5. EmptyKeys'
    BY <1>1, <1>2 DEF EmptyKeys, AffectedRows
  <1>6. WorkerOK(w)'
    <2>1. pc'[w] = "evaluate"
      BY <1>1, <1>2 DEF TypeOK
    <2>2. LegsHeld(w)' = 0
      BY <2>1 DEF LegsHeld
    <2>3. HeldRows(w)' = {}
      BY <2>2 DEF HeldRows
    <2>4. \A r \in Rows : lock'[r] # w
      BY <1>1, NoWorkerAssumption
    <2>5. leg'[w] <= Len(Legs(req'[w])) /\ 1 .. LegsHeld(w)' = {}
      BY <1>1, <1>2, <2>2 DEF Progress
    <2>6. Progress(w)'
      BY <1>1, <1>3, <2>1, <2>5 DEF Progress
    <2> QED
      BY <2>3, <2>4, <2>6 DEF WorkerOK
  <1>7. ASSUME NEW v \in Workers, v # w PROVE WorkerOK(v)'
    <2>1. pc'[v] = pc[v]
      BY <1>1, <1>2, <1>7 DEF TypeOK
    <2>2. \A r \in Rows : lock'[r] = v <=> lock[r] = v
      BY <1>1, <1>7, NoWorkerAssumption
    <2>3. \A r \in Rows : lock[r] = v => quantity'[r] = quantity[r]
      BY <1>1, <1>3, <1>7
    <2> QED
      BY <1>1, <2>1, <2>2, <2>3, IndInvParts, OthersKept
  <1> QED
    BY <1>4, <1>5, <1>6, <1>7, IndInvNext

\* Answering the request keeps the invariant.
LEMMA PublishStep ==
    ASSUME IndInv, NEW w \in Workers, Publish(w)
    PROVE  IndInv'
  BY EndRequestStep DEF Publish

\* A step of the environment that changes nothing keeps the invariant.
LEMMA StutterStep ==
    ASSUME IndInv, UNCHANGED vars
    PROVE  IndInv'
  <1> USE DEF vars
  <1>1. TypeOK' /\ EmptyKeys'
    BY DEF IndInv, TypeOK, EmptyKeys
  <1>2. ASSUME NEW v \in Workers PROVE WorkerOK(v)'
    BY IndInvParts, OthersKept
  <1> QED
    BY <1>1, <1>2, IndInvNext

\* Every step of the system keeps the invariant.
LEMMA NextIndInv == IndInv /\ [Next]_vars => IndInv'
  <1> SUFFICES ASSUME IndInv, [Next]_vars PROVE IndInv'
    OBVIOUS
  <1>1. ASSUME NEW w \in Workers, Receive(w) PROVE IndInv'
    BY <1>1, ReceiveStep
  <1>2. ASSUME NEW w \in Workers, CheckProduct(w) PROVE IndInv'
    BY <1>2, CheckProductStep
  <1>3. ASSUME NEW w \in Workers, CheckWarehouse(w) PROVE IndInv'
    BY <1>3, CheckWarehouseStep
  <1>4. ASSUME NEW w \in Workers, LockRow(w) PROVE IndInv'
    BY <1>4, LockRowStep
  <1>5. ASSUME NEW w \in Workers, RowMissing(w) PROVE IndInv'
    BY <1>5, RowMissingStep
  <1>6. ASSUME NEW w \in Workers, InsertRow(w) PROVE IndInv'
    BY <1>6, InsertRowStep
  <1>7. ASSUME NEW w \in Workers, ApplyLeg(w) PROVE IndInv'
    BY <1>7, ApplyLegStep
  <1>8. ASSUME NEW w \in Workers, Commit(w) PROVE IndInv'
    BY <1>8, CommitStep
  <1>9. ASSUME NEW w \in Workers, EvaluateAffected(w) PROVE IndInv'
    BY <1>9, EvaluateAffectedStep
  <1>10. ASSUME NEW w \in Workers, Publish(w) PROVE IndInv'
    BY <1>10, PublishStep
  <1>11. ASSUME NEW w \in Workers, Crash(w) PROVE IndInv'
    BY <1>11, FailStep DEF Crash
  <1>12. ASSUME UNCHANGED vars PROVE IndInv'
    BY <1>12, StutterStep
  <1> QED
    BY <1>1, <1>2, <1>3, <1>4, <1>5, <1>6, <1>7, <1>8, <1>9, <1>10, <1>11, <1>12
       DEF Next, Step, Full

\* IndInv holds in every reachable state, for any number of handlers.
THEOREM Inductive == Spec => []IndInv
  BY InitIndInv, NextIndInv, PTL DEF Spec

-----------------------------------------------------------------------------
(* The theorems *)

\* Every variable keeps its type; in particular committed stock and the stock a
\* handler is about to write never leave 0 .. MaxInt, whatever the handlers'
\* interleaving ("Must never go negative" in app/models/inventory.py).
THEOREM TypeCorrect == Spec => []TypeOK
  BY Inductive, PTL DEF IndInv

\* A handler holds exactly the rows of the legs it has reached, until it commits
\* or rolls back (the FOR UPDATE locks of _increase_stock and _decrease_stock).
THEOREM LocksHeldExactly == Spec => []LockDiscipline
  BY Inductive, PTL DEF IndInv

\* No lost update: what the holder of a row will write is the committed stock
\* plus its own movement (get_by_product_and_warehouse_for_update).
THEOREM NoLostUpdate == Spec => []NoStaleWork
  BY Inductive, PTL DEF IndInv

\* The lock order follows from the invariant: a worker that holds one row and
\* waits for another is at its second leg, whose warehouse id is the larger.
LEMMA AscendLemma == IndInv => WaitsAscend
  <1> SUFFICES ASSUME IndInv, NEW w \in Workers, NEW v \in Workers, NEW u \in Workers,
                      WaitsFor(w, v), WaitsFor(v, u)
               PROVE  Row(w)[1] = Row(v)[1] /\ Row(w)[2] < Row(v)[2]
    BY DEF WaitsAscend
  <1>1. /\ TypeOK /\ Progress(w) /\ Progress(v) /\ WorkerOK(v)
        /\ pc[w] \in {"select", "insert"} /\ pc[v] \in {"select", "insert"}
        /\ lock[Row(w)] = v
    BY IndInvParts DEF WaitsFor, WorkerOK
  <1>2. /\ Row(w) \in HeldRows(v)
        /\ LegsHeld(v) = leg[v] - 1
        /\ leg[v] \in 1 .. Len(Legs(req[v])) /\ req[v] \in MovementCreate
    BY <1>1, HeldAreRows, BusyRequest DEF WorkerOK, LegsHeld
  <1>3. PICK i \in 1 .. leg[v] - 1 : Row(w) = <<req[v].product, Legs(req[v])[i].warehouse>>
    BY <1>2 DEF HeldRows
  <1>4. i = 1 /\ leg[v] = 2 /\ Len(Legs(req[v])) = 2
    <2>1. Len(Legs(req[v])) \in {1, 2}
      BY <1>2, LegsLength
    <2>2. leg[v] \in {1, 2} /\ leg[v] # 1
      BY <1>1, <1>3 DEF TypeOK
    <2>3. leg[v] = 2 /\ leg[v] <= Len(Legs(req[v]))
      BY <1>1, <2>2 DEF Progress
    <2> QED
      BY <1>3, <2>1, <2>3
  <1>5. Legs(req[v])[1].warehouse < Legs(req[v])[2].warehouse
    BY <1>2, <1>4, LegsAscend
  <1>6. Row(v) = <<req[v].product, Legs(req[v])[2].warehouse>>
    BY <1>4 DEF Row, Leg
  <1> QED
    BY <1>3, <1>4, <1>5, <1>6

\* Along every chain of waiting handlers the rows ascend, so opposite transfers
\* cannot wait for each other (_transfer_stock sorts the warehouse ids).
THEOREM LockOrder == Spec => []WaitsAscend
  BY Inductive, AscendLemma, PTL

\* The ledger sees the same movements and rows.
LEMMA SameData ==
    /\ Ledger!Rows = Rows
    /\ Ledger!Stock = Stock
    /\ Ledger!MovementCreate = MovementCreate
    /\ \A m : Ledger!AffectedRows(m) = AffectedRows(m)
    /\ \A m, r : Ledger!Effect(m, r) = Effect(m, r)
  BY DEF Ledger!Rows, Rows, Ledger!Stock, Stock, Ledger!MovementCreate, MovementCreate,
         Ledger!Payload, Payload, Ledger!ValidMovement, ValidMovement,
         Ledger!MovementType, MovementType,
         Ledger!AffectedRows, AffectedRows, Ledger!Effect, Effect

\* The empty database is the empty ledger.
LEMMA LedgerInitial == Init => Ledger!LedgerInit
  BY SameData DEF Init, Ledger!LedgerInit

\* The commit of a handler is the ledger's Record step for its movement.
LEMMA CommitRecords ==
    ASSUME IndInv, NEW w \in Workers, Commit(w)
    PROVE  Ledger!Record(req[w])
  <1> DEFINE m == req[w]
  <1>1. /\ pc[w] = "commit"
        /\ records' = records \cup AffectedRows(m)
        /\ quantity' = [r \in Rows |-> IF r \in AffectedRows(m) THEN work[w][r] ELSE quantity[r]]
        /\ movements' = Append(movements, m)
    BY DEF Commit
  <1>2. /\ TypeOK /\ Progress(w)
        /\ LegsHeld(w) = Len(Legs(m))
    BY <1>1, IndInvParts DEF WorkerOK, Progress, LegsHeld
  <1>3. /\ m \in MovementCreate /\ m.product \in Products
        /\ \A r \in AffectedRows(m) : work[w][r] = quantity[r] + Effect(m, r)
    BY <1>1, CommitReady
  <1>4. ASSUME NEW i \in 1 .. Len(Legs(m))
        PROVE  /\ Legs(m)[i].warehouse \in Warehouses
               /\ Legs(m)[i].effect = "decrease" => <<m.product, Legs(m)[i].warehouse>> \in records
    BY <1>2 DEF Progress
  <1>5. ASSUME NEW r \in Rows, r \notin AffectedRows(m) PROVE Effect(m, r) = 0
    BY <1>5 DEF AffectedRows, Effect
  <1>6. \A r \in AffectedRows(m) : r \in Rows /\ work[w][r] \in Stock
    BY <1>2 DEF TypeOK, AffectedRows
  <1>7. {m.source, m.destination} \subseteq Warehouses \cup {NoWarehouse}
    <2>1. ASSUME NEW h \in {m.source, m.destination}, h # NoWarehouse
          PROVE  \E i \in 1 .. Len(Legs(m)) : Legs(m)[i].warehouse = h
      <3>1. CASE m.type = "IN"
        BY <1>3, <2>1, <3>1, LegsShape, MovementFields DEF Increase, ValidMovement
      <3>2. CASE m.type = "OUT"
        BY <1>3, <2>1, <3>2, LegsShape, MovementFields DEF Decrease, ValidMovement
      <3>3. CASE m.type = "TRANSFER"
        <4>1. /\ Len(Legs(m)) = 2
              /\ {Legs(m)[1].warehouse, Legs(m)[2].warehouse} = {m.source, m.destination}
          BY <1>3, <3>3, LegsShape DEF Increase, Decrease
        <4> QED
          BY <2>1, <4>1
      <3> QED
        BY <1>3, <3>1, <3>2, <3>3, MovementFields
    <2> QED
      BY <1>4, <2>1
  <1>8. m.source # NoWarehouse => <<m.product, m.source>> \in records
    <2>1. SUFFICES ASSUME m.source # NoWarehouse PROVE <<m.product, m.source>> \in records
      OBVIOUS
    <2>2. m.type \in {"OUT", "TRANSFER"}
      BY <1>3, <2>1, MovementFields DEF ValidMovement
    <2>3. PICK i \in 1 .. Len(Legs(m)) : Legs(m)[i] = Decrease(m)
      <3>1. CASE Len(Legs(m)) = 1 /\ Legs(m)[1] = Decrease(m)
        BY <3>1
      <3>2. CASE Len(Legs(m)) = 2 /\ (Legs(m)[1] = Decrease(m) \/ Legs(m)[2] = Decrease(m))
        BY <3>2
      <3> QED
        BY <1>3, <2>2, <3>1, <3>2, LegsShape
    <2> QED
      BY <1>4, <2>3 DEF Decrease
  <1>9. Ledger!Recordable(m)
    BY <1>3, <1>6, <1>7, <1>8, SameData DEF Ledger!Recordable
  <1>10. quantity' = [r \in Rows |-> quantity[r] + Effect(m, r)]
    <2>1. ASSUME NEW r \in Rows
          PROVE  (IF r \in AffectedRows(m) THEN work[w][r] ELSE quantity[r]) = quantity[r] + Effect(m, r)
      <3>1. quantity[r] \in Int
        BY <1>2, MaxIntAssumption DEF TypeOK, Stock
      <3> QED
        BY <1>3, <1>5, <3>1
    <2> QED
      BY <1>1, <2>1
  <1> QED
    BY <1>1, <1>9, <1>10, SameData DEF Ledger!Record

\* Every step is a Record step of the ledger or leaves the database as it is.
LEMMA StepRecords == IndInv /\ [Next]_vars => [Ledger!LedgerNext]_Ledger!ledgerVars
  <1> SUFFICES ASSUME IndInv, [Next]_vars PROVE [Ledger!LedgerNext]_Ledger!ledgerVars
    OBVIOUS
  <1>1. ASSUME NEW w \in Workers, Commit(w) PROVE Ledger!LedgerNext
    <2>1. req[w] \in Ledger!MovementCreate
      BY <1>1, CommitReady, SameData DEF Commit
    <2> QED
      BY <1>1, <2>1, CommitRecords DEF Ledger!LedgerNext
  <1>2. ASSUME NEW w \in Workers,
               \/ Receive(w) \/ CheckProduct(w) \/ CheckWarehouse(w) \/ LockRow(w)
               \/ RowMissing(w) \/ InsertRow(w) \/ ApplyLeg(w) \/ EvaluateAffected(w)
               \/ Publish(w) \/ Crash(w)
        PROVE  UNCHANGED dbVars
    BY <1>2 DEF Receive, CheckProduct, CheckWarehouse, LockRow, RowMissing, InsertRow,
                ApplyLeg, EvaluateAffected, Publish, Crash, Fail, Hold
  <1>3. ASSUME UNCHANGED vars PROVE UNCHANGED dbVars
    BY <1>3 DEF vars, dbVars
  <1> QED
    BY <1>1, <1>2, <1>3 DEF Next, Step, Full, dbVars, Ledger!ledgerVars

\* The transactions of record_movement implement the ledger: stock and history
\* change together, whole movements at a time, and only when they are recordable.
THEOREM Refinement == Spec => ImplementsLedger
  BY LedgerInitial, StepRecords, Inductive, PTL DEF Spec, ImplementsLedger, Ledger!LedgerSpec

-----------------------------------------------------------------------------
(* No deadlock *)

\* In a set of handlers one waits for none of the others: the one that waits for
\* the largest warehouse id would wait for a handler that waits for a larger one.
LEMMA NoDeadlockLemma == IndInv => NoDeadlock
  <1> SUFFICES ASSUME IndInv, NEW S \in (SUBSET Workers) \ {{}},
                      \A w \in S : \E v \in S : WaitsFor(w, v)
               PROVE  FALSE
    BY DEF NoDeadlock
  <1> DEFINE id == [w \in S |-> Row(w)[2]]
  <1>1. \A w \in S : id[w] \in Nat
    <2>1. ASSUME NEW w \in S PROVE Row(w)[2] \in Nat
      <3>1. Row(w) \in Rows
        BY IndInvParts, HeldAreRows DEF WaitsFor, WorkerOK
      <3> QED BY <3>1, KnownAssumption, WarehouseIdsAssumption DEF Rows
    <2> QED BY <2>1
  <1>2. IsFiniteSet(S) /\ S # {}
    BY WorkersAssumption, FS_Subset
  <1>3. PICK w \in S : \A v \in S : id[v] <= id[w]
    <2> HIDE DEF id
    <2> QED BY <1>1, <1>2, Greatest
  <1>4. PICK v \in S, u \in S : WaitsFor(w, v) /\ WaitsFor(v, u)
    OBVIOUS
  <1>5. Row(w)[2] < Row(v)[2]
    BY <1>4, AscendLemma DEF WaitsAscend
  <1>6. id[v] <= id[w] /\ id[v] \in Nat /\ id[w] \in Nat /\ id[w] < id[v]
    BY <1>1, <1>3, <1>5
  <1> QED
    BY <1>6

\* Handlers can never deadlock on each other, however many there are and whatever
\* they transfer (the docstring of _transfer_stock).
THEOREM DeadlockFree == Spec => []NoDeadlock
  BY Inductive, NoDeadlockLemma, PTL

-----------------------------------------------------------------------------
(* Stock, history and events *)

\* The stock of a row after the movements there were is what it was, and the new
\* movement adds its effect.
LEMMA HistoryGrows ==
    ASSUME movements \in Seq(MovementCreate), NEW m \in MovementCreate,
           movements' = Append(movements, m), NEW N, N = Len(movements), NEW r
    PROVE  /\ N \in Nat /\ Len(movements') = N + 1
           /\ \A i \in 1 .. N : movements'[i] = movements[i]
           /\ movements'[N + 1] = m
           /\ \A n \in 0 .. N : BalanceAfter(r, n)' = BalanceAfter(r, n)
           /\ BalanceAfter(r, N + 1)' = BalanceAfter(r, N) + Effect(m, r)
  <1> DEFINE f == [i \in DOMAIN movements |-> Effect(movements[i], r)]
             g == [i \in DOMAIN movements' |-> Effect(movements'[i], r)]
  <1>1. /\ N \in Nat /\ Len(movements') = N + 1
        /\ \A i \in 1 .. N : movements'[i] = movements[i] /\ movements[i] \in MovementCreate
        /\ movements'[N + 1] = m
    OBVIOUS
  <1>2. ASSUME NEW e \in MovementCreate PROVE Effect(e, r) \in Int
    BY MovementFields DEF Effect
  <1>3. DOMAIN movements = 1 .. N /\ DOMAIN movements' = 1 .. N + 1
    BY <1>1
  <1>4. /\ \A i \in 1 .. N : g[i] = f[i] /\ g[i] \in Int
        /\ g[N + 1] = Effect(m, r) /\ g[N + 1] \in Int
    BY <1>1, <1>2, <1>3
  <1>5. \A n \in 0 .. N : IsFiniteSet(1 .. n)
    BY <1>1, FS_Interval
  <1>6. \A n \in 0 .. N : SumOver(g, 1 .. n) = SumOver(f, 1 .. n)
    <2>1. ASSUME NEW n \in 0 .. N PROVE SumOver(g, 1 .. n) = SumOver(f, 1 .. n)
      <3>1. \A i \in 1 .. n : g[i] = f[i]
        BY <1>1, <1>4
      <3> HIDE DEF f, g
      <3> QED BY <1>5, <3>1, SumSame
    <2> QED BY <2>1
  <1>7. SumOver(g, 1 .. N + 1) = SumOver(f, 1 .. N) + Effect(m, r)
    <2>1. PICK R : R = 1 .. N
      OBVIOUS
    <2>2. 1 .. N + 1 = R \cup {N + 1} /\ N + 1 \notin R
      BY <1>1, <2>1
    <2>3. \A i \in R \cup {N + 1} : g[i] \in Int
      BY <1>4, <2>1
    <2>4. IsFiniteSet(R) /\ SumOver(g, R) = SumOver(f, R)
      BY <1>1, <1>5, <1>6, <2>1
    <2>5. SumOver(g, R \cup {N + 1}) = SumOver(g, R) + g[N + 1]
      <3> HIDE DEF g
      <3> QED BY <2>2, <2>3, <2>4, SumAdds
    <2> QED BY <1>4, <2>1, <2>2, <2>4, <2>5
  <1>8. \A n : BalanceAfter(r, n) = SumOver(f, 1 .. n) /\ BalanceAfter(r, n)' = SumOver(g, 1 .. n)
    BY DEF BalanceAfter
  <1>9. N \in 0 .. N
    BY <1>1
  <1> HIDE DEF f, g
  <1> QED
    BY <1>1, <1>6, <1>7, <1>8, <1>9

\* A new movement changes nothing of what there was up to an earlier one.
LEMMA EarlierKept ==
    ASSUME movements \in Seq(MovementCreate), NEW m \in MovementCreate,
           movements' = Append(movements, m), NEW n \in DOMAIN movements
    PROVE  /\ n \in DOMAIN movements' /\ movements'[n] = movements[n]
           /\ \A r \in Rows : BalanceAfter(r, n)' = BalanceAfter(r, n)
  <1>1. PICK N : N = Len(movements)
    OBVIOUS
  <1>2. N \in Nat /\ n \in 1 .. N /\ n \in 0 .. N
    BY <1>1
  <1>3. n \in DOMAIN movements' /\ movements'[n] = movements[n]
    BY <1>1, <1>2
  <1>4. ASSUME NEW r \in Rows PROVE BalanceAfter(r, n)' = BalanceAfter(r, n)
    <2>1. \A k \in 0 .. N : BalanceAfter(r, k)' = BalanceAfter(r, k)
      BY <1>1, HistoryGrows
    <2> QED BY <1>2, <2>1
  <1> QED
    BY <1>3, <1>4

\* Of the history alone, a step appends a movement and adds it to the stock, or
\* changes nothing.
LEMMA StepAppends ==
    ASSUME IndInv, [Next]_vars
    PROVE  \/ UNCHANGED <<records, quantity, movements>>
           \/ \E m \in MovementCreate :
                 /\ movements' = Append(movements, m)
                 /\ records' = records \cup AffectedRows(m)
                 /\ quantity' = [r \in Rows |-> quantity[r] + Effect(m, r)]
  BY StepRecords, SameData DEF Ledger!LedgerNext, Ledger!Record, Ledger!ledgerVars

LEMMA InitMatches == Init => StockMatchesHistory
  <1> SUFFICES ASSUME Init, NEW r \in Rows
               PROVE  /\ quantity[r] = BalanceAfter(r, Len(movements))
                      /\ r \in records <=> \E i \in DOMAIN movements : r \in AffectedRows(movements[i])
    BY DEF StockMatchesHistory
  <1>1. 1 .. Len(movements) = {} /\ quantity[r] = 0 /\ records = {} /\ DOMAIN movements = {}
    BY DEF Init
  <1>2. BalanceAfter(r, Len(movements)) = 0
    BY <1>1, SumUnfolds, FS_EmptySet DEF BalanceAfter
  <1> QED
    BY <1>1, <1>2

\* A step keeps stock and history consistent.
LEMMA StepMatches ==
    ASSUME IndInv, StockMatchesHistory, [Next]_vars
    PROVE  StockMatchesHistory'
  <1>1. CASE UNCHANGED <<records, quantity, movements>>
    BY <1>1 DEF StockMatchesHistory, BalanceAfter
  <1>2. ASSUME NEW m \in MovementCreate,
               movements' = Append(movements, m),
               records' = records \cup AffectedRows(m),
               quantity' = [r \in Rows |-> quantity[r] + Effect(m, r)]
        PROVE  StockMatchesHistory'
    <2> SUFFICES ASSUME NEW r \in Rows
                 PROVE  /\ quantity'[r] = BalanceAfter(r, Len(movements))'
                        /\ r \in records' <=>
                              \E i \in DOMAIN movements' : r \in AffectedRows(movements'[i])
      BY DEF StockMatchesHistory
    <2>1. movements \in Seq(MovementCreate)
      BY DEF IndInv, TypeOK
    <2>2. PICK N : N = Len(movements)
      OBVIOUS
    <2>3. /\ N \in Nat /\ Len(movements') = N + 1
          /\ \A i \in 1 .. N : movements'[i] = movements[i]
          /\ movements'[N + 1] = m
          /\ BalanceAfter(r, N + 1)' = BalanceAfter(r, N) + Effect(m, r)
      BY <1>2, <2>1, <2>2, HistoryGrows
    <2>4. quantity'[r] = BalanceAfter(r, N) + Effect(m, r)
      BY <1>2, <2>2 DEF StockMatchesHistory
    <2>5. BalanceAfter(r, Len(movements))' = BalanceAfter(r, N + 1)'
      BY <2>3 DEF BalanceAfter
    <2>6. DOMAIN movements = 1 .. N /\ DOMAIN movements' = 1 .. N + 1
      BY <1>2, <2>1, <2>2, <2>3
    <2>7. r \in records <=> \E i \in 1 .. N : r \in AffectedRows(movements[i])
      BY <2>6 DEF StockMatchesHistory
    <2>8. r \in records' <=> \E i \in 1 .. N + 1 : r \in AffectedRows(movements'[i])
      <3>1. ASSUME r \in AffectedRows(m)
            PROVE  \E i \in 1 .. N + 1 : r \in AffectedRows(movements'[i])
        <4>1. N + 1 \in 1 .. N + 1
          BY <2>3
        <4> QED BY <2>3, <3>1, <4>1
      <3>2. ASSUME NEW i \in 1 .. N, r \in AffectedRows(movements[i])
            PROVE  \E j \in 1 .. N + 1 : r \in AffectedRows(movements'[j])
        <4>1. i \in 1 .. N + 1
          BY <2>3
        <4> QED BY <2>3, <3>2, <4>1
      <3>3. ASSUME NEW i \in 1 .. N + 1, r \in AffectedRows(movements'[i])
            PROVE  r \in records'
        <4>1. CASE i \in 1 .. N
          BY <1>2, <2>3, <2>7, <3>3, <4>1
        <4>2. CASE i = N + 1
          BY <1>2, <2>3, <3>3, <4>2
        <4> QED BY <2>3, <4>1, <4>2
      <3> QED BY <1>2, <2>7, <3>1, <3>2, <3>3
    <2> QED
      BY <2>4, <2>5, <2>3, <2>6, <2>8
  <1> QED
    BY <1>1, <1>2, StepAppends

\* Stock is what the history adds up to, and the rows are those it touched,
\* whatever handlers interleave, fail and crash (the docstring of the service:
\* stock and movement history always consistent).
THEOREM StockIsHistory == Spec => []StockMatchesHistory
  BY Inductive, InitMatches, StepMatches, PTL DEF Spec

\* What a handler knows between its commit and its event: where its movement is,
\* and the stock right after it.
Informed(w) ==
    pc[w] \in {"evaluate", "publish"} =>
        /\ own[w] \in DOMAIN movements /\ movements[own[w]] = req[w]
        /\ \A r \in AffectedRows(req[w]) : work[w][r] = BalanceAfter(r, own[w])

EventInv == EventsReportCommits /\ \A w \in Workers : Informed(w)

\* Movements of others leave what it knows as it is.
LEMMA InformedKept ==
    ASSUME IndInv, [Next]_vars, NEW w \in Workers, Informed(w),
           pc'[w] \in {"evaluate", "publish"} =>
              /\ pc[w] \in {"evaluate", "publish"}
              /\ own'[w] = own[w] /\ req'[w] = req[w] /\ work'[w] = work[w]
    PROVE  Informed(w)'
  <1> SUFFICES ASSUME pc'[w] \in {"evaluate", "publish"}
               PROVE  /\ own[w] \in DOMAIN movements' /\ movements'[own[w]] = req[w]
                      /\ \A r \in AffectedRows(req[w]) : work[w][r] = BalanceAfter(r, own[w])'
    BY DEF Informed, BalanceAfter
  <1>1. /\ own[w] \in DOMAIN movements /\ movements[own[w]] = req[w]
        /\ \A r \in AffectedRows(req[w]) : work[w][r] = BalanceAfter(r, own[w])
    BY DEF Informed
  <1>2. CASE UNCHANGED movements
    BY <1>1, <1>2 DEF BalanceAfter
  <1>3. ASSUME NEW m \in MovementCreate, movements' = Append(movements, m)
        PROVE  /\ own[w] \in DOMAIN movements' /\ movements'[own[w]] = req[w]
               /\ \A r \in AffectedRows(req[w]) : work[w][r] = BalanceAfter(r, own[w])'
    <2>1. movements \in Seq(MovementCreate)
      BY DEF IndInv, TypeOK
    <2>2. PICK n \in DOMAIN movements : n = own[w]
      BY <1>1
    <2>3. /\ n \in DOMAIN movements' /\ movements'[n] = movements[n]
          /\ \A r \in Rows : BalanceAfter(r, n)' = BalanceAfter(r, n)
      BY <1>3, <2>1, EarlierKept
    <2>4. \A r \in AffectedRows(req[w]) : work[w][r] = BalanceAfter(r, n)'
      BY <1>1, <2>2, <2>3 DEF AffectedRows
    <2>5. own'[w] = n
      BY <2>2
    <2> QED
      BY <1>1, <2>2, <2>3, <2>4, <2>5 DEF BalanceAfter
  <1> QED
    BY <1>2, <1>3, StepAppends

\* At its commit a handler has the stock right after its movement.
LEMMA CommitInformed ==
    ASSUME IndInv, StockMatchesHistory, NEW w \in Workers, Commit(w)
    PROVE  Informed(w)'
  <1>1. [Next]_vars
    BY DEF Next, Step
  <1>2. StockMatchesHistory'
    BY <1>1, StepMatches
  <1>3. /\ pc[w] = "commit" /\ req' = req /\ work' = work
        /\ movements' = Append(movements, req[w])
        /\ own' = [own EXCEPT ![w] = Len(movements')]
        /\ quantity' = [r \in Rows |-> IF r \in AffectedRows(req[w]) THEN work[w][r] ELSE quantity[r]]
    BY DEF Commit
  <1>4. req[w] \in MovementCreate /\ movements \in Seq(MovementCreate) /\ own \in [Workers -> Nat]
    BY <1>3, BusyRequest DEF IndInv, TypeOK
  <1>5. PICK N : N = Len(movements')
    OBVIOUS
  <1>6. own'[w] = N /\ N \in DOMAIN movements' /\ movements'[N] = req[w]
    BY <1>3, <1>4, <1>5
  <1>7. ASSUME NEW r \in AffectedRows(req[w]) PROVE work[w][r] = BalanceAfter(r, N)'
    <2>1. r \in Rows /\ quantity'[r] = work[w][r]
      BY <1>3 DEF AffectedRows
    <2>2. quantity'[r] = BalanceAfter(r, Len(movements))'
      BY <1>2, <2>1 DEF StockMatchesHistory
    <2> QED BY <1>5, <2>1, <2>2 DEF BalanceAfter
  <1> QED
    BY <1>3, <1>6, <1>7 DEF Informed, BalanceAfter

\* The steps of others, and those of a handler on its way to the next one.
LEMMA StepInformed ==
    ASSUME IndInv, StockMatchesHistory, [Next]_vars, NEW w \in Workers, Informed(w)
    PROVE  Informed(w)'
  <1>1. CASE Commit(w)
    BY <1>1, CommitInformed
  <1>2. CASE UNCHANGED vars
    BY <1>2, InformedKept DEF vars
  <1>3. ASSUME NEW v \in Workers, ~(v = w /\ Commit(w)), Receive(v) \/ Step(v) \/ Crash(v)
        PROVE  pc'[w] \in {"evaluate", "publish"} =>
                  /\ pc[w] \in {"evaluate", "publish"}
                  /\ own'[w] = own[w] /\ req'[w] = req[w] /\ work'[w] = work[w]
    <2> USE DEF Goto, EndRequest
    <2>0. /\ pc \in [Workers -> Labels] /\ own \in [Workers -> Nat]
          /\ work \in [Workers -> [Rows -> Stock]]
          /\ req \in [Workers -> MovementCreate \cup {NoRequest}]
      BY DEF IndInv, TypeOK
    <2>1. CASE Fail(v) \/ Publish(v)
      BY <2>0, <2>1 DEF Fail, Publish
    <2>2. CASE Receive(v)
      BY <2>0, <2>2 DEF Receive
    <2>3. CASE CheckProduct(v) /\ ~Fail(v)
      BY <2>0, <2>3 DEF CheckProduct
    <2>4. CASE CheckWarehouse(v) /\ ~Fail(v)
      BY <2>0, <2>4 DEF CheckWarehouse
    <2>5. CASE (LockRow(v) \/ InsertRow(v)) /\ ~Fail(v)
      <3>1. PICK r, q : Hold(v, r, q)
        BY <2>5 DEF LockRow, InsertRow
      <3> QED BY <2>0, <3>1 DEF Hold
    <2>6. CASE RowMissing(v) /\ ~Fail(v)
      BY <2>0, <2>6 DEF RowMissing
    <2>7. CASE ApplyLeg(v) /\ ~Fail(v)
      BY <2>0, <2>7 DEF ApplyLeg
    <2>8. CASE Commit(v) /\ v # w
      BY <2>0, <2>8 DEF Commit
    <2>9. CASE EvaluateAffected(v)
      BY <2>0, <2>9 DEF EvaluateAffected
    <2> QED
      BY <1>3, <2>1, <2>2, <2>3, <2>4, <2>5, <2>6, <2>7, <2>8, <2>9 DEF Step, Crash
  <1> QED
    BY <1>1, <1>2, <1>3, InformedKept DEF Next, Full

\* An event says what its handler knows.
LEMMA StepEvents ==
    ASSUME IndInv, EventInv, [Next]_vars
    PROVE  EventsReportCommits'
  <1> DEFINE Right(e) ==
        /\ e.position \in DOMAIN movements
        /\ movements[e.position] = e.movement
        /\ e.movement.type # "TRANSFER" =>
              e.resulting = {BalanceAfter(r, e.position) : r \in AffectedRows(e.movement)}
  <1>1. \A e \in events : Right(e)
    BY DEF EventInv, EventsReportCommits
  <1>2. ASSUME NEW e \in events PROVE Right(e)'
    <2>1. Right(e)
      BY <1>1
    <2>2. CASE UNCHANGED movements
      <3>1. PICK n : n = e.position
        OBVIOUS
      <3>2. \A r : BalanceAfter(r, n)' = BalanceAfter(r, n)
        BY <2>2 DEF BalanceAfter
      <3>3. {BalanceAfter(r, n)' : r \in AffectedRows(e.movement)} =
               {BalanceAfter(r, n) : r \in AffectedRows(e.movement)}
        BY <3>2
      <3> QED
        BY <2>1, <2>2, <3>1, <3>3 DEF BalanceAfter
    <2>3. ASSUME NEW m \in MovementCreate, movements' = Append(movements, m) PROVE Right(e)'
      <3>1. movements \in Seq(MovementCreate)
        BY DEF IndInv, TypeOK
      <3>2. PICK n \in DOMAIN movements : n = e.position
        BY <2>1
      <3>3. /\ n \in DOMAIN movements' /\ movements'[n] = movements[n]
            /\ \A r \in Rows : BalanceAfter(r, n)' = BalanceAfter(r, n)
        BY <2>3, <3>1, EarlierKept
      <3>4. {BalanceAfter(r, n)' : r \in AffectedRows(e.movement)} =
               {BalanceAfter(r, n) : r \in AffectedRows(e.movement)}
        BY <3>3 DEF AffectedRows
      <3>5. Right(e)' <=>
               /\ n \in DOMAIN movements' /\ movements'[n] = e.movement
               /\ e.movement.type # "TRANSFER" =>
                     e.resulting = {BalanceAfter(r, n)' : r \in AffectedRows(e.movement)}
        BY <3>2 DEF BalanceAfter
      <3> QED
        BY <2>1, <3>2, <3>3, <3>4, <3>5
    <2> QED
      BY <2>2, <2>3, StepAppends
  <1>3. CASE events' = events
    BY <1>2, <1>3 DEF EventsReportCommits
  <1>4. ASSUME NEW w \in Workers, Publish(w) PROVE EventsReportCommits'
    <2> DEFINE e == MovementEvent(w)
    <2>1. /\ own[w] \in DOMAIN movements /\ movements[own[w]] = req[w]
          /\ \A r \in AffectedRows(req[w]) : work[w][r] = BalanceAfter(r, own[w])
      BY <1>4 DEF EventInv, Informed, Publish
    <2>2. /\ e.position = own[w] /\ e.movement = req[w]
          /\ e.movement.type # "TRANSFER" =>
                e.resulting = {work[w][r] : r \in AffectedRows(req[w])}
      BY DEF MovementEvent
    <2>3. {work[w][r] : r \in AffectedRows(req[w])} =
             {BalanceAfter(r, own[w]) : r \in AffectedRows(req[w])}
      BY <2>1
    <2>4. events' = events \cup {e} /\ movements' = movements
      BY <1>4 DEF Publish, dbVars
    <2>5. PICK x : x = e
      OBVIOUS
    <2>6. Right(x)
      BY <2>1, <2>2, <2>3, <2>5
    <2>7. Right(x)'
      BY <2>4, <2>6 DEF BalanceAfter
    <2> QED
      BY <1>2, <2>4, <2>5, <2>7 DEF EventsReportCommits
  <1>5. events' = events \/ \E w \in Workers : Publish(w)
    BY DEF Next, Full, vars, Step, Receive, CheckProduct, CheckWarehouse, LockRow, RowMissing,
           InsertRow, ApplyLeg, Commit, EvaluateAffected, Crash, Fail, Hold
  <1> QED
    BY <1>3, <1>4, <1>5

\* Events report committed movements with the stock right after them, whatever
\* other handlers commit between a handler's commit and its event.
THEOREM EventsAreTrue == Spec => []EventsReportCommits
  <1>1. Init => EventInv
    BY DEF Init, EventInv, EventsReportCommits, Informed
  <1>2. IndInv /\ StockMatchesHistory /\ EventInv /\ [Next]_vars => EventInv'
    BY StepEvents, StepInformed DEF EventInv
  <1>3. EventInv => EventsReportCommits
    BY DEF EventInv
  <1> QED
    BY <1>1, <1>2, <1>3, Inductive, StockIsHistory, PTL DEF Spec
=============================================================================
