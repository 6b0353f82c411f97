----------------------------- MODULE Movements -----------------------------
(***************************************************************************)
(* The data of a stock movement: the payload a client sends, the rules the *)
(* schema validates it with (app/schemas/movement.py), and the effect a    *)
(* movement has on the stock of one (product, warehouse) pair.  The module *)
(* has no state; the ledger and the command service are built on it.       *)
(***************************************************************************)
EXTENDS Integers

CONSTANTS
    ProductIds,     \* product ids a payload may name
    WarehouseIds,   \* warehouse ids a payload may name
    Products,       \* the products that exist in the database
    Warehouses,     \* the warehouses that exist in the database
    NoWarehouse,    \* a warehouse field that was left out (None)
    Amounts,        \* the quantities a client may send
    MaxInt          \* largest value of the Integer column inventory.quantity

\* Warehouse ids are naturals: their order stands for the order of str(UUID).
ASSUME WarehouseIdsAssumption == WarehouseIds \subseteq Nat
ASSUME NoWarehouseAssumption == NoWarehouse \notin WarehouseIds
ASSUME KnownAssumption == Products \subseteq ProductIds /\ Warehouses \subseteq WarehouseIds
ASSUME AmountsAssumption == Amounts \subseteq Int
ASSUME MaxIntAssumption == MaxInt \in Nat

-----------------------------------------------------------------------------

MovementType == {"IN", "OUT", "TRANSFER"}

\* A payload as FastAPI parses it, before the validators ran.
Payload == [type : MovementType, product : ProductIds, quantity : Amounts,
            source : WarehouseIds \cup {NoWarehouse},
            destination : WarehouseIds \cup {NoWarehouse}]

\* Field(gt=0) and the model validator: which warehouse fields each type takes.
ValidMovement(m) ==
    /\ m.quantity > 0
    /\ m.type = "IN" => m.source = NoWarehouse /\ m.destination # NoWarehouse
    /\ m.type = "OUT" => m.source # NoWarehouse /\ m.destination = NoWarehouse
    /\ m.type = "TRANSFER" => /\ m.source # NoWarehouse
                              /\ m.destination # NoWarehouse
                              /\ m.source # m.destination

MovementCreate == {m \in Payload : ValidMovement(m)}

\* The keys the unique constraint of the inventory table allows one row each.
Rows == Products \X Warehouses

Stock == 0 .. MaxInt

\* The rows a movement writes: source and destination, whichever it has.
AffectedRows(m) == {r \in Rows : r[1] = m.product /\ r[2] \in {m.source, m.destination}}

\* What a movement adds to the stock of row r.
Effect(m, r) ==
    IF r[1] # m.product THEN 0
    ELSE IF r[2] = m.destination THEN m.quantity
    ELSE IF r[2] = m.source THEN -m.quantity
    ELSE 0
=============================================================================
