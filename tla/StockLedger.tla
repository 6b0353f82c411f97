---------------------------- MODULE StockLedger ----------------------------
(***************************************************************************)
(* What the inventory promises: a ledger.  A movement is recorded and its  *)
(* stock is changed in one indivisible step, a pair's stock never leaves   *)
(* 0 .. MaxInt, and nothing but a movement changes stock.  The command     *)
(* service (InventoryCommand) implements this with transactions and row    *)
(* locks; here there are none.                                             *)
(***************************************************************************)
EXTENDS Movements, Sequences

VARIABLES
    records,    \* the (product, warehouse) pairs that have an inventory row
    quantity,   \* the committed stock of every pair, 0 where there is no row
    movements   \* the movement table, in commit order

ledgerVars == <<records, quantity, movements>>

LedgerInit ==
    /\ records = {}
    /\ quantity = [r \in Rows |-> 0]
    /\ movements = << >>

\* A movement can be recorded when its product and warehouses exist, its
\* source has a row, and both results fit.
Recordable(m) ==
    /\ m.product \in Products
    /\ {m.source, m.destination} \subseteq Warehouses \cup {NoWarehouse}
    /\ m.source # NoWarehouse => <<m.product, m.source>> \in records
    /\ \A r \in AffectedRows(m) : quantity[r] + Effect(m, r) \in Stock

Record(m) ==
    /\ Recordable(m)
    /\ records' = records \cup AffectedRows(m)
    /\ quantity' = [r \in Rows |-> quantity[r] + Effect(m, r)]
    /\ movements' = Append(movements, m)

LedgerNext == \E m \in MovementCreate : Record(m)

LedgerSpec == LedgerInit /\ [][LedgerNext]_ledgerVars
=============================================================================
