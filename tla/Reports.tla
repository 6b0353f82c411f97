------------------------------ MODULE Reports ------------------------------
(***************************************************************************)
(* The aggregate reports (app/services/report.py): one SELECT each, which  *)
(* joins every warehouse with its inventory records by an OUTER JOIN and   *)
(* aggregates with SQL's rules for NULL.  A stock maps the (product,       *)
(* warehouse) pairs that have a record to its quantity and threshold.      *)
(***************************************************************************)
EXTENDS Integers, FiniteSets, Sums

CONSTANTS
    Products, Warehouses,
    Price,              \* Product.price
    DefaultThreshold,   \* low_stock_alert_threshold_default
    Null                \* SQL's NULL

Kinds == {"inventory_summary", "valuation"}
Pairs == Products \X Warehouses
Records == [quantity : Nat, threshold : Nat \cup {Null}]

\* The rows that differ, and whether one movement is what changed them: it writes
\* one row or moves stock between two of its product, and sets no threshold.
Changed(before, after) ==
    {pw \in DOMAIN after : pw \notin DOMAIN before \/ after[pw] # before[pw]}

MovementBetween(before, after) ==
    LET rows == Changed(before, after)
        known == DOMAIN before
        was(pw) == IF pw \in known THEN before[pw] ELSE [quantity |-> 0, threshold |-> Null]
    IN  /\ known \subseteq DOMAIN after
        /\ Cardinality({pw[1] : pw \in rows}) = 1
        /\ \A pw \in rows : after[pw].threshold = was(pw).threshold
        /\ \/ Cardinality(rows) = 1
           \/ /\ Cardinality(rows) = 2
              /\ SumOver([pw \in rows |-> after[pw].quantity - was(pw).quantity], rows) = 0

ASSUME ReportsAssumption ==
    /\ IsFiniteSet(Products) /\ IsFiniteSet(Warehouses)
    /\ Price \in [Products -> Nat] /\ DefaultThreshold \in Nat /\ Null \notin Nat \cup Pairs

-----------------------------------------------------------------------------
(* SQL. *)

\* COUNT and SUM of a column, which has a value for each row, skip NULL, and a SUM
\* of nothing is NULL.
Valued(column) == {r \in DOMAIN column : column[r] # Null}
Count(column) == Cardinality(Valued(column))
Sum(column) == IF Valued(column) = {} THEN Null ELSE SumOver(column, Valued(column))
Coalesce(x, default) == IF x = Null THEN default ELSE x
CaseWhen(test) == IF test THEN 1 ELSE Null

\* warehouse LEFT OUTER JOIN inventory: NULL stands for the row of a warehouse
\* without records.
Joined(stock, w) ==
    LET matches == {pw \in DOMAIN stock : pw[2] = w}
    IN  IF matches = {} THEN {Null} ELSE matches

-----------------------------------------------------------------------------
(* ReportService. *)

\* Mutant: without the default, as list_low_stock has it.
LowLimitOwn(stock, r) == IF stock[r].threshold = Null THEN -1 ELSE stock[r].threshold

\* The threshold of a record, or the global default.
LowLimit(stock, r) == Coalesce(stock[r].threshold, DefaultThreshold)

\* generate_inventory_summary: the figures of one warehouse.
WarehouseStockSummary(stock, w) ==
    LET rows == Joined(stock, w)
        quantity == [r \in rows |-> IF r = Null THEN Null ELSE stock[r].quantity]
        low == [r \in rows |-> CaseWhen(r # Null /\ quantity[r] <= LowLimit(stock, r))]
        out == [r \in rows |-> CaseWhen(r # Null /\ quantity[r] = 0)]
    IN  [distinct_products |-> Count([r \in rows |-> r]),
         total_quantity |-> Coalesce(Sum(quantity), 0),
         low_stock_count |-> Count(low),
         out_of_stock_count |-> Count(out)]

InventorySummary(stock) ==
    LET by == [w \in Warehouses |-> WarehouseStockSummary(stock, w)]
        total(f) == SumOver([w \in Warehouses |-> by[w][f]], Warehouses)
    IN  [by_warehouse |-> by,
         total_stock_quantity |-> total("total_quantity"),
         low_stock_count |-> total("low_stock_count"),
         out_of_stock_count |-> total("out_of_stock_count")]

\* generate_valuation_report: quantity times price.
WarehouseValuation(stock, w) ==
    Coalesce(Sum([r \in Joined(stock, w) |->
                     IF r = Null THEN Null ELSE stock[r].quantity * Price[r[1]]]), 0)

Valuation(stock) ==
    LET by == [w \in Warehouses |-> WarehouseValuation(stock, w)]
    IN  [by_warehouse |-> by, total_value |-> SumOver(by, Warehouses)]

\* The schemas of the reports.
StockSummary == [distinct_products : Nat, total_quantity : Nat,
                 low_stock_count : Nat, out_of_stock_count : Nat]
Report(kind) ==
    IF kind = "valuation"
    THEN [by_warehouse : [Warehouses -> Nat], total_value : Nat]
    ELSE [by_warehouse : [Warehouses -> StockSummary], total_stock_quantity : Nat,
          low_stock_count : Nat, out_of_stock_count : Nat]

Figures(kind, stock) ==
    IF kind = "valuation" THEN Valuation(stock) ELSE InventorySummary(stock)

-----------------------------------------------------------------------------
(* What the figures mean, without the join. *)

\* The rule by which AlertService raises an alert for a record.
IsLow(stock, pw) ==
    stock[pw].quantity <= (IF stock[pw].threshold = Null THEN DefaultThreshold
                           ELSE stock[pw].threshold)

Total(stock, pairs) == SumOver([pw \in pairs |-> stock[pw].quantity], pairs)

MeansSummary(figures, stock) ==
    LET in(w) == DOMAIN stock \cap (Products \X {w})
    IN  /\ figures.total_stock_quantity = Total(stock, DOMAIN stock)
        /\ figures.low_stock_count = Cardinality({pw \in DOMAIN stock : IsLow(stock, pw)})
        /\ figures.out_of_stock_count =
               Cardinality({pw \in DOMAIN stock : stock[pw].quantity = 0})
        /\ \A w \in Warehouses :
               LET f == figures.by_warehouse[w]
               IN  /\ f.distinct_products = Cardinality(in(w))
                   /\ f.total_quantity = Total(stock, in(w))
                   /\ f.low_stock_count = Cardinality({pw \in in(w) : IsLow(stock, pw)})
                   /\ f.out_of_stock_count =
                          Cardinality({pw \in in(w) : stock[pw].quantity = 0})

MeansValuation(figures, stock) ==
    LET worth(pairs) ==
            SumOver([pw \in pairs |-> stock[pw].quantity * Price[pw[1]]], pairs)
    IN  /\ figures.total_value = worth(DOMAIN stock)
        /\ \A w \in Warehouses :
               figures.by_warehouse[w] = worth(DOMAIN stock \cap (Products \X {w}))

\* The figures of a report of this kind of this stock.
Means(kind, figures, stock) ==
    IF kind = "valuation"
    THEN "total_value" \in DOMAIN figures /\ MeansValuation(figures, stock)
    ELSE "total_stock_quantity" \in DOMAIN figures /\ MeansSummary(figures, stock)
=============================================================================
