--------------------------- MODULE ReportsProofs ---------------------------
(***************************************************************************)
(* The figures of a report, computed by joining and aggregating as SQL     *)
(* does, are what they mean, for any products, warehouses and stock.       *)
(***************************************************************************)
EXTENDS Reports, SumTheorems

\* A stock as the inventory table can hold it.
IsStock(stock) == DOMAIN stock \subseteq Pairs /\ \A pw \in DOMAIN stock : stock[pw] \in Records

\* The records of a warehouse.
In(stock, w) == DOMAIN stock \cap (Products \X {w})

-----------------------------------------------------------------------------
(* The join and the aggregates. *)

LEMMA StockTyped ==
    ASSUME ReportsAssumption, NEW stock, IsStock(stock)
    PROVE  /\ IsFiniteSet(DOMAIN stock) /\ IsFiniteSet(Warehouses)
           /\ \A pw \in DOMAIN stock :
                 /\ pw \in Pairs /\ pw # Null /\ pw[1] \in Products /\ pw[2] \in Warehouses
                 /\ stock[pw].quantity \in Nat /\ Price[pw[1]] \in Nat
           /\ \A w : /\ In(stock, w) = {pw \in DOMAIN stock : pw[2] = w}
                     /\ IsFiniteSet(In(stock, w)) /\ In(stock, w) \subseteq DOMAIN stock
  <1>1. IsFiniteSet(Pairs)
    BY FS_Product DEF ReportsAssumption, Pairs
  <1>2. IsFiniteSet(DOMAIN stock)
    BY <1>1, FS_Subset DEF IsStock
  <1>3. ASSUME NEW pw \in DOMAIN stock
        PROVE  /\ pw \in Pairs /\ pw # Null /\ pw[1] \in Products /\ pw[2] \in Warehouses
               /\ stock[pw].quantity \in Nat /\ Price[pw[1]] \in Nat
    BY DEF IsStock, Pairs, Records, ReportsAssumption
  <1>4. ASSUME NEW w
        PROVE  /\ In(stock, w) = {pw \in DOMAIN stock : pw[2] = w}
               /\ IsFiniteSet(In(stock, w)) /\ In(stock, w) \subseteq DOMAIN stock
    <2>1. In(stock, w) = {pw \in DOMAIN stock : pw[2] = w}
      BY DEF In, IsStock, Pairs
    <2> QED BY <1>2, <2>1, FS_Subset
  <1> QED BY <1>2, <1>3, <1>4 DEF ReportsAssumption

\* The outer join has the records of the warehouse, or NULL.
LEMMA JoinedRows ==
    ASSUME ReportsAssumption, NEW stock, IsStock(stock), NEW w
    PROVE  Joined(stock, w) = IF In(stock, w) = {} THEN {Null} ELSE In(stock, w)
  <1>1. In(stock, w) = {pw \in DOMAIN stock : pw[2] = w}
    BY StockTyped
  <1> QED BY <1>1 DEF Joined

\* COUNT counts the records of which the column has a value.
LEMMA CountMeans ==
    ASSUME ReportsAssumption, NEW stock, IsStock(stock), NEW w,
           NEW column, DOMAIN column = Joined(stock, w),
           NEW R \in SUBSET In(stock, w),
           \A r \in DOMAIN column : column[r] # Null <=> r \in R
    PROVE  Count(column) = Cardinality(R) /\ Count(column) \in Nat
  <1>1. Valued(column) = R
    <2>1. R \subseteq DOMAIN column
      BY JoinedRows
    <2> QED BY <2>1 DEF Valued
  <1>2. IsFiniteSet(R)
    BY StockTyped, FS_Subset
  <1> QED BY <1>1, <1>2, FS_CardinalityType DEF Count

\* SUM, or 0, is the sum over the records of the warehouse.
LEMMA SumMeans ==
    ASSUME ReportsAssumption, NEW stock, IsStock(stock), NEW w,
           NEW column, DOMAIN column = Joined(stock, w),
           NEW f, \A pw \in DOMAIN stock : f[pw] \in Nat,
           \A r \in DOMAIN column : column[r] = IF r = Null THEN Null ELSE f[r]
    PROVE  /\ Coalesce(Sum(column), 0) = SumOver(f, In(stock, w))
           /\ Coalesce(Sum(column), 0) \in Nat
  <1> DEFINE R == In(stock, w)
  <1>1. IsFiniteSet(R) /\ \A r \in R : r # Null /\ f[r] \in Nat /\ f[r] # Null
    BY StockTyped DEF ReportsAssumption
  <1>2. Valued(column) = R
    BY <1>1, JoinedRows DEF Valued
  <1>3. SumOver(f, R) \in Nat
    <2> HIDE DEF R
    <2> QED BY <1>1, SumType
  <1>4. SumOver(f, R) # Null
    BY <1>3 DEF ReportsAssumption
  <1>5. CASE R = {}
    <2>1. SumOver(f, R) = 0
      BY <1>1, <1>5, SumUnfolds
    <2> QED BY <1>2, <1>5, <2>1 DEF Sum, Coalesce
  <1>6. CASE R # {}
    <2>1. \A r \in R : column[r] = f[r]
      BY <1>1, <1>6, JoinedRows
    <2>2. SumOver(column, R) = SumOver(f, R)
      <3> HIDE DEF R
      <3> QED BY <1>1, <2>1, SumSame
    <2> QED BY <1>2, <1>3, <1>4, <1>6, <2>2 DEF Sum, Coalesce
  <1> QED BY <1>5, <1>6

\* The totals of the warehouses add up.
Place == [pw \in Pairs |-> pw[2]]

LEMMA Places ==
    ASSUME ReportsAssumption, NEW stock, IsStock(stock), NEW R \in SUBSET DOMAIN stock
    PROVE  /\ IsFiniteSet(R) /\ \A pw \in R : Place[pw] \in Warehouses
           /\ \A w : Part(Place, w, R) = In(stock, w) \cap R
  <1>1. \A pw \in R : pw \in DOMAIN stock /\ Place[pw] = pw[2] /\ pw[2] \in Warehouses
    BY StockTyped DEF Place
  <1>2. \A w : Part(Place, w, R) = In(stock, w) \cap R
    BY <1>1, StockTyped DEF Part
  <1> QED BY <1>1, <1>2, StockTyped, FS_Subset

LEMMA TotalOfSums ==
    ASSUME ReportsAssumption, NEW stock, IsStock(stock),
           NEW f, \A pw \in DOMAIN stock : f[pw] \in Nat,
           NEW by, \A w \in Warehouses : by[w] = SumOver(f, In(stock, w))
    PROVE  SumOver(by, Warehouses) = SumOver(f, DOMAIN stock)
           /\ SumOver(f, DOMAIN stock) \in Nat
  <1> DEFINE D == DOMAIN stock
             g == [w \in Warehouses |-> SumOver(f, Part(Place, w, D))]
  <1>1. ASSUME NEW w PROVE Part(Place, w, D) = In(stock, w)
    <2>1. Part(Place, w, D) = In(stock, w) \cap D
      BY Places
    <2>2. In(stock, w) \subseteq D
      BY StockTyped
    <2> QED BY <2>1, <2>2
  <1>2. IsFiniteSet(D) /\ IsFiniteSet(Warehouses) /\ \A pw \in D : Place[pw] \in Warehouses
    BY Places, StockTyped
  <1>3. SumOver(g, Warehouses) = SumOver(f, D)
    <2>1. \A pw \in D : f[pw] \in Int
      OBVIOUS
    <2> HIDE DEF D
    <2> QED BY <1>2, <2>1, SumOfParts
  <1>4. \A w \in Warehouses : g[w] = by[w]
    BY <1>1
  <1>5. SumOver(g, Warehouses) = SumOver(by, Warehouses)
    <2> HIDE DEF g
    <2> QED BY <1>2, <1>4, SumSame
  <1>6. SumOver(f, D) \in Nat
    BY <1>2, SumType
  <1> QED BY <1>3, <1>5, <1>6

LEMMA TotalOfCounts ==
    ASSUME ReportsAssumption, NEW stock, IsStock(stock), NEW R \in SUBSET DOMAIN stock,
           NEW by,
           \A w \in Warehouses : by[w] = Cardinality(In(stock, w) \cap R)
    PROVE  SumOver(by, Warehouses) = Cardinality(R) /\ Cardinality(R) \in Nat
  <1> DEFINE g == [w \in Warehouses |-> Cardinality(Part(Place, w, R))]
  <1>1. IsFiniteSet(R) /\ IsFiniteSet(Warehouses) /\ \A pw \in R : Place[pw] \in Warehouses
    BY Places, StockTyped
  <1>2. SumOver(g, Warehouses) = Cardinality(R)
    BY <1>1, CardOfParts
  <1>3. ASSUME NEW w \in Warehouses PROVE g[w] = by[w]
    <2>1. PICK P : P = Part(Place, w, R)
      OBVIOUS
    <2>2. P = In(stock, w) \cap R
      BY <2>1, Places
    <2>3. by[w] = Cardinality(P)
      BY <2>2
    <2> QED BY <2>1, <2>3
  <1>4. SumOver(g, Warehouses) = SumOver(by, Warehouses)
    <2> HIDE DEF g
    <2> QED BY <1>1, <1>3, SumSame
  <1> QED BY <1>1, <1>2, <1>4, FS_CardinalityType

-----------------------------------------------------------------------------
(* The reports. *)

Quantity(stock) == [pw \in DOMAIN stock |-> stock[pw].quantity]
Worth(stock) == [pw \in DOMAIN stock |-> stock[pw].quantity * Price[pw[1]]]

Low(stock) == {pw \in DOMAIN stock : IsLow(stock, pw)}
Out(stock) == {pw \in DOMAIN stock : stock[pw].quantity = 0}

LEMMA ColumnsTyped ==
    ASSUME ReportsAssumption, NEW stock, IsStock(stock)
    PROVE  \A pw \in DOMAIN stock : Quantity(stock)[pw] \in Nat /\ Worth(stock)[pw] \in Nat
  <1>1. ASSUME NEW pw \in DOMAIN stock PROVE Quantity(stock)[pw] \in Nat /\ Worth(stock)[pw] \in Nat
    <2>1. PICK q \in Nat, c \in Nat : q = stock[pw].quantity /\ c = Price[pw[1]]
      BY StockTyped
    <2>2. q * c \in Nat
      OBVIOUS
    <2> QED BY <2>1, <2>2 DEF Quantity, Worth
  <1> QED BY <1>1

\* The threshold that the report compares with is the one the alerts have.
LEMMA LowMeans ==
    ASSUME NEW stock, NEW pw
    PROVE  stock[pw].quantity <= LowLimit(stock, pw) <=> IsLow(stock, pw)
  BY DEF LowLimit, Coalesce, IsLow

\* The row of a warehouse in the inventory summary.
LEMMA SummaryRow ==
    ASSUME ReportsAssumption, NEW stock, IsStock(stock), NEW w, NEW f,
           f = WarehouseStockSummary(stock, w)
    PROVE  /\ f \in StockSummary
           /\ f.distinct_products = Cardinality(In(stock, w))
           /\ f.total_quantity = SumOver(Quantity(stock), In(stock, w))
           /\ f.low_stock_count = Cardinality(In(stock, w) \cap Low(stock))
           /\ f.out_of_stock_count = Cardinality(In(stock, w) \cap Out(stock))
  <1> DEFINE rows == Joined(stock, w)
             quantity == [r \in rows |-> IF r = Null THEN Null ELSE stock[r].quantity]
             low == [r \in rows |-> CaseWhen(r # Null /\ quantity[r] <= LowLimit(stock, r))]
             out == [r \in rows |-> CaseWhen(r # Null /\ quantity[r] = 0)]
             own == [r \in rows |-> r]
             LowIn == In(stock, w) \cap Low(stock)
             OutIn == In(stock, w) \cap Out(stock)
  <1>1. \A r \in rows : /\ r = Null <=> r \notin In(stock, w)
                        /\ r # Null => r \in DOMAIN stock /\ quantity[r] = stock[r].quantity
    BY JoinedRows, StockTyped
  <1>2. 1 # Null
    BY DEF ReportsAssumption
  <1>3. Count(own) = Cardinality(In(stock, w)) /\ Count(own) \in Nat
    <2>1. DOMAIN own = rows /\ \A r \in DOMAIN own : own[r] # Null <=> r \in In(stock, w)
      BY <1>1
    <2> HIDE DEF own
    <2> QED BY <2>1, CountMeans
  <1>4. Count(low) = Cardinality(LowIn) /\ Count(low) \in Nat
    <2>1. DOMAIN low = rows /\ \A r \in DOMAIN low : low[r] # Null <=> r \in LowIn
      BY <1>1, <1>2, LowMeans DEF CaseWhen, Low
    <2>2. LowIn \in SUBSET In(stock, w)
      OBVIOUS
    <2> HIDE DEF low, LowIn
    <2> QED BY <2>1, <2>2, CountMeans
  <1>5. Count(out) = Cardinality(OutIn) /\ Count(out) \in Nat
    <2>1. DOMAIN out = rows /\ \A r \in DOMAIN out : out[r] # Null <=> r \in OutIn
      BY <1>1, <1>2 DEF CaseWhen, Out
    <2>2. OutIn \in SUBSET In(stock, w)
      OBVIOUS
    <2> HIDE DEF out, OutIn
    <2> QED BY <2>1, <2>2, CountMeans
  <1>6. Coalesce(Sum(quantity), 0) = SumOver(Quantity(stock), In(stock, w))
        /\ Coalesce(Sum(quantity), 0) \in Nat
    <2>1. /\ DOMAIN quantity = rows /\ \A pw \in DOMAIN stock : Quantity(stock)[pw] \in Nat
          /\ \A r \in DOMAIN quantity :
                quantity[r] = IF r = Null THEN Null ELSE Quantity(stock)[r]
      BY <1>1, ColumnsTyped DEF Quantity
    <2> HIDE DEF quantity
    <2> QED BY <2>1, SumMeans
  <1>7. f = [distinct_products |-> Count(own), total_quantity |-> Coalesce(Sum(quantity), 0),
             low_stock_count |-> Count(low), out_of_stock_count |-> Count(out)]
    BY DEF WarehouseStockSummary
  <1> HIDE DEF own, quantity, low, out
  <1> QED BY <1>3, <1>4, <1>5, <1>6, <1>7 DEF StockSummary

\* The row of a warehouse in the valuation.
LEMMA ValuationRow ==
    ASSUME ReportsAssumption, NEW stock, IsStock(stock), NEW w
    PROVE  /\ WarehouseValuation(stock, w) = SumOver(Worth(stock), In(stock, w))
           /\ WarehouseValuation(stock, w) \in Nat
  <1> DEFINE column == [r \in Joined(stock, w) |->
                           IF r = Null THEN Null ELSE stock[r].quantity * Price[r[1]]]
  <1>1. /\ DOMAIN column = Joined(stock, w)
        /\ \A pw \in DOMAIN stock : Worth(stock)[pw] \in Nat
        /\ \A r \in DOMAIN column : column[r] = IF r = Null THEN Null ELSE Worth(stock)[r]
    BY ColumnsTyped, JoinedRows, StockTyped DEF Worth
  <1>2. WarehouseValuation(stock, w) = Coalesce(Sum(column), 0)
    BY DEF WarehouseValuation
  <1> HIDE DEF column
  <1> QED BY <1>1, <1>2, SumMeans

\* A sum of a column over some records.
LEMMA TotalIs ==
    ASSUME ReportsAssumption, NEW stock, IsStock(stock), NEW R \in SUBSET DOMAIN stock
    PROVE  /\ Total(stock, R) = SumOver(Quantity(stock), R)
           /\ SumOver([pw \in R |-> stock[pw].quantity * Price[pw[1]]], R)
                 = SumOver(Worth(stock), R)
  <1> DEFINE q == [pw \in R |-> stock[pw].quantity]
             v == [pw \in R |-> stock[pw].quantity * Price[pw[1]]]
  <1>1. IsFiniteSet(R)
    BY StockTyped, FS_Subset
  <1>2. \A pw \in R : q[pw] = Quantity(stock)[pw] /\ v[pw] = Worth(stock)[pw]
    BY DEF Quantity, Worth
  <1>3. SumOver(q, R) = SumOver(Quantity(stock), R) /\ SumOver(v, R) = SumOver(Worth(stock), R)
    <2> HIDE DEF q, v
    <2> QED BY <1>1, <1>2, SumSame
  <1> QED BY <1>3 DEF Total

\* The valuation is what it means.
LEMMA ValuationMeans ==
    ASSUME ReportsAssumption, NEW stock, IsStock(stock)
    PROVE  /\ Valuation(stock) \in Report("valuation")
           /\ MeansValuation(Valuation(stock), stock)
  <1> DEFINE by == [w \in Warehouses |-> WarehouseValuation(stock, w)]
             total == SumOver(by, Warehouses)
  <1>1. \A w \in Warehouses : by[w] \in Nat /\ by[w] = SumOver(Worth(stock), In(stock, w))
    BY ValuationRow
  <1>2. total = SumOver(Worth(stock), DOMAIN stock) /\ total \in Nat
    <2> HIDE DEF by
    <2> QED BY <1>1, ColumnsTyped, TotalOfSums
  <1>3. Valuation(stock) = [by_warehouse |-> by, total_value |-> total]
    BY DEF Valuation
  <1>4. by \in [Warehouses -> Nat]
    BY <1>1
  <1>5. Valuation(stock).total_value
           = SumOver([pw \in DOMAIN stock |-> stock[pw].quantity * Price[pw[1]]], DOMAIN stock)
    BY <1>2, <1>3, TotalIs
  <1>6. ASSUME NEW w \in Warehouses
        PROVE  Valuation(stock).by_warehouse[w]
                  = SumOver([pw \in In(stock, w) |-> stock[pw].quantity * Price[pw[1]]],
                            In(stock, w))
    <2>1. In(stock, w) \in SUBSET DOMAIN stock
      BY StockTyped
    <2> QED BY <1>1, <1>3, <2>1, TotalIs
  <1>7. Valuation(stock) \in Report("valuation")
    <2> HIDE DEF by, total
    <2> QED BY <1>2, <1>3, <1>4 DEF Report
  <1>8. MeansValuation(Valuation(stock), stock)
    BY <1>5, <1>6 DEF MeansValuation, In
  <1> QED BY <1>7, <1>8

\* The inventory summary is what it means.
LEMMA SummaryMeans ==
    ASSUME ReportsAssumption, NEW stock, IsStock(stock)
    PROVE  /\ InventorySummary(stock) \in Report("inventory_summary")
           /\ MeansSummary(InventorySummary(stock), stock)
  <1> DEFINE by == [w \in Warehouses |-> WarehouseStockSummary(stock, w)]
             quantity == [w \in Warehouses |-> by[w]["total_quantity"]]
             low == [w \in Warehouses |-> by[w]["low_stock_count"]]
             out == [w \in Warehouses |-> by[w]["out_of_stock_count"]]
  <1>1. ASSUME NEW w \in Warehouses
        PROVE  /\ by[w] \in StockSummary
               /\ by[w].distinct_products = Cardinality(In(stock, w))
               /\ by[w].total_quantity = SumOver(Quantity(stock), In(stock, w))
               /\ by[w].low_stock_count = Cardinality(In(stock, w) \cap Low(stock))
               /\ by[w].out_of_stock_count = Cardinality(In(stock, w) \cap Out(stock))
    BY SummaryRow
  <1>2. SumOver(quantity, Warehouses) = SumOver(Quantity(stock), DOMAIN stock)
        /\ SumOver(quantity, Warehouses) \in Nat
    <2>1. \A w \in Warehouses : quantity[w] = SumOver(Quantity(stock), In(stock, w))
      BY <1>1
    <2> HIDE DEF quantity
    <2> QED BY <2>1, ColumnsTyped, TotalOfSums
  <1>3. SumOver(low, Warehouses) = Cardinality(Low(stock)) /\ SumOver(low, Warehouses) \in Nat
    <2>1. PICK R \in SUBSET DOMAIN stock : R = Low(stock)
      BY DEF Low
    <2>2. \A w \in Warehouses : low[w] = Cardinality(In(stock, w) \cap R)
      BY <1>1, <2>1
    <2>3. SumOver(low, Warehouses) = Cardinality(R) /\ Cardinality(R) \in Nat
      <3> HIDE DEF low
      <3> QED BY <2>2, TotalOfCounts
    <2> QED BY <2>1, <2>3
  <1>4. SumOver(out, Warehouses) = Cardinality(Out(stock)) /\ SumOver(out, Warehouses) \in Nat
    <2>1. PICK R \in SUBSET DOMAIN stock : R = Out(stock)
      BY DEF Out
    <2>2. \A w \in Warehouses : out[w] = Cardinality(In(stock, w) \cap R)
      BY <1>1, <2>1
    <2>3. SumOver(out, Warehouses) = Cardinality(R) /\ Cardinality(R) \in Nat
      <3> HIDE DEF out
      <3> QED BY <2>2, TotalOfCounts
    <2> QED BY <2>1, <2>3
  <1>5. InventorySummary(stock) =
           [by_warehouse |-> by, total_stock_quantity |-> SumOver(quantity, Warehouses),
            low_stock_count |-> SumOver(low, Warehouses),
            out_of_stock_count |-> SumOver(out, Warehouses)]
    BY DEF InventorySummary
  <1>6. InventorySummary(stock) \in Report("inventory_summary")
    <2>1. by \in [Warehouses -> StockSummary]
      BY <1>1
    <2> HIDE DEF by, quantity, low, out
    <2> QED BY <1>2, <1>3, <1>4, <1>5, <2>1 DEF Report
  <1>7. /\ InventorySummary(stock).total_stock_quantity = Total(stock, DOMAIN stock)
        /\ InventorySummary(stock).low_stock_count = Cardinality(Low(stock))
        /\ InventorySummary(stock).out_of_stock_count = Cardinality(Out(stock))
    <2>1. Total(stock, DOMAIN stock) = SumOver(Quantity(stock), DOMAIN stock)
      BY TotalIs
    <2> HIDE DEF by, quantity, low, out
    <2> QED BY <1>2, <1>3, <1>4, <1>5, <2>1
  <1>8. ASSUME NEW w \in Warehouses, NEW f, f = InventorySummary(stock).by_warehouse[w]
        PROVE  /\ f.distinct_products = Cardinality(In(stock, w))
               /\ f.total_quantity = Total(stock, In(stock, w))
               /\ f.low_stock_count = Cardinality({pw \in In(stock, w) : IsLow(stock, pw)})
               /\ f.out_of_stock_count =
                      Cardinality({pw \in In(stock, w) : stock[pw].quantity = 0})
    <2>1. f = by[w]
      BY <1>5, <1>8
    <2>2. In(stock, w) \in SUBSET DOMAIN stock
      BY StockTyped
    <2>3. /\ In(stock, w) \cap Low(stock) = {pw \in In(stock, w) : IsLow(stock, pw)}
          /\ In(stock, w) \cap Out(stock)
                = {pw \in In(stock, w) : stock[pw].quantity = 0}
      BY <2>2 DEF Low, Out
    <2>4. Total(stock, In(stock, w)) = SumOver(Quantity(stock), In(stock, w))
      BY <2>2, TotalIs
    <2> HIDE DEF by
    <2> QED BY <1>1, <2>1, <2>3, <2>4
  <1> QED BY <1>6, <1>7, <1>8 DEF MeansSummary, In, Low, Out

\* "The same rule AlertService applies": the figures of a report, which one SELECT
\* joins and aggregates with NULLs on the way, are the sums and the counts of the
\* records, in each warehouse and over all, whatever the stock.
THEOREM FiguresMean ==
    ASSUME ReportsAssumption, NEW kind \in Kinds, NEW stock, IsStock(stock)
    PROVE  Figures(kind, stock) \in Report(kind) /\ Means(kind, Figures(kind, stock), stock)
  <1>1. CASE kind = "valuation"
    <2>1. Valuation(stock) \in Report(kind) /\ MeansValuation(Valuation(stock), stock)
      BY <1>1, ValuationMeans
    <2>2. "total_value" \in DOMAIN Valuation(stock)
      BY DEF Valuation
    <2> QED BY <1>1, <2>1, <2>2 DEF Figures, Means
  <1>2. CASE kind = "inventory_summary"
    <2>1. InventorySummary(stock) \in Report(kind) /\ MeansSummary(InventorySummary(stock), stock)
      BY <1>2, SummaryMeans
    <2>2. "total_stock_quantity" \in DOMAIN InventorySummary(stock)
      BY DEF InventorySummary
    <2> QED BY <1>2, <2>1, <2>2 DEF Figures, Means
  <1> QED BY <1>1, <1>2 DEF Kinds
=============================================================================
