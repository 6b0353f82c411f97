---------------------------- MODULE MCBackOffice ----------------------------
(* Instances of BackOffice for TLC. *)
EXTENDS BackOffice, TLC

CONSTANTS a1, c1, k1, k2, r1, r2, p1, p2, w1, w2

Prices == (p1 :> 3) @@ (p2 :> 5)

Row(q, t) == [quantity |-> q, threshold |-> t]

\* Rows under, at and above their own threshold or the default, one that is out
\* of stock, and a warehouse without records.
Few == (<<p1, w1>> :> Row(1, Null)) @@ (<<p2, w1>> :> Row(0, 0))
Received == Few @@ (<<p1, w2>> :> Row(2, Null))
Transferred == (<<p1, w2>> :> Row(1, Null)) @@ [Few EXCEPT ![<<p1, w1>>].quantity = 2]
SmallStocks == {Few, Received, Transferred}

Load(a, x, f) == [alerts |-> a, exports |-> x, faults |-> f, requests |-> 0,
                  commits |-> 0, ticks |-> 0, errors |-> 0, lists |-> 0]
Read(load, r, c, t, e) ==
    [load EXCEPT !.requests = r, !.commits = c, !.ticks = t, !.errors = e]

SmallLoads ==
    {\* one email, with a fault; one alert that escalates; two exports; a bad one
     Load(1, <<>>, 1), Load(2, <<>>, 0),
     Load(0, <<"valuation", "inventory_summary">>, 1), Load(0, <<Unknown>>, 0),
     \* the stock changes under exports, requests, both, and a listing
     Read(Load(0, <<"valuation", "valuation">>, 0), 0, 1, 0, 0),
     Read(Load(0, <<>>, 0), 3, 1, 3, 0), Read(Load(0, <<>>, 0), 2, 1, 1, 1),
     Read(Load(0, <<"valuation">>, 0), 1, 1, 1, 0),
     [Load(0, <<>>, 0) EXCEPT !.commits = 3, !.lists = 2]}
=============================================================================
