-------------------------- MODULE MovementHistory --------------------------
(***************************************************************************)
(* GET /movements (app/api/v1/endpoints/movements.py): a client reads the  *)
(* audit history page by page, by OFFSET and LIMIT, each page in a query   *)
(* of its own, while movements commit.  A movement is the place of its     *)
(* commit in history; its created_at is the start of its transaction, so   *)
(* the rows are not listed in the order in which they became visible.      *)
(***************************************************************************)
EXTENDS Reports, Sequences, SequencesExt

CONSTANTS
    Readers,        \* clients that read the history
    PageSize        \* the limit they ask for

VARIABLES
    history,        \* the committed stocks, each by a movement but the first
    began,          \* created_at of the movements, in the order of their commits
    reading,        \* what each client has read of the listing it asked for
    left            \* listings there may still be

\* product_id and warehouse_id, each of them optional.
Filters == [product : Products \cup {Null}, warehouse : Warehouses \cup {Null}]
Everything == [product |-> Null, warehouse |-> Null]

Movements == 2 .. Len(history)
Moved(i) == Changed(history[i - 1].stock, history[i].stock)

Init == reading = [c \in Readers |-> [phase |-> "idle", by |-> Null, rows |-> <<>>, since |-> 0]]

-----------------------------------------------------------------------------
\* The WHERE of list_by_product, which takes precedence, of list_by_warehouse or
\* of neither.
Matches(by, i) ==
    /\ by.product # Null => \E pw \in Moved(i) : pw[1] = by.product
    /\ by.product = Null /\ by.warehouse # Null => \E pw \in Moved(i) : pw[2] = by.warehouse

\* ORDER BY created_at DESC, which the listing without a filter does not have.
Listed(by) ==
    {rows \in SetToSeqs({i \in Movements : Matches(by, i)}) :
        by = Everything \/
        \A p, q \in DOMAIN rows : p < q => began[rows[p] - 1] >= began[rows[q] - 1]}

\* Mutant: the page is cut from the whole table and filtered afterwards.
PageFiltered(by, skip) ==
    {SelectSeq(SubSeq(rows, skip + 1, Min({Len(rows), skip + PageSize})),
               LAMBDA i : Matches(by, i)) :
     rows \in Listed(Everything)}

\* OFFSET and LIMIT.
Page(by, skip) ==
    {SubSeq(rows, skip + 1, Min({Len(rows), skip + PageSize})) : rows \in Listed(by)}

Ask(c, by) ==
    /\ reading[c].phase # "paging" /\ left.lists > 0
    /\ reading' = [reading EXCEPT ![c] = [phase |-> "paging", by |-> by, rows |-> <<>>,
                                          since |-> Len(history)]]
    /\ left' = [left EXCEPT !.lists = @ - 1]
    /\ UNCHANGED <<history, began>>

\* The client asks for pages until one is short.
NextPage(c) ==
    /\ reading[c].phase = "paging"
    /\ \E page \in Page(reading[c].by, Len(reading[c].rows)) :
          reading' = [reading EXCEPT
              ![c].rows = @ \o page,
              ![c].phase = IF Len(page) < PageSize THEN "read" ELSE "paging"]
    /\ UNCHANGED <<history, began, left>>

Next ==
    \E c \in Readers :
        \/ \E by \in Filters : Ask(c, by)
        \/ NextPage(c)

-----------------------------------------------------------------------------
(* Properties. *)

\* A client that has read a filtered listing to its end has seen every matching
\* movement committed before it began, although rows commit in another order
\* than created_at's and push others down; and it got no more rows twice than
\* movements have committed meanwhile.
HistoryComplete ==
    \A c \in Readers :
        LET got == Range(reading[c].rows)
            by == reading[c].by
        IN  reading[c].phase # "idle" /\ by # Everything =>
            /\ Len(reading[c].rows) - Cardinality(got) <= Len(history) - reading[c].since
            /\ reading[c].phase = "read" =>
                  {i \in Movements : i <= reading[c].since /\ Matches(by, i)} \subseteq got
=============================================================================
