------------------------------ MODULE Catalog ------------------------------
(***************************************************************************)
(* WarehouseService and ProductService (app/services/warehouse.py,         *)
(* app/services/product.py): create, update and deactivate, run by         *)
(* concurrent sessions at READ COMMITTED.  The services are the same but   *)
(* for the name of the unique column, `code' of a warehouse and `sku' of a *)
(* product; it is "code" here.                                             *)
(*                                                                         *)
(* A session loads the row, looks the new code up, and sends the columns   *)
(* in which its object differs from what it loaded: SQLAlchemy's UPDATE    *)
(* has no others, and there is no UPDATE when there are none.  What a      *)
(* session has sent and not committed holds the row and the code.          *)
(***************************************************************************)
EXTENDS Integers, Sequences, FiniteSets

CONSTANTS
    Sessions,   \* concurrent requests
    Codes,      \* values of the unique column
    Names,      \* values of another column
    Null,       \* an explicit null in a payload
    Updates,    \* the payloads clients send to change a row
    MaxRows     \* bound: rows created

ASSUME NullAssumption == Null \notin Codes \cup Names \cup {"true", "false"}
ASSUME MaxRowsAssumption == MaxRows \in Nat

VARIABLES
    rows,       \* database: the committed rows, an id is a position
    pc,         \* where each session is
    request,    \* the id and the payload it works on
    loaded      \* the row as the session has loaded it

vars == <<rows, pc, request, loaded>>

-----------------------------------------------------------------------------
(* Rows and payloads *)

Fields == {"code", "name", "is_active"}

Flags == {"true", "false"}

Column == [f \in Fields |-> IF f = "code" THEN Codes ELSE IF f = "name" THEN Names ELSE Flags]

Value == Codes \cup Names \cup Flags

Row == {r \in [Fields -> Value] : \A f \in Fields : r[f] \in Column[f]}

\* A payload that validates names some fields, each with a value or with null.
Payload == UNION {[F -> Value \cup {Null}] : F \in SUBSET Fields}

Update == {p \in Payload : \A f \in DOMAIN p : p[f] \in Column[f] \cup {Null}}

ASSUME UpdatesAssumption == Updates \subseteq Update

\* A new row: is_active has the default of the column.
Create == {p \in Update : DOMAIN p = Fields /\ p["is_active"] = "true"
                          /\ \A f \in Fields : p[f] # Null}

\* What deactivate_warehouse and deactivate_product set.
Deactivation == [f \in {"is_active"} |-> "false"]

\* The id of a request to create, and an id that does not exist.
New == 0
Unknown == -1

NoRow == [f \in Fields |-> Null]
NoRequest == [id |-> New, patch |-> NoRow]

Patched(row, p) == [f \in Fields |-> IF f \in DOMAIN p THEN p[f] ELSE row[f]]

Id(w) == request[w].id
Patch(w) == request[w].patch

\* The columns in which the session's object differs from what it loaded.
Dirty(w) == {f \in DOMAIN Patch(w) : Patch(w)[f] # loaded[w][f]}

\* Mutant of Written: the whole object is sent.
WrittenWhole(w) == Patched(loaded[w], Patch(w))

\* Mutant of Written: values that are false are taken for unset.
WrittenTruthy(w) == [f \in {g \in Dirty(w) : Patch(w)[g] # "false"} |-> Patch(w)[f]]

\* The columns and values of the session's INSERT or UPDATE.
Written(w) == [f \in Dirty(w) |-> Patch(w)[f]]

\* The session has an uncommitted version of its row, ...
HoldsRow(w) == pc[w] \in {"key", "commit"} /\ Id(w) # New

\* ... and an uncommitted entry in the index of the unique column.
HoldsCode(w, c) == pc[w] = "commit" /\ "code" \in Dirty(w) /\ Patch(w)["code"] = c

\* Sessions that make an index insertion of code c by w wait: they have
\* inserted c, or have an uncommitted version of the row with code c.
Blockers(w, c) ==
    {v \in Sessions \ {w} :
        \/ HoldsCode(v, c)
        \/ HoldsRow(v) /\ rows[Id(v)]["code"] = c}

\* Mutant of Taken: no unique constraint.
TakenNever(w, c) == FALSE

\* A committed row other than w's own has code c.
Taken(w, c) == \E i \in DOMAIN rows : i # Id(w) /\ rows[i]["code"] = c

\* Mutant of NotNull: the columns accept nulls.
NotNullNever(w) == TRUE

\* The NOT NULL constraints.
NotNull(w) == \A f \in Dirty(w) : Patch(w)[f] # Null

-----------------------------------------------------------------------------
(* Actions *)

Init ==
    /\ rows = << >>
    /\ pc = [w \in Sessions |-> "idle"]
    /\ request = [w \in Sessions |-> NoRequest]
    /\ loaded = [w \in Sessions |-> NoRow]

Goto(w, label) == pc' = [pc EXCEPT ![w] = label]

\* The session is closed; what was not committed is rolled back.
EndRequest(w) ==
    /\ Goto(w, "idle")
    /\ request' = [request EXCEPT ![w] = NoRequest]
    /\ loaded' = [loaded EXCEPT ![w] = NoRow]

Fail(w) == EndRequest(w) /\ UNCHANGED rows

Creating == {w \in Sessions : pc[w] # "idle" /\ Id(w) = New}

\* POST with a payload for a new row.
ReceiveCreate(w) ==
    /\ pc[w] = "idle"
    /\ Len(rows) + Cardinality(Creating) < MaxRows
    /\ \E p \in Create : request' = [request EXCEPT ![w] = [id |-> New, patch |-> p]]
    /\ Goto(w, "check")
    /\ UNCHANGED <<rows, loaded>>

\* PUT with the fields to change, DELETE with none.
ReceiveUpdate(w) ==
    /\ pc[w] = "idle"
    /\ \E i \in DOMAIN rows \cup {Unknown}, p \in Updates \cup {Deactivation} :
          request' = [request EXCEPT ![w] = [id |-> i, patch |-> p]]
    /\ Goto(w, "load")
    /\ UNCHANGED <<rows, loaded>>

\* get_by_id_or_raise
Load(w) ==
    /\ pc[w] = "load"
    /\ \/ /\ Id(w) \in DOMAIN rows
          /\ loaded' = [loaded EXCEPT ![w] = rows[Id(w)]]
          /\ Goto(w, "check")
          /\ UNCHANGED <<rows, request>>
       \/ Id(w) \notin DOMAIN rows /\ Fail(w)

\* A new code that is not null is looked up.
MustLookUp(w) == "code" \in Dirty(w) /\ Patch(w)["code"] # Null

\* get_by_code or get_by_sku: a ConflictError for any committed row with the
\* code, and the setattr's otherwise.
Check(w) ==
    /\ pc[w] = "check"
    /\ \/ /\ MustLookUp(w) => \A i \in DOMAIN rows : rows[i]["code"] # Patch(w)["code"]
          /\ Goto(w, "write")
          /\ UNCHANGED <<rows, request, loaded>>
       \/ /\ MustLookUp(w)
          /\ \E i \in DOMAIN rows : rows[i]["code"] = Patch(w)["code"]
          /\ Fail(w)

\* The flush.  An UPDATE waits for the row; an object that is not dirty sends
\* nothing and the request is over; a null is an IntegrityError.
Write(w) ==
    /\ pc[w] = "write"
    /\ \/ Dirty(w) = {} /\ EndRequest(w) /\ UNCHANGED rows
       \/ /\ Dirty(w) # {}
          /\ ~\E v \in Sessions \ {w} : HoldsRow(v) /\ Id(v) = Id(w)
          /\ \/ NotNull(w) /\ Goto(w, "key") /\ UNCHANGED <<rows, request, loaded>>
             \/ ~NotNull(w) /\ Fail(w)

\* The index insertion of a code waits for those before it, and is an
\* IntegrityError when the code is then taken.
InsertKey(w) ==
    /\ pc[w] = "key"
    /\ "code" \in Dirty(w) => Blockers(w, Patch(w)["code"]) = {}
    /\ \/ /\ "code" \in Dirty(w) => ~Taken(w, Patch(w)["code"])
          /\ Goto(w, "commit")
          /\ UNCHANGED <<rows, request, loaded>>
       \/ /\ "code" \in Dirty(w)
          /\ Taken(w, Patch(w)["code"])
          /\ Fail(w)

\* The commit; the refresh that follows only reads.
Commit(w) ==
    /\ pc[w] = "commit"
    /\ rows' = IF Id(w) = New THEN Append(rows, Patched(NoRow, Written(w)))
               ELSE [rows EXCEPT ![Id(w)] = Patched(@, Written(w))]
    /\ EndRequest(w)

\* The session dies, or PostgreSQL ends it to break a deadlock.
Crash(w) == pc[w] # "idle" /\ Fail(w)

Step(w) ==
    \/ ReceiveCreate(w)
    \/ ReceiveUpdate(w)
    \/ Load(w)
    \/ Check(w)
    \/ Write(w)
    \/ InsertKey(w)
    \/ Commit(w)
    \/ Crash(w)

Next == \E w \in Sessions : Step(w)

Spec == Init /\ [][Next]_vars

-----------------------------------------------------------------------------
(* Properties *)

\* The type invariant; in particular no committed column is null.
TypeOK ==
    /\ rows \in Seq(Row)
    /\ pc \in [Sessions -> {"idle", "load", "check", "write", "key", "commit"}]
    /\ request \in [Sessions -> [id : Nat \cup {Unknown}, patch : Update]]
    /\ loaded \in [Sessions -> Row \cup {NoRow}]

\* No two warehouses have one code, no two products one SKU, although the
\* services look a code up before they write it and without a lock.
KeysUnique == \A i, j \in DOMAIN rows : rows[i]["code"] = rows[j]["code"] => i = j

\* What sessions have sent and not committed does not collide: not with a
\* committed row, and not with each other.
Exclusive ==
    /\ \A v, w \in Sessions :
          HoldsRow(v) /\ HoldsRow(w) /\ Id(v) = Id(w) => v = w
    /\ \A v, w \in Sessions, c \in Codes :
          HoldsCode(v, c) /\ HoldsCode(w, c) => v = w
    /\ \A w \in Sessions, c \in Codes : HoldsCode(w, c) => ~Taken(w, c)

\* Where a session is in its request: a row to change exists and has been
\* loaded, a new one has all its columns, nothing null is sent.
Progress(w) ==
    /\ pc[w] = "idle" => loaded[w] = NoRow
    /\ pc[w] \in {"check", "write", "key", "commit"} =>
          IF Id(w) = New THEN Patch(w) \in Create /\ loaded[w] = NoRow
          ELSE Id(w) \in DOMAIN rows /\ loaded[w] \in Row
    /\ pc[w] \in {"key", "commit"} => NotNull(w)

\* The inductive invariant.
IndInv == TypeOK /\ (\A w \in Sessions : Progress(w)) /\ Exclusive /\ KeysUnique

\* "Unset fields are left unchanged": rows are never removed, and a column
\* changes only to what the session that commits was asked to set it to, also
\* when the row has changed since the session loaded it.
NoClobber ==
    [][\A i \in DOMAIN rows :
          /\ i \in DOMAIN rows'
          /\ \A f \in Fields : rows'[i][f] # rows[i][f] =>
                \E w \in Sessions :
                    /\ pc[w] = "commit" /\ pc'[w] = "idle" /\ Id(w) = i
                    /\ f \in DOMAIN Patch(w) /\ rows'[i][f] = Patch(w)[f]]_vars

\* A request whose row nobody has changed since it was loaded leaves it with
\* every column as asked.  (A column that somebody else has changed meanwhile is
\* not written when the session had loaded it with the value it sets.)
FreshUpdateApplies ==
    [][\A w \in Sessions :
          (/\ pc[w] = "commit" /\ rows' # rows /\ pc'[w] = "idle"
           /\ Id(w) # New /\ rows[Id(w)] = loaded[w])
              => rows'[Id(w)] = Patched(rows[Id(w)], Patch(w))]_vars
=============================================================================
