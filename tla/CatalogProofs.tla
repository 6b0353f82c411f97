--------------------------- MODULE CatalogProofs ---------------------------
(***************************************************************************)
(* Theorems about Catalog: codes are unique, and no update is clobbered,   *)
(* for any number of sessions, rows, codes and names.                      *)
(***************************************************************************)
EXTENDS Catalog, SequenceTheorems, TLAPS

Labels == {"idle", "load", "check", "write", "key", "commit"}

Requests == [id : Nat \cup {Unknown}, patch : Update]

-----------------------------------------------------------------------------
(* Payloads and rows *)

\* What a payload is, without its sets of functions.
LEMMA UpdateShape ==
    ASSUME NEW p \in Update
    PROVE  /\ DOMAIN p \subseteq Fields
           /\ \A f \in DOMAIN p : p[f] \in Column[f] \cup {Null}
<1>1. p \in Payload /\ \A f \in DOMAIN p : p[f] \in Column[f] \cup {Null}
  BY DEF Update
<1>2. PICK F \in SUBSET Fields : p \in [F -> Value \cup {Null}]
  BY <1>1 DEF Payload
<1>3. QED
  BY <1>1, <1>2

\* ... and what it takes to be one.
LEMMA IsUpdate ==
    ASSUME NEW F \in SUBSET Fields, NEW p \in [F -> Value \cup {Null}],
           \A f \in F : p[f] \in Column[f] \cup {Null}
    PROVE  p \in Update
<1>1. p \in Payload
  BY DEF Payload
<1>2. QED
  BY <1>1 DEF Update

\* The payloads that are built in.
LEMMA BuiltIn == NoRow \in Update /\ Deactivation \in Update /\ Create \subseteq Update
<1>1. NoRow \in Update
  <2>1. NoRow \in [Fields -> Value \cup {Null}] /\ \A f \in Fields : NoRow[f] = Null
    BY DEF NoRow
  <2>2. QED
    BY <2>1, IsUpdate
<1>2. Deactivation \in Update
  <2>1. /\ {"is_active"} \in SUBSET Fields
        /\ Deactivation \in [{"is_active"} -> Value \cup {Null}]
        /\ \A f \in {"is_active"} : Deactivation[f] \in Column[f] \cup {Null}
    BY DEF Deactivation, Fields, Value, Flags, Column
  <2>2. QED
    BY <2>1, IsUpdate
<1>3. QED
  BY <1>1, <1>2 DEF Create

\* A row is a function on Fields with the values of its columns.
LEMMA IsRow ==
    ASSUME NEW r, r = [f \in Fields |-> r[f]], \A f \in Fields : r[f] \in Column[f]
    PROVE  r \in Row
<1>1. \A f \in Fields : Column[f] \subseteq Value
  BY DEF Column, Value, Fields
<1>2. r \in [Fields -> Value]
  BY <1>1
<1>3. QED
  BY <1>2 DEF Row

\* Column by column, what a session writes over a row.
LEMMA WrittenOver ==
    ASSUME TypeOK, NEW w \in Sessions, NEW row, NEW f \in Fields
    PROVE  Patched(row, Written(w))[f] = IF f \in Dirty(w) THEN Patch(w)[f] ELSE row[f]
  BY DEF Patched, Written

\* Writing over a row without nulls gives a row, and so does an INSERT.
LEMMA WrittenType ==
    ASSUME TypeOK, NEW w \in Sessions, NotNull(w), NEW row,
           \A f \in Fields : f \in Dirty(w) \/ row[f] \in Column[f]
    PROVE  Patched(row, Written(w)) \in Row
<1> DEFINE new == Patched(row, Written(w))
<1>1. Patch(w) \in Update
  BY DEF TypeOK, Patch
<1>2. \A f \in Dirty(w) : Patch(w)[f] \in Column[f]
  <2> SUFFICES ASSUME NEW f \in Dirty(w) PROVE Patch(w)[f] \in Column[f]
    OBVIOUS
  <2>1. f \in DOMAIN Patch(w) /\ Patch(w)[f] # Null
    BY DEF Dirty, NotNull
  <2>2. QED
    BY <1>1, <2>1, UpdateShape
<1>3. \A f \in Fields : new[f] \in Column[f]
  BY <1>2, WrittenOver
<1>4. new = [f \in Fields |-> new[f]]
  BY DEF Patched
<1>5. QED
  <2> HIDE DEF new
  <2>1. new \in Row
    BY <1>3, <1>4, IsRow
  <2>2. QED
    BY <2>1 DEF new

-----------------------------------------------------------------------------
(* Steps *)

\* A session that is not stepping keeps its request.
Others(w) ==
    \A v \in Sessions \ {w} :
        pc'[v] = pc[v] /\ request'[v] = request[v] /\ loaded'[v] = loaded[v]

\* After EndRequest a session is idle, the others are where they were.
LEMMA AfterEnd ==
    ASSUME TypeOK, NEW w \in Sessions, EndRequest(w)
    PROVE  /\ Others(w)
           /\ pc' \in [Sessions -> Labels] /\ pc'[w] = "idle" /\ loaded'[w] = NoRow
           /\ request' \in [Sessions -> Requests]
           /\ loaded' \in [Sessions -> Row \cup {NoRow}]
<1>1. NoRequest \in Requests
  BY BuiltIn DEF NoRequest, Requests, New
<1>2. QED
  BY <1>1 DEF TypeOK, EndRequest, Goto, Others, Labels, Requests

\* What a step that commits nothing does to its session: it ends, or it goes
\* on with the same request, or it starts with a new one.
LEMMA Moves ==
    ASSUME TypeOK, NEW w \in Sessions, Step(w), ~Commit(w)
    PROVE  /\ rows' = rows
           /\ Others(w)
           /\ pc' \in [Sessions -> Labels]
           /\ request' \in [Sessions -> Requests]
           /\ loaded' \in [Sessions -> Row \cup {NoRow}]
           /\ pc'[w] = "idle" => loaded'[w] = NoRow
           /\ \/ pc'[w] \in {"idle", "load"}
              \/ /\ pc[w] = "idle" /\ pc'[w] = "check" /\ loaded'[w] = loaded[w]
                 /\ request'[w].id = New /\ request'[w].patch \in Create
              \/ /\ pc[w] = "load" /\ pc'[w] = "check" /\ request'[w] = request[w]
                 /\ Id(w) \in DOMAIN rows /\ loaded'[w] = rows[Id(w)]
              \/ /\ pc[w] = "check" /\ pc'[w] = "write"
                 /\ request'[w] = request[w] /\ loaded'[w] = loaded[w]
              \/ /\ pc[w] = "write" /\ pc'[w] = "key" /\ NotNull(w)
                 /\ ~\E v \in Sessions \ {w} : HoldsRow(v) /\ Id(v) = Id(w)
                 /\ request'[w] = request[w] /\ loaded'[w] = loaded[w]
              \/ /\ pc[w] = "key" /\ pc'[w] = "commit"
                 /\ "code" \in Dirty(w) => /\ Blockers(w, Patch(w)["code"]) = {}
                                           /\ ~Taken(w, Patch(w)["code"])
                 /\ request'[w] = request[w] /\ loaded'[w] = loaded[w]
<1>0. /\ pc \in [Sessions -> Labels] /\ request \in [Sessions -> Requests]
      /\ loaded \in [Sessions -> Row \cup {NoRow}] /\ rows \in Seq(Row)
  BY DEF TypeOK, Labels, Requests
<1>1. CASE Fail(w)
  BY <1>1, AfterEnd DEF Fail
<1>2. CASE ReceiveCreate(w)
  <2>1. PICK p \in Create : request' = [request EXCEPT ![w] = [id |-> New, patch |-> p]]
    BY <1>2 DEF ReceiveCreate
  <2>2. [id |-> New, patch |-> p] \in Requests
    BY BuiltIn DEF Requests, New
  <2>3. QED
    BY <1>0, <1>2, <2>1, <2>2 DEF ReceiveCreate, Goto, Others, Labels
<1>3. CASE ReceiveUpdate(w)
  <2>1. PICK i \in DOMAIN rows \cup {Unknown} :
          \E p \in Updates \cup {Deactivation} :
              request' = [request EXCEPT ![w] = [id |-> i, patch |-> p]]
    BY <1>3 DEF ReceiveUpdate
  <2>2. PICK p \in Updates \cup {Deactivation} :
          request' = [request EXCEPT ![w] = [id |-> i, patch |-> p]]
    BY <2>1
  <2>3. i \in Nat \cup {Unknown}
    BY <1>0
  <2>4. p \in Update
    BY BuiltIn, UpdatesAssumption
  <2>5. [id |-> i, patch |-> p] \in Requests
    BY <2>3, <2>4 DEF Requests
  <2>6. QED
    BY <1>0, <1>3, <2>2, <2>5 DEF ReceiveUpdate, Goto, Others, Labels
<1>4. CASE Load(w)
  <2>1. CASE Id(w) \in DOMAIN rows /\ ~Fail(w)
    <3>1. rows[Id(w)] \in Row
      BY <1>0, <2>1
    <3>2. QED
      BY <1>0, <1>4, <2>1, <3>1 DEF Load, Goto, Others, Labels
  <2>2. QED
    BY <1>1, <1>4, <2>1 DEF Load
<1>5. CASE Check(w)
  BY <1>0, <1>1, <1>5 DEF Check, Goto, Others, Labels
<1>6. CASE Write(w)
  BY <1>0, <1>1, <1>6 DEF Write, Fail, Goto, Others, Labels
<1>7. CASE InsertKey(w)
  BY <1>0, <1>1, <1>7 DEF InsertKey, Goto, Others, Labels
<1>8. QED
  BY <1>1, <1>2, <1>3, <1>4, <1>5, <1>6, <1>7 DEF Step, Crash

\* The position of the row that a session is about to commit.
Position(w) == IF Id(w) = New THEN Len(rows) + 1 ELSE Id(w)

\* What a commit does: one row is new or changed, in the columns that are dirty.
LEMMA AfterCommit ==
    ASSUME TypeOK, NEW w \in Sessions, Progress(w), Commit(w)
    PROVE  /\ Others(w) /\ pc'[w] = "idle" /\ loaded'[w] = NoRow
           /\ rows' \in Seq(Row)
           /\ DOMAIN rows' = DOMAIN rows \cup {Position(w)}
           /\ \A i \in DOMAIN rows : i # Position(w) => rows'[i] = rows[i]
           /\ Position(w) \in DOMAIN rows' /\ (Position(w) \in DOMAIN rows <=> Id(w) # New)
           /\ Id(w) # New => Position(w) = Id(w)
           /\ Id(w) # New => rows'[Id(w)] = Patched(rows[Id(w)], Written(w))
           /\ \A f \in Fields :
                 rows'[Position(w)][f] = IF f \in Dirty(w) THEN Patch(w)[f]
                                         ELSE rows[Position(w)][f]
           /\ Id(w) = New => "code" \in Dirty(w)
<1>0. /\ rows \in Seq(Row) /\ pc[w] = "commit" /\ NotNull(w)
      /\ Others(w) /\ pc'[w] = "idle" /\ loaded'[w] = NoRow
  BY AfterEnd DEF TypeOK, Commit, Progress
<1> DEFINE k == Position(w)
           new == IF Id(w) = New THEN Patched(NoRow, Written(w))
                  ELSE Patched(rows[Id(w)], Written(w))
<1>1. CASE Id(w) = New
  <2>1. Patch(w) \in Create /\ loaded[w] = NoRow
    BY <1>0, <1>1 DEF Progress
  <2>2. Fields \subseteq Dirty(w)
    BY <2>1 DEF Create, Dirty, NoRow
  <2>3. Patched(NoRow, Written(w)) \in Row
    BY <1>0, <2>2, WrittenType
  <2>4. rows' = Append(rows, Patched(NoRow, Written(w)))
    BY <1>1 DEF Commit
  <2>5. k = Len(rows) + 1 /\ Len(rows) \in Nat /\ DOMAIN rows = 1 .. Len(rows)
    BY <1>0, <1>1 DEF Position
  <2> HIDE DEF k
  <2>6. /\ rows' \in Seq(Row) /\ DOMAIN rows' = DOMAIN rows \cup {k}
        /\ \A i \in DOMAIN rows : rows'[i] = rows[i]
        /\ rows'[k] = Patched(NoRow, Written(w))
        /\ k \notin DOMAIN rows
    BY <1>0, <2>3, <2>4, <2>5
  <2>7. \A f \in Fields : rows'[k][f] = Patch(w)[f]
    BY <2>2, <2>6, WrittenOver
  <2>8. QED
    BY <1>0, <1>1, <2>2, <2>6, <2>7 DEF k, Fields
<1>2. CASE Id(w) # New
  <2>1. Id(w) \in DOMAIN rows
    BY <1>0, <1>2 DEF Progress
  <2>2. rows[Id(w)] \in Row
    BY <1>0, <2>1
  <2>3. Patched(rows[Id(w)], Written(w)) \in Row
    BY <1>0, <2>2, WrittenType DEF Row
  <2>4. rows' = [rows EXCEPT ![Id(w)] = Patched(@, Written(w))]
    BY <1>2 DEF Commit
  <2>5. k = Id(w)
    BY <1>2 DEF Position
  <2> HIDE DEF k
  <2>6. /\ rows' \in Seq(Row) /\ DOMAIN rows' = DOMAIN rows \cup {k}
        /\ \A i \in DOMAIN rows : i # k => rows'[i] = rows[i]
        /\ rows'[k] = Patched(rows[k], Written(w))
        /\ k \in DOMAIN rows
    <3>1. PICK x \in Row : x = Patched(rows[k], Written(w))
      BY <2>3, <2>5
    <3>2. rows' = [rows EXCEPT ![k] = x] /\ k \in DOMAIN rows
      BY <2>1, <2>4, <2>5, <3>1
    <3>3. rows' \in Seq(Row) /\ DOMAIN rows' = DOMAIN rows
      BY <1>0, <3>2
    <3>4. QED
      BY <1>0, <3>1, <3>2, <3>3
  <2>7. \A f \in Fields :
           rows'[k][f] = IF f \in Dirty(w) THEN Patch(w)[f] ELSE rows[k][f]
    BY <2>6, WrittenOver
  <2>8. QED
    BY <1>0, <1>2, <2>5, <2>6, <2>7 DEF k
<1>3. QED
  BY <1>1, <1>2

-----------------------------------------------------------------------------
(* The inductive invariant *)

\* What a session knows of its own request depends on its own state only.
LEMMA Frame ==
    ASSUME TypeOK, NEW v \in Sessions, request'[v] = request[v], loaded'[v] = loaded[v]
    PROVE  /\ Id(v)' = Id(v) /\ Patch(v)' = Patch(v) /\ Dirty(v)' = Dirty(v)
           /\ NotNull(v)' = NotNull(v)
           /\ pc'[v] = pc[v] => /\ HoldsRow(v)' = HoldsRow(v)
                                /\ \A c : HoldsCode(v, c)' = HoldsCode(v, c)
  BY DEF Id, Patch, Dirty, NotNull, HoldsRow, HoldsCode

\* Types are kept.
LEMMA TypesKept == TypeOK /\ (\A w \in Sessions : Progress(w)) /\ [Next]_vars => TypeOK'
<1> SUFFICES ASSUME TypeOK, \A w \in Sessions : Progress(w), [Next]_vars
             PROVE  TypeOK'
  OBVIOUS
<1>1. CASE UNCHANGED vars
  BY <1>1 DEF vars, TypeOK
<1>2. ASSUME NEW w \in Sessions, Commit(w)
      PROVE  TypeOK'
  BY <1>2, AfterCommit, AfterEnd DEF TypeOK, Commit, Labels, Requests
<1>3. ASSUME NEW w \in Sessions, Step(w), ~Commit(w)
      PROVE  TypeOK'
  BY <1>3, Moves DEF TypeOK, Labels, Requests
<1>4. QED
  BY <1>1, <1>2, <1>3 DEF Next

\* A session that goes on knows what it has to know.
LEMMA ProgressKept ==
    ASSUME TypeOK, \A w \in Sessions : Progress(w), NEW w \in Sessions, Step(w),
           NEW v \in Sessions
    PROVE  Progress(v)'
<1>0. Progress(v) /\ Progress(w) /\ rows \in Seq(Row)
  BY DEF TypeOK
<1>1. DOMAIN rows \subseteq DOMAIN rows' /\ Others(w)
  BY <1>0, AfterCommit, Moves
<1>2. CASE v # w
  <2>1. pc'[v] = pc[v] /\ request'[v] = request[v] /\ loaded'[v] = loaded[v]
    BY <1>1, <1>2 DEF Others
  <2>2. QED
    BY <1>0, <1>1, <2>1, Frame DEF Progress
<1>3. CASE v = w /\ Commit(w)
  BY <1>0, <1>3, AfterCommit DEF Progress
<1>4. CASE v = w /\ ~Commit(w)
  <2>1. CASE pc'[w] \in {"idle", "load"}
    BY <1>4, <2>1, Moves DEF Progress
  <2>2. CASE /\ pc[w] = "idle" /\ pc'[w] = "check" /\ loaded'[w] = loaded[w]
             /\ request'[w].id = New /\ request'[w].patch \in Create
    <3>1. loaded[w] = NoRow
      BY <1>0, <2>2 DEF Progress
    <3>2. QED
      BY <1>4, <2>2, <3>1 DEF Progress, Id, Patch, Create
  <2>3. CASE /\ pc[w] = "load" /\ pc'[w] = "check" /\ request'[w] = request[w]
             /\ Id(w) \in DOMAIN rows /\ loaded'[w] = rows[Id(w)]
    <3>1. Id(w)' = Id(w) /\ rows[Id(w)] \in Row /\ Id(w) # New
      BY <1>0, <2>3 DEF Id, New
    <3>2. QED
      BY <1>1, <1>4, <2>3, <3>1 DEF Progress
  <2>4. CASE /\ pc[w] \in {"check", "write", "key"} /\ pc'[w] \in {"write", "key", "commit"}
             /\ pc'[w] = "key" => NotNull(w)
             /\ pc'[w] = "commit" => pc[w] = "key"
             /\ request'[w] = request[w] /\ loaded'[w] = loaded[w]
    BY <1>0, <1>1, <1>4, <2>4, Frame DEF Progress
  <2>5. QED
    BY <1>4, <2>1, <2>2, <2>3, <2>4, Moves
<1>5. QED
  BY <1>2, <1>3, <1>4

\* A session that holds a row or a code after a step held it before, or got it
\* from nobody in this step.
LEMMA Gains ==
    ASSUME TypeOK, NEW w \in Sessions, Step(w), ~Commit(w)
    PROVE  /\ HoldsRow(w)' =>
                 /\ Id(w)' = Id(w)
                 /\ \/ HoldsRow(w)
                    \/ ~\E v \in Sessions \ {w} : HoldsRow(v) /\ Id(v) = Id(w)
           /\ \A c : HoldsCode(w, c)' =>
                 /\ Id(w)' = Id(w)
                 /\ Blockers(w, c) = {} /\ ~Taken(w, c)
<1>1. CASE pc'[w] \notin {"key", "commit"}
  BY <1>1 DEF HoldsRow, HoldsCode
<1>2. CASE pc'[w] \in {"key", "commit"}
  <2>1. request'[w] = request[w] /\ loaded'[w] = loaded[w]
    BY <1>2, Moves
  <2>2. /\ pc'[w] = "key" => ~\E v \in Sessions \ {w} : HoldsRow(v) /\ Id(v) = Id(w)
        /\ pc'[w] = "commit" =>
              /\ pc[w] = "key"
              /\ "code" \in Dirty(w) => /\ Blockers(w, Patch(w)["code"]) = {}
                                        /\ ~Taken(w, Patch(w)["code"])
    BY <1>2, Moves
  <2>3. Id(w)' = Id(w) /\ Patch(w)' = Patch(w) /\ Dirty(w)' = Dirty(w)
    BY <2>1, Frame
  <2>4. QED
    BY <1>2, <2>2, <2>3 DEF HoldsRow, HoldsCode
<1>3. QED
  BY <1>1, <1>2

\* Steps that commit nothing keep sessions apart.
LEMMA ExclusiveKept ==
    ASSUME TypeOK, Exclusive, NEW w \in Sessions, Step(w), ~Commit(w)
    PROVE  Exclusive'
<1>0. rows' = rows /\ Others(w)
  BY Moves
<1>1. ASSUME NEW v \in Sessions, v # w
      PROVE  /\ Id(v)' = Id(v) /\ HoldsRow(v)' = HoldsRow(v)
             /\ \A c : HoldsCode(v, c)' = HoldsCode(v, c)
  BY <1>0, <1>1, Frame DEF Others
<1>2. ASSUME NEW v \in Sessions, v # w, HoldsRow(v)', HoldsRow(w)', (Id(v) = Id(w))'
      PROVE  FALSE
  BY <1>1, <1>2, Gains DEF Exclusive
<1>3. ASSUME NEW v \in Sessions, v # w, NEW c \in Codes, HoldsCode(v, c)', HoldsCode(w, c)'
      PROVE  FALSE
  <2>1. HoldsCode(v, c) /\ Blockers(w, c) = {}
    BY <1>1, <1>3, Gains
  <2>2. QED
    BY <1>3, <2>1 DEF Blockers
<1>4. ASSUME NEW v \in Sessions, NEW c \in Codes, HoldsCode(v, c)'
      PROVE  ~Taken(v, c)'
  <2>1. ~Taken(v, c) /\ Id(v)' = Id(v)
    BY <1>1, <1>4, Gains DEF Exclusive
  <2>2. QED
    BY <1>0, <2>1 DEF Taken
<1>5. \A v, x \in Sessions : (HoldsRow(v) /\ HoldsRow(x) /\ Id(v) = Id(x))' => v = x
  <2> SUFFICES ASSUME NEW v \in Sessions, NEW x \in Sessions,
                      HoldsRow(v)', HoldsRow(x)', (Id(v) = Id(x))', v # x
               PROVE  FALSE
    OBVIOUS
  <2>1. CASE v = w \/ x = w
    BY <1>2, <2>1
  <2>2. CASE v # w /\ x # w
    BY <1>1, <2>2 DEF Exclusive
  <2>3. QED
    BY <2>1, <2>2
<1>6. \A v, x \in Sessions, c \in Codes : (HoldsCode(v, c) /\ HoldsCode(x, c))' => v = x
  <2> SUFFICES ASSUME NEW v \in Sessions, NEW x \in Sessions, NEW c \in Codes,
                      HoldsCode(v, c)', HoldsCode(x, c)', v # x
               PROVE  FALSE
    OBVIOUS
  <2>1. CASE v = w \/ x = w
    BY <1>3, <2>1
  <2>2. CASE v # w /\ x # w
    BY <1>1, <2>2 DEF Exclusive
  <2>3. QED
    BY <2>1, <2>2
<1>7. QED
  BY <1>4, <1>5, <1>6 DEF Exclusive

\* The code a commit gives its row is one the session holds.
LEMMA CommittedCode ==
    ASSUME TypeOK, NEW w \in Sessions, Progress(w), Commit(w)
    PROVE  LET c == rows'[Position(w)]["code"]
           IN /\ c \in Codes
              /\ \/ HoldsCode(w, c)
                 \/ Position(w) \in DOMAIN rows /\ c = rows[Position(w)]["code"]
<1> DEFINE k == Position(w)
           c == rows'[k]["code"]
<1>1. /\ rows' \in Seq(Row) /\ k \in DOMAIN rows'
      /\ c = IF "code" \in Dirty(w) THEN Patch(w)["code"] ELSE rows[k]["code"]
      /\ "code" \notin Dirty(w) => k \in DOMAIN rows
  BY AfterCommit DEF Fields
<1>2. rows'[k] \in Row
  BY <1>1
<1>3. c \in Codes
  BY <1>2 DEF Row, Column, Fields
<1>4. pc[w] = "commit"
  BY DEF Commit
<1>5. QED
  BY <1>1, <1>3, <1>4 DEF HoldsCode

\* A commit keeps codes unique and sessions apart.
LEMMA CommitKept ==
    ASSUME IndInv, NEW w \in Sessions, Commit(w)
    PROVE  KeysUnique' /\ Exclusive'
<1> DEFINE k == Position(w)
           c == rows'[k]["code"]
<1>0. TypeOK /\ Progress(w) /\ Exclusive /\ KeysUnique
  BY DEF IndInv
<1>1. /\ Others(w) /\ pc'[w] = "idle"
      /\ DOMAIN rows' = DOMAIN rows \cup {k}
      /\ \A i \in DOMAIN rows : i # k => rows'[i] = rows[i]
      /\ Id(w) # New => k = Id(w)
      /\ k \in DOMAIN rows <=> Id(w) # New
  BY <1>0, AfterCommit
<1>2. c \in Codes /\ (HoldsCode(w, c) \/ (k \in DOMAIN rows /\ c = rows[k]["code"]))
  BY <1>0, CommittedCode
<1>3. ASSUME NEW i \in DOMAIN rows, i # k
      PROVE  rows[i]["code"] # c
  <2>1. CASE HoldsCode(w, c)
    <3>1. ~Taken(w, c)
      BY <1>0, <1>2, <2>1 DEF Exclusive
    <3>2. i # Id(w)
      <4>1. 0 \notin DOMAIN rows
        BY <1>0 DEF TypeOK
      <4>2. QED
        BY <1>1, <1>3, <4>1 DEF New
    <3>3. QED
      BY <3>1, <3>2 DEF Taken
  <2>2. CASE k \in DOMAIN rows /\ c = rows[k]["code"]
    BY <1>0, <1>3, <2>2 DEF KeysUnique
  <2>3. QED
    BY <1>2, <2>1, <2>2
<1>4. KeysUnique'
  <2> HIDE DEF k
  <2> SUFFICES ASSUME NEW i \in DOMAIN rows', NEW j \in DOMAIN rows',
                      rows'[i]["code"] = rows'[j]["code"], i # j
               PROVE  FALSE
    BY DEF KeysUnique
  <2>1. CASE i # k /\ j # k
    BY <1>0, <1>1, <2>1 DEF KeysUnique
  <2>2. CASE i = k \/ j = k
    BY <1>1, <1>3, <2>2
  <2>3. QED
    BY <2>1, <2>2
<1>5. ASSUME NEW v \in Sessions
      PROVE  /\ HoldsRow(v)' => v # w /\ HoldsRow(v) /\ Id(v)' = Id(v)
             /\ \A d : HoldsCode(v, d)' => v # w /\ HoldsCode(v, d) /\ Id(v)' = Id(v)
  <2>1. CASE v = w
    BY <1>1, <2>1 DEF HoldsRow, HoldsCode
  <2>2. CASE v # w
    BY <1>0, <1>1, <2>2, Frame DEF Others
  <2>3. QED
    BY <2>1, <2>2
<1>6. ASSUME NEW v \in Sessions, NEW d \in Codes, HoldsCode(v, d)'
      PROVE  ~Taken(v, d)'
  <2>1. v # w /\ HoldsCode(v, d) /\ Id(v)' = Id(v)
    BY <1>5, <1>6
  <2>2. ~Taken(v, d)
    BY <1>0, <2>1 DEF Exclusive
  <2>3. CASE c = d
    <3>1. ~HoldsCode(w, d)
      BY <1>0, <2>1 DEF Exclusive
    <3>2. k \in DOMAIN rows /\ d = rows[k]["code"]
      BY <1>2, <2>3, <3>1
    <3>3. DOMAIN rows' = DOMAIN rows
      BY <1>1, <3>2
    <3>4. \A i \in DOMAIN rows : rows'[i]["code"] = d => rows[i]["code"] = d
      BY <1>1, <3>2
    <3>5. QED
      BY <2>1, <2>2, <3>3, <3>4 DEF Taken
  <2>4. CASE c # d
    <3> HIDE DEF k
    <3>1. \A i \in DOMAIN rows' : rows'[i]["code"] = d => i \in DOMAIN rows /\ rows[i]["code"] = d
      BY <1>1, <2>4
    <3>2. QED
      BY <2>1, <2>2, <3>1 DEF Taken
  <2>5. QED
    BY <2>3, <2>4
<1>7. QED
  BY <1>0, <1>4, <1>5, <1>6 DEF Exclusive

\* The invariant is inductive.
LEMMA Kept == IndInv /\ [Next]_vars => IndInv'
<1> SUFFICES ASSUME IndInv, [Next]_vars
             PROVE  IndInv'
  OBVIOUS
<1>0. TypeOK /\ (\A w \in Sessions : Progress(w)) /\ Exclusive /\ KeysUnique
  BY DEF IndInv
<1>1. TypeOK'
  BY <1>0, TypesKept
<1>2. CASE UNCHANGED vars
  <2>1. ASSUME NEW v \in Sessions
        PROVE  /\ Progress(v)' /\ HoldsRow(v)' = HoldsRow(v) /\ Id(v)' = Id(v)
               /\ \A c : HoldsCode(v, c)' = HoldsCode(v, c) /\ Taken(v, c)' = Taken(v, c)
    BY <1>0, <1>2, Frame DEF vars, Progress, Taken
  <2>2. KeysUnique' /\ Exclusive'
    BY <1>0, <1>2, <2>1 DEF vars, KeysUnique, Exclusive
  <2>3. QED
    BY <1>1, <2>1, <2>2 DEF IndInv
<1>3. ASSUME NEW w \in Sessions, Step(w)
      PROVE  IndInv'
  <2>1. \A v \in Sessions : Progress(v)'
    BY <1>0, <1>3, ProgressKept
  <2>2. KeysUnique' /\ Exclusive'
    <3>1. CASE Commit(w)
      BY <3>1, CommitKept
    <3>2. CASE ~Commit(w)
      BY <1>0, <1>3, <3>2, ExclusiveKept, Moves DEF KeysUnique
    <3>3. QED
      BY <3>1, <3>2
  <2>3. QED
    BY <1>1, <2>1, <2>2 DEF IndInv
<1>4. QED
  BY <1>2, <1>3 DEF Next

\* Nothing exists and nobody is at work.
LEMMA Starts == Init => IndInv
<1> SUFFICES ASSUME Init PROVE IndInv
  OBVIOUS
<1>1. rows = << >> /\ DOMAIN rows = {}
  BY DEF Init
<1>2. TypeOK
  <2>1. NoRequest \in [id : Nat \cup {Unknown}, patch : Update]
    BY BuiltIn DEF NoRequest, New
  <2>2. rows \in Seq(Row)
    BY <1>1
  <2>3. QED
    BY <2>1, <2>2 DEF Init, TypeOK
<1>3. \A w \in Sessions : Progress(w) /\ ~HoldsRow(w) /\ \A c : ~HoldsCode(w, c)
  BY DEF Init, Progress, HoldsRow, HoldsCode
<1>4. QED
  BY <1>1, <1>2, <1>3 DEF IndInv, KeysUnique, Exclusive

-----------------------------------------------------------------------------
(* The theorems *)

\* The invariant holds in every reachable state, for any number of sessions.
THEOREM Inductive == Spec => []IndInv
  BY Starts, Kept, PTL DEF Spec

\* Every variable keeps its type; no NOT NULL column is ever null, whatever
\* explicit nulls the payloads of update_warehouse and update_product hold.
THEOREM TypeCorrect == Spec => []TypeOK
<1>1. IndInv => TypeOK
  BY DEF IndInv
<1>2. QED
  BY <1>1, Inductive, PTL

\* Codes and SKUs are unique in every state: the unique index makes up for the
\* look-up of create_warehouse and update_warehouse, which holds nothing.
THEOREM UniqueKeys == Spec => []KeysUnique
<1>1. IndInv => KeysUnique
  BY DEF IndInv
<1>2. QED
  BY <1>1, Inductive, PTL

\* A commit changes only what its own payload names, to the value it names.
THEOREM NothingClobbered == Spec => NoClobber
<1>1. ASSUME IndInv, [Next]_vars, NEW i \in DOMAIN rows
      PROVE  /\ i \in DOMAIN rows'
             /\ \A f \in Fields : rows'[i][f] # rows[i][f] =>
                   \E w \in Sessions :
                       /\ pc[w] = "commit" /\ pc'[w] = "idle" /\ Id(w) = i
                       /\ f \in DOMAIN Patch(w) /\ rows'[i][f] = Patch(w)[f]
  <2>0. TypeOK /\ \A w \in Sessions : Progress(w)
    BY <1>1 DEF IndInv
  <2>1. CASE rows' = rows
    BY <2>1
  <2>2. ASSUME NEW w \in Sessions, Commit(w)
        PROVE  /\ i \in DOMAIN rows'
               /\ \A f \in Fields : rows'[i][f] # rows[i][f] =>
                     /\ pc[w] = "commit" /\ pc'[w] = "idle" /\ Id(w) = i
                     /\ f \in DOMAIN Patch(w) /\ rows'[i][f] = Patch(w)[f]
    <3>1. /\ pc'[w] = "idle" /\ DOMAIN rows' = DOMAIN rows \cup {Position(w)}
          /\ i # Position(w) => rows'[i] = rows[i]
          /\ i = Position(w) => i = Id(w)
          /\ \A f \in Fields :
                rows'[Position(w)][f] = IF f \in Dirty(w) THEN Patch(w)[f]
                                        ELSE rows[Position(w)][f]
      BY <2>0, <2>2, AfterCommit
    <3>2. pc[w] = "commit" /\ Dirty(w) \subseteq DOMAIN Patch(w)
      BY <2>2 DEF Commit, Dirty
    <3>3. QED
      BY <3>1, <3>2
  <2>3. CASE ~\E w \in Sessions : Commit(w)
    BY <1>1, <2>0, <2>1, <2>3, Moves DEF Next, vars
  <2>4. QED
    BY <2>2, <2>3
<1>2. IndInv /\ [Next]_vars =>
        [\A i \in DOMAIN rows :
          /\ i \in DOMAIN rows'
          /\ \A f \in Fields : rows'[i][f] # rows[i][f] =>
                \E w \in Sessions :
                    /\ pc[w] = "commit" /\ pc'[w] = "idle" /\ Id(w) = i
                    /\ f \in DOMAIN Patch(w) /\ rows'[i][f] = Patch(w)[f]]_vars
  BY <1>1
<1>3. QED
  BY <1>2, Inductive, PTL DEF Spec, NoClobber

\* A commit over the row its session loaded leaves every column as asked: what
\* is not sent, because the object did not differ, is there already.
THEOREM FreshUpdates == Spec => FreshUpdateApplies
<1>1. ASSUME IndInv, [Next]_vars, NEW w \in Sessions,
             pc[w] = "commit", rows' # rows, pc'[w] = "idle", Id(w) # New,
             rows[Id(w)] = loaded[w]
      PROVE  rows'[Id(w)] = Patched(rows[Id(w)], Patch(w))
  <2>1. TypeOK /\ Progress(w)
    BY <1>1 DEF IndInv
  <2>2. Commit(w)
    <3>1. PICK v \in Sessions : Step(v)
      BY <1>1 DEF Next, vars
    <3>2. Commit(v)
      BY <1>1, <2>1, <3>1, Moves
    <3>3. Others(v)
      BY <2>1, <3>2, AfterEnd DEF Commit
    <3>4. v = w
      BY <1>1, <3>3 DEF Others
    <3>5. QED
      BY <3>2, <3>4
  <2>3. PICK i \in DOMAIN rows : i = Id(w)
    BY <1>1, <2>1 DEF Progress
  <2>4. rows'[i] = Patched(rows[i], Written(w))
    BY <1>1, <2>2, <2>3 DEF Commit
  <2>5. ASSUME NEW f \in Fields
        PROVE  Patched(rows[i], Written(w))[f] = Patched(rows[i], Patch(w))[f]
    <3>1. Patched(rows[i], Written(w))[f] = IF f \in Dirty(w) THEN Patch(w)[f] ELSE rows[i][f]
      BY <2>1, WrittenOver
    <3>2. f \in DOMAIN Patch(w) /\ f \notin Dirty(w) => Patch(w)[f] = rows[i][f]
      BY <1>1, <2>3 DEF Dirty
    <3>3. Dirty(w) \subseteq DOMAIN Patch(w)
      BY DEF Dirty
    <3>4. QED
      BY <3>1, <3>2, <3>3 DEF Patched
  <2>6. Patched(rows[i], Written(w)) = Patched(rows[i], Patch(w))
    BY <2>5 DEF Patched
  <2>7. QED
    BY <2>3, <2>4, <2>6
<1>2. IndInv /\ [Next]_vars =>
        [\A w \in Sessions :
          (/\ pc[w] = "commit" /\ rows' # rows /\ pc'[w] = "idle"
           /\ Id(w) # New /\ rows[Id(w)] = loaded[w])
              => rows'[Id(w)] = Patched(rows[Id(w)], Patch(w))]_vars
  BY <1>1
<1>3. QED
  BY <1>2, Inductive, PTL DEF Spec, FreshUpdateApplies
=============================================================================
