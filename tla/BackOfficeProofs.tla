-------------------------- MODULE BackOfficeProofs --------------------------
(***************************************************************************)
(* Proofs about BackOffice, for any number of tasks, worker processes,     *)
(* requests, commits and faults: how stale an answer of the report         *)
(* endpoints can be, what an alert email tells, when one is given up, what *)
(* a finished export holds, and that paging the history loses nothing.     *)
(***************************************************************************)
EXTENDS BackOffice, TasksProofs, ReportsProofs, SequenceTheorems

-----------------------------------------------------------------------------
(* The report endpoints. *)

Stamped == [stock : Stocks, at : Nat]
Phases == {"idle", "reading", "missed", "bypassed", "writing", "answered", "unavailable"}

\* The figures were those of the committed stock at time t or later.
Current(kind, figures, t) ==
    \E i \in DOMAIN history :
        /\ figures = E!Figures(kind, history[i].stock)
        /\ i < Len(history) => history[i + 1].at >= t

CacheShape ==
    /\ clock \in Nat /\ errors \in 0 .. MaxErrors
    /\ history \in Seq(Stamped) /\ history # <<>>
    /\ \A i \in DOMAIN history : history[i].at <= clock
    /\ left \in [requests : Nat, commits : Nat, ticks : Nat, lists : Nat]
    /\ \E F :
          /\ cache \in [E!Keys -> {None} \cup [figures : F, expires : Nat]]
          /\ request \in [Requests ->
                [phase : Phases, kind : E!Kinds \cup {None}, asked : Nat, figures : F]]

\* An entry is current as of a TTL and a Latency before it expires.
Entry(kind) ==
    cache[E!Key(kind)] # None =>
        /\ cache[E!Key(kind)].expires <= clock + TTL
        /\ Current(kind, cache[E!Key(kind)].figures,
                   cache[E!Key(kind)].expires - TTL - Latency)

\* A report on its way to the cache is current as of the time it was asked for,
\* an answer as of a TTL and a Latency before.
Handler(r) ==
    /\ request[r].asked <= clock
    /\ E!Active(r) => request[r].kind \in E!Kinds /\ clock <= request[r].asked + Latency
    /\ request[r].phase = "writing" =>
          Current(request[r].kind, request[r].figures, request[r].asked)
    /\ E!Answered(r) =>
          Current(request[r].kind, request[r].figures, request[r].asked - TTL - Latency + 1)

CacheInv ==
    /\ CacheShape
    /\ \A kind \in E!Kinds : Entry(kind)
    /\ \A r \in Requests : Handler(r)

-----------------------------------------------------------------------------
\* What was current at some time was current before, and a commit, which comes
\* after that time, changes nothing about it.
LEMMA CurrentKept ==
  ASSUME CacheShape, history' = history \/ \E s \in Stocks : E!CommitStock(s),
         NEW kind, NEW figures, NEW t \in Int, NEW u \in Int, u <= t, u <= clock,
         Current(kind, figures, t)
  PROVE  Current(kind, figures, u)'
<1>1. PICK i \in DOMAIN history :
          /\ figures = E!Figures(kind, history[i].stock)
          /\ i < Len(history) => history[i + 1].at >= t
  BY DEF Current
<1>2. Len(history) \in Nat /\ i \in 1 .. Len(history) /\ clock \in Nat
      /\ \A j \in 1 .. Len(history) : history[j].at \in Nat
  <2>1. history \in Seq(Stamped) /\ clock \in Nat
    BY DEF CacheShape
  <2>2. \A j \in 1 .. Len(history) : history[j] \in Stamped
    BY <2>1
  <2> QED BY <2>1, <2>2 DEF Stamped
<1>3. CASE history' = history
  <2>1. i < Len(history) => history[i + 1].at >= u
    BY <1>1, <1>2
  <2> QED BY <1>1, <1>3, <2>1 DEF Current
<1>4. ASSUME NEW s \in Stocks, E!CommitStock(s) PROVE Current(kind, figures, u)'
  <2>1. /\ Len(history') = Len(history) + 1
        /\ DOMAIN history' = 1 .. Len(history) + 1
        /\ \A j \in 1 .. Len(history) : history'[j] = history[j]
        /\ history'[Len(history) + 1].at = clock
    BY <1>2, <1>4 DEF CacheShape, E!CommitStock, Stamped
  <2>2. i \in DOMAIN history' /\ history'[i] = history[i]
    BY <1>2, <2>1
  <2>3. i < Len(history') => history'[i + 1].at >= u
    <3>1. CASE i < Len(history)
      <4>1. i + 1 \in 1 .. Len(history) BY <1>2, <3>1
      <4>2. history'[i + 1] = history[i + 1] BY <2>1, <4>1
      <4> QED BY <1>1, <1>2, <3>1, <4>1, <4>2
    <3>2. CASE i = Len(history)
      BY <1>2, <2>1, <3>2
    <3> QED BY <1>2, <3>1, <3>2
  <2>4. figures = E!Figures(kind, history'[i].stock)
    BY <1>1, <2>2
  <2> QED BY <2>2, <2>3, <2>4 DEF Current
<1> QED
  BY <1>3, <1>4

\* What is generated now is current now.
LEMMA CurrentNow ==
  ASSUME CacheShape, NEW kind, NEW t
  PROVE  Current(kind, E!Figures(kind, E!Stock), t)
<1>1. Len(history) \in DOMAIN history
  BY DEF CacheShape
<1>2. ~ Len(history) < Len(history)
  BY DEF CacheShape
<1> QED
  BY <1>1, <1>2 DEF Current, E!Stock

\* The keys of different reports are different.
LEMMA KeysApart ==
  ASSUME NEW a \in E!Kinds, NEW b \in E!Kinds, E!Key(a) = E!Key(b)
  PROVE  a = b
BY DEF E!Key, E!Kinds

LEMMA CacheInit ==
  ASSUME BackOfficeAssumption, Init
  PROVE  CacheInv
<1>1. PICK load \in Loads : left = [requests |-> load.requests, commits |-> load.commits,
                                    ticks |-> load.ticks, lists |-> load.lists]
                            /\ errors = MaxErrors - load.errors
  BY DEF Init
<1>2. CacheShape
  <2>1. left \in [requests : Nat, commits : Nat, ticks : Nat, lists : Nat]
        /\ errors \in 0 .. MaxErrors
    BY <1>1 DEF BackOfficeAssumption
  <2>2. history \in Seq(Stamped) /\ history # <<>>
        /\ \A i \in DOMAIN history : history[i].at <= clock
    BY DEF Init, E!Init, BackOfficeAssumption, Stamped
  <2>3. /\ cache \in [E!Keys -> {None} \cup [figures : {None}, expires : Nat]]
        /\ request \in [Requests ->
              [phase : Phases, kind : E!Kinds \cup {None}, asked : Nat, figures : {None}]]
    BY DEF Init, E!Init, E!Idle, Phases
  <2> QED BY <2>1, <2>2, <2>3 DEF CacheShape, Init, E!Init
<1>3. \A kind \in E!Kinds : Entry(kind)
  BY DEF Init, E!Init, Entry, E!Keys
<1>4. \A r \in Requests : Handler(r)
  BY DEF Init, E!Init, E!Idle, Handler, E!Active, E!Answered
<1> QED
  BY <1>2, <1>3, <1>4 DEF CacheInv

\* An entry nobody writes stays as current as it was...
LEMMA EntryKept ==
  ASSUME BackOfficeAssumption, CacheInv, NEW kind \in E!Kinds,
         history' = history \/ \E s \in Stocks : E!CommitStock(s),
         clock' \in Nat, clock' >= clock, cache'[E!Key(kind)] = cache[E!Key(kind)]
  PROVE  Entry(kind)'
<1>a. PICK e : e = cache[E!Key(kind)]
  OBVIOUS
<1> SUFFICES ASSUME e # None
             PROVE  /\ e.expires <= clock' + TTL
                    /\ Current(kind, e.figures, e.expires - TTL - Latency)'
  BY <1>a DEF Entry
<1>1. e.expires \in Nat
  BY <1>a DEF CacheInv, CacheShape, E!Keys
<1>2. clock \in Nat /\ TTL \in Nat /\ Latency \in Nat
  BY DEF CacheInv, CacheShape, BackOfficeAssumption
<1>3. e.expires <= clock + TTL /\ Current(kind, e.figures, e.expires - TTL - Latency)
  BY <1>a DEF CacheInv, Entry
<1>4. e.expires - TTL - Latency \in Int /\ e.expires - TTL - Latency <= clock
  BY <1>1, <1>2, <1>3
<1>5. Current(kind, e.figures, e.expires - TTL - Latency)'
  BY <1>3, <1>4, CurrentKept DEF CacheInv
<1> QED
  BY <1>1, <1>2, <1>3, <1>5

\* ... and so does what a handler has.
LEMMA HandlerKept ==
  ASSUME BackOfficeAssumption, CacheInv, NEW r \in Requests,
         history' = history \/ \E s \in Stocks : E!CommitStock(s),
         \/ clock' = clock
         \/ (clock' = clock + 1 /\ (E!Active(r) => clock < request[r].asked + Latency)),
         request'[r] = request[r]
  PROVE  Handler(r)'
<1>1. request[r].asked \in Nat /\ clock \in Nat /\ TTL \in Nat \ {0} /\ Latency \in Nat
  BY DEF CacheInv, CacheShape, BackOfficeAssumption
<1>2. Handler(r)
  BY DEF CacheInv
<1>3. clock' \in Nat /\ clock' >= clock
  BY <1>1
<1>4. (E!Active(r))' = E!Active(r) /\ (E!Answered(r))' = E!Answered(r)
  BY DEF E!Active, E!Answered
<1>5. E!Active(r)' => clock' <= request'[r].asked + Latency
  BY <1>1, <1>2, <1>4 DEF Handler
<1>6. ASSUME request[r].phase = "writing"
      PROVE  Current(request[r].kind, request[r].figures, request[r].asked)'
  BY <1>1, <1>2, <1>6, CurrentKept DEF Handler, CacheInv
<1>7. ASSUME E!Answered(r)
      PROVE  Current(request[r].kind, request[r].figures, request[r].asked - TTL - Latency + 1)'
  <2>1. /\ request[r].asked - TTL - Latency + 1 \in Int
        /\ request[r].asked - TTL - Latency + 1 <= clock
    BY <1>1, <1>2 DEF Handler
  <2> QED BY <1>2, <1>7, <2>1, CurrentKept DEF Handler, CacheInv
<1> QED
  BY <1>1, <1>2, <1>3, <1>4, <1>5, <1>6, <1>7 DEF Handler

\* What a handler writes into the cache is current as of a TTL and a Latency
\* before it expires.
LEMMA EntryWritten ==
  ASSUME BackOfficeAssumption, CacheInv, NEW r \in Requests, NEW kind \in E!Kinds,
         history' = history, clock' = clock, request[r].phase = "writing",
         cache' = E!Written(r)
  PROVE  Entry(kind)'
<1>1. /\ request[r].asked \in Nat /\ clock \in Nat /\ TTL \in Nat \ {0} /\ Latency \in Nat
      /\ Handler(r) /\ E!Active(r)
  BY DEF CacheInv, CacheShape, BackOfficeAssumption, E!Active
<1>2. request[r].kind \in E!Kinds
  BY <1>1 DEF Handler
<1>3. CASE kind = request[r].kind
  <2>1. PICK e : e = [figures |-> request[r].figures, expires |-> clock + TTL]
    OBVIOUS
  <2>2. cache'[E!Key(kind)] = e /\ e.figures = request[r].figures
        /\ e.expires \in Int /\ e.expires = clock + TTL
    <3>1. E!Key(kind) \in DOMAIN cache
      BY DEF CacheInv, CacheShape, E!Keys
    <3>2. clock + TTL \in Int BY <1>1
    <3> QED BY <1>3, <2>1, <3>1, <3>2 DEF E!Written
  <2>3. e.expires - TTL - Latency \in Int /\ e.expires - TTL - Latency <= clock
        /\ e.expires - TTL - Latency <= request[r].asked
    BY <1>1, <2>2 DEF Handler
  <2>4. Current(kind, e.figures, request[r].asked)
    BY <1>1, <1>3, <2>2 DEF Handler
  <2>5. Current(kind, e.figures, e.expires - TTL - Latency)'
    BY <1>1, <2>3, <2>4, CurrentKept DEF CacheInv
  <2> QED BY <1>1, <2>2, <2>5 DEF Entry
<1>4. CASE kind # request[r].kind
  <2>1. cache'[E!Key(kind)] = cache[E!Key(kind)]
    BY <1>2, <1>4, KeysApart DEF E!Written, CacheInv, CacheShape, E!Keys
  <2> QED BY <1>1, <2>1, EntryKept
<1> QED
  BY <1>3, <1>4

LEMMA CacheUntouched ==
  ASSUME BackOfficeAssumption, CacheInv, UNCHANGED <<history, cacheVars>>,
         left' \in [requests : Nat, commits : Nat, ticks : Nat, lists : Nat]
  PROVE  CacheInv'
<1>1. CacheShape'
  BY DEF CacheInv, CacheShape, cacheVars, E!Keys
<1>2. clock' \in Nat /\ clock' >= clock /\ cache' = cache /\ request' = request
  BY DEF CacheInv, CacheShape, cacheVars
<1>3. \A kind \in E!Kinds : Entry(kind)'
  BY <1>2, EntryKept
<1>4. ASSUME NEW r \in Requests PROVE Handler(r)'
  <2>1. history' = history /\ clock' = clock /\ request'[r] = request[r]
    BY DEF cacheVars
  <2> QED BY <2>1, HandlerKept
<1> QED
  BY <1>1, <1>3, <1>4 DEF CacheInv

\* A step of one handler: the others keep what they have, and the rest is seen
\* to of the cache and of this one.
LEMMA RequestStep ==
  ASSUME BackOfficeAssumption, CacheInv, NEW r \in Requests,
         history' = history, clock' = clock, errors' \in 0 .. MaxErrors,
         left' \in [requests : Nat, commits : Nat, ticks : Nat, lists : Nat],
         cache' = cache \/ (request[r].phase = "writing" /\ cache' = E!Written(r)),
         NEW h, request' = [request EXCEPT ![r] = h],
         \E G : h \in [phase : Phases, kind : E!Kinds \cup {None}, asked : Nat, figures : G],
         Handler(r)'
  PROVE  CacheInv'
<1>1. CacheShape'
  <2>1. PICK F :
          /\ cache \in [E!Keys -> {None} \cup [figures : F, expires : Nat]]
          /\ request \in [Requests ->
                [phase : Phases, kind : E!Kinds \cup {None}, asked : Nat, figures : F]]
    BY DEF CacheInv, CacheShape
  <2>2. PICK H, G : h \in [phase : Phases, kind : E!Kinds \cup {None}, asked : Nat, figures : H]
                   /\ G = F \cup H
    OBVIOUS
  <2>3. request' \in [Requests ->
            [phase : Phases, kind : E!Kinds \cup {None}, asked : Nat, figures : G]]
    <3>1. h \in [phase : Phases, kind : E!Kinds \cup {None}, asked : Nat, figures : G]
      BY <2>2
    <3>2. request \in [Requests ->
            [phase : Phases, kind : E!Kinds \cup {None}, asked : Nat, figures : G]]
      BY <2>1, <2>2
    <3> QED BY <3>1, <3>2
  <2>4. cache' \in [E!Keys -> {None} \cup [figures : G, expires : Nat]]
    <3>1. cache \in [E!Keys -> {None} \cup [figures : G, expires : Nat]]
      BY <2>1, <2>2
    <3>2. [figures |-> request[r].figures, expires |-> clock + TTL]
          \in [figures : G, expires : Nat]
      BY <2>1, <2>2 DEF CacheInv, CacheShape, BackOfficeAssumption
    <3> QED BY <3>1, <3>2 DEF E!Written
  <2>5. E!Keys' = E!Keys
    BY DEF E!Keys
  <2> QED BY <2>3, <2>4, <2>5 DEF CacheInv, CacheShape
<1>2. ASSUME NEW k \in E!Kinds PROVE Entry(k)'
  <2>1. CASE cache' = cache
    <3>1. clock' \in Nat /\ clock' >= clock
      BY DEF CacheInv, CacheShape
    <3> QED BY <2>1, <3>1, EntryKept
  <2>2. CASE request[r].phase = "writing" /\ cache' = E!Written(r)
    BY <2>2, EntryWritten
  <2> QED BY <2>1, <2>2
<1>3. ASSUME NEW q \in Requests PROVE Handler(q)'
  <2>1. CASE q # r
    <3>1. request'[q] = request[q]
      BY <2>1 DEF CacheInv, CacheShape
    <3> QED BY <3>1, HandlerKept
  <2> QED BY <2>1
<1> QED
  BY <1>1, <1>2, <1>3 DEF CacheInv

\* The record of a handler, as it is typed.
LEMMA RequestTyped ==
  ASSUME CacheInv, NEW r \in Requests
  PROVE  /\ request[r].phase \in Phases /\ request[r].kind \in E!Kinds \cup {None}
         /\ request[r].asked \in Nat /\ clock \in Nat /\ r \in DOMAIN request
         /\ \E F : request[r] \in
               [phase : Phases, kind : E!Kinds \cup {None}, asked : Nat, figures : F]
BY DEF CacheInv, CacheShape

LEMMA AskStep ==
  ASSUME BackOfficeAssumption, CacheInv, NEW r \in Requests, NEW kind \in E!Kinds,
         E!Ask(r, kind)
  PROVE  CacheInv'
<1>1. PICK h : h = [phase |-> "reading", kind |-> kind, asked |-> clock, figures |-> None]
  OBVIOUS
<1>2. /\ history' = history /\ clock' = clock /\ cache' = cache /\ errors' = errors
      /\ request' = [request EXCEPT ![r] = h]
  BY <1>1 DEF E!Ask
<1>3. left' \in [requests : Nat, commits : Nat, ticks : Nat, lists : Nat]
  <2>1. left \in [requests : Nat, commits : Nat, ticks : Nat, lists : Nat]
    BY DEF CacheInv, CacheShape
  <2> QED BY <2>1 DEF E!Ask
<1>4. clock \in Nat /\ Latency \in Nat /\ errors \in 0 .. MaxErrors
  BY DEF CacheInv, CacheShape, BackOfficeAssumption
<1>5. h \in [phase : Phases, kind : E!Kinds \cup {None}, asked : Nat, figures : {None}]
  BY <1>1, <1>4 DEF Phases
<1>6. request'[r] = h
  BY <1>2, RequestTyped
<1>7. Handler(r)'
  BY <1>1, <1>2, <1>4, <1>6 DEF Handler, E!Active, E!Answered
<1> QED
  BY <1>2, <1>3, <1>4, <1>5, <1>7, RequestStep

LEMMA HitStep ==
  ASSUME BackOfficeAssumption, CacheInv, NEW r \in Requests, E!Hit(r)
  PROVE  CacheInv'
<1>1. PICK kind \in E!Kinds : kind = request[r].kind /\ E!Active(r)
  BY DEF E!Hit, E!Active, CacheInv, Handler
<1>2. PICK e : e = cache[E!Key(kind)]
  OBVIOUS
<1>3. /\ e # None /\ clock < e.expires /\ e.expires \in Nat
      /\ Current(kind, e.figures, e.expires - TTL - Latency)
  <2>1. e # None /\ clock < e.expires
    BY <1>1, <1>2 DEF E!Hit, E!Live
  <2>2. e.expires \in Nat
    BY <1>2, <2>1 DEF CacheInv, CacheShape, E!Keys
  <2>3. Entry(kind)
    BY DEF CacheInv
  <2> QED BY <1>2, <2>1, <2>2, <2>3 DEF Entry
<1>4. PICK asked \in Nat : asked = request[r].asked /\ asked <= clock
  BY RequestTyped DEF CacheInv, Handler
<1>5. PICK figures : figures = e.figures
  OBVIOUS
<1>6. PICK h : h = [[request[r] EXCEPT !.phase = "answered"] EXCEPT !.figures = figures]
  OBVIOUS
<1>7. /\ history' = history /\ clock' = clock /\ cache' = cache /\ errors' = errors
      /\ left' = left
  BY DEF E!Hit
<1>8. request' = [request EXCEPT ![r] = h] /\ request'[r] = h
  BY <1>1, <1>2, <1>5, <1>6, RequestTyped DEF E!Hit
<1>9. /\ h.phase = "answered" /\ h.kind = kind /\ h.asked = asked /\ h.figures = figures
      /\ \E G : h \in [phase : Phases, kind : E!Kinds \cup {None}, asked : Nat, figures : G]
  <2>1. PICK F : request[r] \in
               [phase : Phases, kind : E!Kinds \cup {None}, asked : Nat, figures : F]
    BY RequestTyped
  <2>2. h \in [phase : Phases, kind : E!Kinds \cup {None}, asked : Nat, figures : F \cup {figures}]
    BY <1>6, <2>1 DEF Phases
  <2> QED BY <1>1, <1>4, <1>6, <2>1, <2>2
<1>10. Current(kind, figures, asked - TTL - Latency + 1)'
  <2>1. TTL \in Nat \ {0} /\ Latency \in Nat /\ clock \in Nat
    BY DEF CacheInv, CacheShape, BackOfficeAssumption
  <2>2. /\ asked - TTL - Latency + 1 \in Int /\ e.expires - TTL - Latency \in Int
        /\ asked - TTL - Latency + 1 <= e.expires - TTL - Latency
        /\ asked - TTL - Latency + 1 <= clock
    BY <1>3, <1>4, <2>1
  <2>3. PICK t \in Int : t = e.expires - TTL - Latency
    BY <2>2
  <2> QED BY <1>3, <1>5, <1>7, <2>2, <2>3, CurrentKept DEF CacheInv
<1>11. Handler(r)'
  BY <1>4, <1>7, <1>8, <1>9, <1>10 DEF Handler, E!Active, E!Answered
<1> QED
  BY <1>7, <1>8, <1>9, <1>11, RequestStep DEF CacheInv, CacheShape

\* The steps that change the phase and no more: Miss, Bypass.
LEMMA PhaseStep ==
  ASSUME BackOfficeAssumption, CacheInv, NEW r \in Requests,
         NEW phase \in {"missed", "bypassed", "unavailable"}, E!Active(r),
         request' = [request EXCEPT ![r].phase = phase],
         UNCHANGED <<history, clock, cache, left>>, errors' \in 0 .. MaxErrors
  PROVE  CacheInv'
<1>1. PICK h : h = [request[r] EXCEPT !.phase = phase]
  OBVIOUS
<1>2. request' = [request EXCEPT ![r] = h] /\ request'[r] = h
  BY <1>1, RequestTyped
<1>3. /\ h.phase = phase /\ h.kind = request[r].kind /\ h.asked = request[r].asked
      /\ \E G : h \in [phase : Phases, kind : E!Kinds \cup {None}, asked : Nat, figures : G]
  BY <1>1, RequestTyped DEF Phases
<1>4. Handler(r)'
  <2>1. Handler(r) BY DEF CacheInv
  <2> QED BY <1>2, <1>3, <2>1, RequestTyped DEF Handler, E!Active, E!Answered
<1>5. left' \in [requests : Nat, commits : Nat, ticks : Nat, lists : Nat]
  BY DEF CacheInv, CacheShape
<1> QED
  BY <1>2, <1>3, <1>4, <1>5, RequestStep

LEMMA GenerateStep ==
  ASSUME BackOfficeAssumption, CacheInv, NEW r \in Requests, E!Generate(r)
  PROVE  CacheInv'
<1>1. PICK kind \in E!Kinds : kind = request[r].kind /\ E!Active(r)
  BY DEF E!Generate, E!Active, CacheInv, Handler
<1>2. PICK figures : figures = E!Figures(kind, E!Stock)
  OBVIOUS
<1>3. PICK phase \in {"writing", "answered"} :
          phase = IF request[r].phase = "missed" THEN "writing" ELSE "answered"
  OBVIOUS
<1>4. PICK h : h = [[request[r] EXCEPT !.phase = phase] EXCEPT !.figures = figures]
  OBVIOUS
<1>5. /\ history' = history /\ clock' = clock /\ cache' = cache /\ errors' = errors
      /\ left' = left
  BY DEF E!Generate
<1>6. request' = [request EXCEPT ![r] = h] /\ request'[r] = h
  BY <1>1, <1>2, <1>3, <1>4, RequestTyped DEF E!Generate
<1>7. PICK asked \in Nat : asked = request[r].asked /\ asked <= clock /\ clock <= asked + Latency
  BY <1>1, RequestTyped DEF CacheInv, Handler
<1>8. /\ h.phase = phase /\ h.kind = kind /\ h.asked = asked /\ h.figures = figures
      /\ \E G : h \in [phase : Phases, kind : E!Kinds \cup {None}, asked : Nat, figures : G]
  <2>1. PICK F : request[r] \in
               [phase : Phases, kind : E!Kinds \cup {None}, asked : Nat, figures : F]
    BY RequestTyped
  <2>2. h \in [phase : Phases, kind : E!Kinds \cup {None}, asked : Nat, figures : F \cup {figures}]
    BY <1>4, <2>1 DEF Phases
  <2> QED BY <1>1, <1>7, <1>4, <2>1, <2>2
<1>9. Current(kind, figures, asked - TTL - Latency + 1)' /\ Current(kind, figures, asked)'
  <2>1. TTL \in Nat \ {0} /\ Latency \in Nat /\ clock \in Nat
    BY DEF CacheInv, CacheShape, BackOfficeAssumption
  <2>2. /\ asked - TTL - Latency + 1 \in Int /\ asked \in Int
        /\ asked - TTL - Latency + 1 <= asked
        /\ asked - TTL - Latency + 1 <= clock
    BY <1>7, <2>1
  <2>3. Current(kind, figures, asked)
    BY <1>2, CurrentNow DEF CacheInv
  <2> QED BY <1>5, <1>7, <2>2, <2>3, CurrentKept DEF CacheInv
<1>10. Handler(r)'
  BY <1>5, <1>6, <1>7, <1>8, <1>9 DEF Handler, E!Active, E!Answered
<1> QED
  BY <1>5, <1>6, <1>8, <1>10, RequestStep DEF CacheInv, CacheShape

\* The answer after a write, done or not.
LEMMA WriteStep ==
  ASSUME BackOfficeAssumption, CacheInv, NEW r \in Requests, E!Write(r) \/ E!WriteFails(r)
  PROVE  CacheInv'
<1>1. PICK kind \in E!Kinds : kind = request[r].kind
  BY DEF E!Write, E!WriteFails, E!Active, CacheInv, Handler
<1>2. PICK h : h = [request[r] EXCEPT !.phase = "answered"]
  OBVIOUS
<1>3. /\ history' = history /\ clock' = clock /\ left' = left
      /\ request[r].phase = "writing"
      /\ (cache' = cache \/ cache' = E!Written(r))
      /\ request' = [request EXCEPT ![r] = h]
  BY <1>2 DEF E!Write, E!WriteFails
<1>4. errors' \in 0 .. MaxErrors
  BY DEF E!Write, E!WriteFails, CacheInv, CacheShape, BackOfficeAssumption
<1>5. PICK asked \in Nat : asked = request[r].asked /\ asked <= clock
  BY RequestTyped DEF CacheInv, Handler
<1>6. PICK figures : figures = request[r].figures
  OBVIOUS
<1>7. /\ h.phase = "answered" /\ h.kind = kind /\ h.asked = asked /\ h.figures = figures
      /\ \E G : h \in [phase : Phases, kind : E!Kinds \cup {None}, asked : Nat, figures : G]
  BY <1>1, <1>2, <1>5, <1>6, RequestTyped DEF Phases
<1>8. Current(kind, figures, asked - TTL - Latency + 1)'
  <2>1. TTL \in Nat \ {0} /\ Latency \in Nat /\ clock \in Nat
    BY DEF CacheInv, CacheShape, BackOfficeAssumption
  <2>2. /\ asked - TTL - Latency + 1 \in Int /\ asked \in Int
        /\ asked - TTL - Latency + 1 <= asked
        /\ asked - TTL - Latency + 1 <= clock
    BY <1>5, <2>1
  <2>3. Current(kind, figures, asked)
    BY <1>1, <1>3, <1>5, <1>6 DEF CacheInv, Handler
  <2> QED BY <1>3, <2>2, <2>3, CurrentKept DEF CacheInv
<1>9. request'[r] = h
  BY <1>3, RequestTyped
<1>10. Handler(r)'
  BY <1>3, <1>5, <1>7, <1>8, <1>9 DEF Handler, E!Active, E!Answered
<1> QED
  BY <1>3, <1>4, <1>7, <1>10, RequestStep DEF CacheInv, CacheShape

LEMMA TickStep ==
  ASSUME BackOfficeAssumption, CacheInv, E!Tick
  PROVE  CacheInv'
<1>1. /\ clock' = clock + 1 /\ history' = history /\ cache' = cache /\ request' = request
      /\ errors' = errors /\ clock \in Nat
      /\ \A r \in Requests : E!Active(r) => clock < request[r].asked + Latency
  BY DEF E!Tick, CacheInv, CacheShape
<1>2. left' \in [requests : Nat, commits : Nat, ticks : Nat, lists : Nat]
  <2>1. left \in [requests : Nat, commits : Nat, ticks : Nat, lists : Nat]
    BY DEF CacheInv, CacheShape
  <2> QED BY <2>1 DEF E!Tick
<1>3. CacheShape'
  <2>1. \A i \in DOMAIN history : history[i].at <= clock + 1
    <3>1. ASSUME NEW i \in DOMAIN history PROVE history[i] \in Stamped /\ history[i].at <= clock
      <4>1. history \in Seq(Stamped) /\ history[i].at <= clock
        BY DEF CacheInv, CacheShape
      <4>2. history[i] \in Stamped
        BY <4>1
      <4> QED BY <4>1, <4>2
    <3> QED BY <1>1, <3>1 DEF Stamped
  <2>2. E!Keys' = E!Keys BY DEF E!Keys
  <2>3. \A i \in DOMAIN history' : history'[i].at <= clock'
    BY <1>1, <2>1
  <2>4. clock' \in Nat /\ errors' \in 0 .. MaxErrors
    BY <1>1 DEF CacheInv, CacheShape
  <2>5. PICK F :
          /\ cache \in [E!Keys -> {None} \cup [figures : F, expires : Nat]]
          /\ request \in [Requests ->
                [phase : Phases, kind : E!Kinds \cup {None}, asked : Nat, figures : F]]
    BY DEF CacheInv, CacheShape
  <2> QED BY <1>1, <1>2, <2>2, <2>3, <2>4, <2>5 DEF CacheInv, CacheShape
<1>4. ASSUME NEW k \in E!Kinds PROVE Entry(k)'
  BY <1>1, EntryKept
<1>5. ASSUME NEW r \in Requests PROVE Handler(r)'
  BY <1>1, HandlerKept
<1> QED
  BY <1>3, <1>4, <1>5 DEF CacheInv

LEMMA CommitStep ==
  ASSUME BackOfficeAssumption, CacheInv, NEW s \in Stocks, E!CommitStock(s)
  PROVE  CacheInv'
<1>1. /\ clock' = clock /\ cache' = cache /\ request' = request
      /\ errors' = errors /\ clock \in Nat
      /\ history' = Append(history, [stock |-> s, at |-> clock])
  BY DEF E!CommitStock, CacheInv, CacheShape
<1>2. left' \in [requests : Nat, commits : Nat, ticks : Nat, lists : Nat]
  <2>1. left \in [requests : Nat, commits : Nat, ticks : Nat, lists : Nat]
    BY DEF CacheInv, CacheShape
  <2> QED BY <2>1 DEF E!CommitStock
<1>3. CacheShape'
  <2>1. history \in Seq(Stamped) /\ [stock |-> s, at |-> clock] \in Stamped
    BY <1>1 DEF CacheInv, CacheShape, Stamped
  <2>2. history' \in Seq(Stamped) /\ history' # <<>>
    BY <1>1, <2>1
  <2>3. \A i \in DOMAIN history' : history'[i].at <= clock
    <3>1. \A i \in DOMAIN history : history[i].at <= clock
      BY DEF CacheInv, CacheShape
    <3> QED BY <1>1, <2>1, <3>1
  <2>4. E!Keys' = E!Keys BY DEF E!Keys
  <2> QED BY <1>1, <1>2, <2>2, <2>3, <2>4 DEF CacheInv, CacheShape
<1>4. ASSUME NEW k \in E!Kinds PROVE Entry(k)'
  BY <1>1, EntryKept
<1>5. ASSUME NEW r \in Requests PROVE Handler(r)'
  BY <1>1, HandlerKept
<1> QED
  BY <1>3, <1>4, <1>5 DEF CacheInv

LEMMA CacheStep ==
  ASSUME BackOfficeAssumption, CacheInv, [Next]_vars
  PROVE  CacheInv'
<1>1. CASE UNCHANGED <<history, cacheVars>> /\ left' = left
  BY <1>1, CacheUntouched DEF CacheInv, CacheShape
<1>2. CASE E!Next
  <2>1. CASE E!Tick
    BY <2>1, TickStep
  <2>2. ASSUME NEW s \in Stocks, E!CommitStock(s) PROVE CacheInv'
    BY <2>2, CommitStep
  <2>3. ASSUME NEW r \in Requests, NEW kind \in E!Kinds, E!Ask(r, kind) PROVE CacheInv'
    BY <2>3, AskStep
  <2>4. ASSUME NEW r \in Requests,
               \/ E!Hit(r) \/ E!Miss(r) \/ E!Bypass(r) \/ E!Generate(r)
               \/ E!GenerateRaises(r) \/ E!Write(r) \/ E!WriteFails(r)
        PROVE  CacheInv'
    <3>1. CASE E!Miss(r) \/ E!Bypass(r) \/ E!GenerateRaises(r)
      <4>1. E!Active(r) /\ UNCHANGED <<history, clock, cache, left>>
            /\ \E phase \in {"missed", "bypassed", "unavailable"} :
                   request' = [request EXCEPT ![r].phase = phase]
        BY <3>1 DEF E!Miss, E!Bypass, E!GenerateRaises, E!Active
      <4>2. errors' \in 0 .. MaxErrors
        <5>1. errors \in 0 .. MaxErrors /\ MaxErrors \in Nat
          BY DEF CacheInv, CacheShape, BackOfficeAssumption
        <5>2. errors' = errors \/ (errors < MaxErrors /\ errors' = errors + 1)
          BY <3>1 DEF E!Miss, E!Bypass, E!GenerateRaises
        <5> QED BY <5>1, <5>2
      <4> QED BY <4>1, <4>2, PhaseStep
    <3>2. CASE E!Hit(r)
      BY <3>2, HitStep
    <3>3. CASE E!Generate(r)
      BY <3>3, GenerateStep
    <3>4. CASE E!Write(r) \/ E!WriteFails(r)
      BY <3>4, WriteStep
    <3> QED BY <2>4, <3>1, <3>2, <3>3, <3>4
  <2> QED BY <1>2, <2>1, <2>2, <2>3, <2>4 DEF E!Next
<1>3. CASE L!Next /\ UNCHANGED <<taskVars, cacheVars>>
  <2>1. history' = history
    BY <1>3 DEF L!Next, L!Ask, L!NextPage
  <2>2. left' \in [requests : Nat, commits : Nat, ticks : Nat, lists : Nat]
    <3>1. left \in [requests : Nat, commits : Nat, ticks : Nat, lists : Nat]
      BY DEF CacheInv, CacheShape
    <3>2. left' = left \/ (left.lists > 0 /\ left' = [left EXCEPT !.lists = @ - 1])
      BY <1>3 DEF L!Next, L!Ask, L!NextPage
    <3> QED BY <3>1, <3>2
  <2> QED BY <1>3, <2>1, <2>2, CacheUntouched
<1> QED
  BY <1>1, <1>2, <1>3 DEF Next, vars

-----------------------------------------------------------------------------
(* The exports. *)

\* The figures are those of a stock committed since the export was asked for.
Right(n, figures) ==
    /\ figures # None
    /\ \E i \in task[n].since .. Len(history) :
          Means(task[n].about, figures, history[i].stock)

\* The file of this name is whole.
Whole(n, name) ==
    \E f \in files : f.name = name /\ f.kind = task[n].about /\ Right(n, f.figures)

\* Files have names of their own, and a new one gets another.
NamesInv ==
    /\ IsFiniteSet(files)
    /\ \A f \in files : f.name \in 1 .. Cardinality(files)
    /\ \A f, g \in files : f.name = g.name => f = g

\* An export has computed what it will write, has its file to itself while it is
\* open, and leaves it whole.
ExportOK(k) ==
    /\ child[k].phase \in {"computed", "opened"} =>
          ~IsEmail(Held(k)) /\ Right(Held(k), child[k].figures)
    /\ child[k].phase = "opened" =>
          /\ \E f \in files : f.name = child[k].file /\ f.figures = None
          /\ \A q \in Children \ {k} : child[q].phase = "opened" => child[q].file # child[k].file
    /\ child[k].phase = "succeeded" /\ ~IsEmail(Held(k)) => Whole(Held(k), child[k].file)

\* An export is asked for of a stock there is, and its result names a whole file.
ResultOK(n) ==
    ~IsEmail(n) =>
        /\ task[n].since \in 1 .. Len(history)
        /\ result[n].state = "SUCCESS" => Whole(n, result[n].file)

FilesInv ==
    /\ NamesInv
    /\ \A k \in Children : ExportOK(k)
    /\ \A n \in 1 .. Len(task) : ResultOK(n)

\* Commits, tasks and whole files are not taken back.
Kept ==
    /\ Len(history) <= Len(history') /\ Len(history') \in Nat
    /\ \A i \in 1 .. Len(history) : history'[i] = history[i]
    /\ Len(task) <= Len(task') /\ Len(task') \in Nat
    /\ \A n \in 1 .. Len(task) : task'[n] = task[n]
    /\ \A f \in files : f.figures # None => f \in files'

LEMMA RightKept ==
  ASSUME CacheShape, LogsInv, Kept, NEW n \in 1 .. Len(task), NEW figures, ResultOK(n),
         Right(n, figures), ~IsEmail(n)
  PROVE  Right(n, figures)'
<1>1. PICK i \in task[n].since .. Len(history) :
          Means(task[n].about, figures, history[i].stock)
  BY DEF Right
<1>2. Len(history) \in Nat /\ task[n].since \in 1 .. Len(history)
  BY DEF CacheShape, ResultOK
<1>3. i \in 1 .. Len(history) /\ i \in task[n].since .. Len(history')
  BY <1>2 DEF Kept
<1>4. history'[i] = history[i] /\ task'[n] = task[n]
  BY <1>3 DEF Kept
<1> QED
  BY <1>1, <1>3, <1>4 DEF Right

LEMMA WholeKept ==
  ASSUME CacheShape, LogsInv, Kept, NEW n \in 1 .. Len(task), NEW name, ResultOK(n),
         Whole(n, name), ~IsEmail(n)
  PROVE  Whole(n, name)'
<1>1. PICK f \in files : f.name = name /\ f.kind = task[n].about /\ Right(n, f.figures)
  BY DEF Whole
<1>2. f \in files'
  BY <1>1 DEF Kept, Right
<1>3. Right(n, f.figures)'
  BY <1>1, RightKept
<1>4. task'[n] = task[n]
  BY DEF Kept
<1> QED
  BY <1>1, <1>2, <1>3, <1>4 DEF Whole

\* What is left to show of a task that is not enqueued now: a result that is stored
\* is no success, or it names the file of a child that has succeeded.
LEMMA ResultKept ==
  ASSUME CacheShape, TasksInv, FilesInv, Kept, NEW n \in 1 .. Len(task),
         \/ result'[n] = result[n]
         \/ result'[n].state # "SUCCESS"
         \/ \E k \in Children :
               /\ child[k].phase = "succeeded" /\ Held(k) = n
               /\ result'[n].file = child[k].file
  PROVE  ResultOK(n)'
<1>1. ResultOK(n) /\ LogsInv /\ task'[n] = task[n]
  BY DEF FilesInv, TasksInv, Kept
<1>2. PICK name : name = result'[n].file
  OBVIOUS
<1>3. ASSUME ~IsEmail(n)
      PROVE  /\ task'[n].since \in 1 .. Len(history')
             /\ result'[n].state = "SUCCESS" => Whole(n, name)'
  <2>1. task[n].since \in 1 .. Len(history')
    BY <1>1, <1>3 DEF ResultOK, Kept, CacheShape
  <2>2. ASSUME result'[n].state = "SUCCESS" PROVE Whole(n, name)
    <3>1. CASE result'[n] = result[n]
      BY <1>1, <1>2, <1>3, <2>2, <3>1 DEF ResultOK
    <3>2. ASSUME NEW k \in Children, child[k].phase = "succeeded", Held(k) = n,
                 result'[n].file = child[k].file
          PROVE  Whole(n, name)
      BY <1>2, <1>3, <3>2 DEF FilesInv, ExportOK
    <3> QED BY <2>2, <3>1, <3>2
  <2>3. result'[n].state = "SUCCESS" => Whole(n, name)'
    BY <1>1, <1>3, <2>2, WholeKept
  <2> QED BY <1>1, <2>1, <2>3
<1>4. IsEmail(n)' = IsEmail(n)
  BY <1>1 DEF IsEmail
<1> QED
  BY <1>2, <1>3, <1>4 DEF ResultOK

\* A child that is left alone, while its open file is.
LEMMA ExportKept ==
  ASSUME CacheShape, TasksInv, FilesInv, Kept, NEW k \in Children, child'[k] = child[k],
         child[k].phase = "opened" =>
            /\ \E f \in files' : f.name = child[k].file /\ f.figures = None
            /\ \A q \in Children \ {k} :
                  child'[q].phase = "opened" => child'[q].file # child[k].file
  PROVE  ExportOK(k)'
<1> SUFFICES ASSUME child[k].phase \in {"computed", "opened", "succeeded"}
             PROVE  ExportOK(k)'
  BY DEF ExportOK
<1>1. PICK n \in 1 .. Len(task) : n = Held(k)
  BY ChildTyped
<1>2. n = Held(k)' /\ task'[n] = task[n] /\ ExportOK(k) /\ ResultOK(n) /\ LogsInv
  BY <1>1 DEF Held, Kept, FilesInv, TasksInv
<1>3. IsEmail(n)' = IsEmail(n)
  BY <1>2 DEF IsEmail
<1>4. PICK g, x : g = child[k].figures /\ x = child[k].file
  OBVIOUS
<1>5. child[k].phase \in {"computed", "opened"} => ~IsEmail(n) /\ Right(n, g)'
  BY <1>1, <1>2, <1>4, RightKept DEF ExportOK
<1>6. child[k].phase = "succeeded" /\ ~IsEmail(n) => Whole(n, x)'
  BY <1>1, <1>2, <1>4, WholeKept DEF ExportOK
<1> QED
  BY <1>1, <1>2, <1>3, <1>4, <1>5, <1>6 DEF ExportOK

\* A step that writes no file and opens none.
LEMMA FilesFrame ==
  ASSUME CacheShape, TasksInv, FilesInv, Kept, files' = files,
         \A k \in Children :
            \/ child'[k] = child[k]
            \/ child'[k].phase \notin {"computed", "opened", "succeeded"}
            \/ child'[k].phase = "succeeded" /\ (IsEmail(Held(k)))',
         \A n \in 1 .. Len(task) :
            \/ result'[n] = result[n]
            \/ result'[n].state # "SUCCESS"
            \/ \E k \in Children :
                  /\ child[k].phase = "succeeded" /\ Held(k) = n
                  /\ result'[n].file = child[k].file,
         \A n \in 1 .. Len(task') : n \in 1 .. Len(task) \/ ResultOK(n)'
  PROVE  FilesInv'
<1>1. ASSUME NEW k \in Children PROVE ExportOK(k)'
  <2>1. CASE child'[k] = child[k]
    <3>1. ExportOK(k)
      BY DEF FilesInv
    <3>2. ASSUME child[k].phase = "opened", NEW q \in Children \ {k}, child'[q].phase = "opened"
          PROVE  child'[q].file # child[k].file
      <4>1. child'[q] = child[q]
        BY <3>2
      <4> QED BY <3>1, <3>2, <4>1 DEF ExportOK
    <3> QED BY <2>1, <3>1, <3>2, ExportKept DEF ExportOK
  <2>2. CASE child'[k].phase \notin {"computed", "opened", "succeeded"}
    BY <2>2 DEF ExportOK
  <2>3. CASE child'[k].phase = "succeeded" /\ (IsEmail(Held(k)))'
    BY <2>3 DEF ExportOK
  <2> QED BY <2>1, <2>2, <2>3
<1>2. ASSUME NEW n \in 1 .. Len(task') PROVE ResultOK(n)'
  BY <1>2, ResultKept
<1>3. NamesInv'
  BY DEF FilesInv, NamesInv
<1> QED
  BY <1>1, <1>2, <1>3 DEF FilesInv

LEMMA NothingTaken ==
  ASSUME CacheShape, TasksInv, UNCHANGED <<history, task>>,
         \A f \in files : f.figures # None => f \in files'
  PROVE  Kept
<1>1. Len(history) \in Nat /\ Len(task) \in Nat
  BY LogsTyped DEF CacheShape, TasksInv
<1> QED
  BY <1>1 DEF Kept

\* The steps of a child that leave it with nothing of an export, or that end an
\* email.
LEMMA AsideStep ==
  ASSUME TasksAssumption, CacheShape, TasksInv, FilesInv, history' = history,
         NEW k \in Children,
         \/ \E m \in queue : Take(k, m)
         \/ LoadContext(k) \/ SendEmail(k) \/ SkipEmail(k) \/ Quit(k)
         \/ Raises(k) \/ QuitRaises(k) \/ Retry(k) \/ RetryRefused(k) \/ GiveUp(k)
         \/ Settle(k) \/ Acknowledge(k) \/ Killed(k) \/ Redeliver(k)
  PROVE  FilesInv'
<1>0. PICK V : child \in [Children -> Child(V)]
  BY DEF TasksInv, ChildrenInv
<1>1. UNCHANGED <<task, files>>
  BY DEF Take, LoadContext, SendEmail, SkipEmail, Quit, Raises, QuitRaises, Retry,
         RetryRefused, GiveUp, Settle, Acknowledge, Killed, Redeliver,
         alertVars, brokerVars, workVars
<1>2. ASSUME NEW q \in Children
      PROVE  \/ child'[q] = child[q]
             \/ child'[q].phase \notin {"computed", "opened", "succeeded"}
             \/ child'[q].phase = "succeeded" /\ (IsEmail(Held(q)))'
  <2>1. CASE q # k
    <3>1. \/ \E c : child' = [child EXCEPT ![k] = c]
          \/ \E phase : child' = [child EXCEPT ![k].phase = phase]
          \/ \E phase, v : child' = [child EXCEPT ![k].phase = phase, ![k].version = v]
          \/ child' = child
      <4>1. CASE (\E m \in queue : Take(k, m)) \/ Acknowledge(k) \/ Killed(k)
        BY <4>1 DEF Take, Acknowledge, Killed
      <4>2. CASE \/ SendEmail(k) \/ Quit(k) \/ Raises(k) \/ QuitRaises(k) \/ Retry(k)
                 \/ RetryRefused(k) \/ GiveUp(k) \/ Settle(k)
        BY <4>2 DEF SendEmail, Quit, Raises, QuitRaises, Retry, RetryRefused, GiveUp,
                    Settle, Moves
      <4>3. CASE LoadContext(k) \/ SkipEmail(k)
        BY <4>3 DEF LoadContext, SkipEmail
      <4>4. CASE Redeliver(k)
        BY <4>4 DEF Redeliver
      <4> QED BY <4>1, <4>2, <4>3, <4>4
    <3> QED BY <1>0, <2>1, <3>1
  <2>2. ASSUME q = k, \E m \in queue : Take(k, m)
        PROVE  child'[q].phase \notin {"computed", "opened", "succeeded"}
    <3>1. PICK m, c : c = [[Free EXCEPT !.phase = "started"] EXCEPT !.message = m]
                      /\ child' = [child EXCEPT ![k] = c]
      BY <2>2 DEF Take
    <3>2. c.phase = "started"
      BY <3>1 DEF Free
    <3> QED BY <1>0, <2>2, <3>1, <3>2
  <2>3. ASSUME q = k, Acknowledge(k) \/ Killed(k)
        PROVE  child'[q].phase \notin {"computed", "opened", "succeeded"}
    BY <1>0, <2>3 DEF Acknowledge, Killed, Free
  <2>4. ASSUME q = k, Redeliver(k) PROVE child'[q] = child[q]
    BY <2>4 DEF Redeliver
  <2>5. ASSUME q = k,
               \/ LoadContext(k) \/ SendEmail(k) \/ Raises(k) \/ QuitRaises(k)
               \/ Retry(k) \/ RetryRefused(k) \/ GiveUp(k) \/ Settle(k)
        PROVE  child'[q].phase \notin {"computed", "opened", "succeeded"}
    BY <1>0, <2>5 DEF LoadContext, SendEmail, Raises, QuitRaises, Retry, RetryRefused,
                      GiveUp, Settle, Moves, Child
  <2>6. ASSUME q = k, SkipEmail(k) \/ Quit(k)
        PROVE  child'[q].phase = "succeeded" /\ (IsEmail(Held(q)))'
    <3>1. IsEmail(Held(k))
      BY <2>6 DEF SkipEmail, Quit, TasksInv, ChildrenInv, ChildOK
    <3>2. child'[k].phase = "succeeded" /\ child'[k].message = child[k].message
      BY <1>0, <2>6 DEF SkipEmail, Quit, Moves, Child
    <3> QED BY <1>1, <2>6, <3>1, <3>2 DEF IsEmail, Held
  <2> QED BY <2>1, <2>2, <2>3, <2>4, <2>5, <2>6
<1>3. ASSUME NEW n \in 1 .. Len(task)
      PROVE  \/ result'[n] = result[n]
             \/ result'[n].state # "SUCCESS"
             \/ \E q \in Children :
                   /\ child[q].phase = "succeeded" /\ Held(q) = n
                   /\ result'[n].file = child[q].file
  <2>1. CASE \/ LoadContext(k) \/ SendEmail(k) \/ SkipEmail(k) \/ Quit(k) \/ Raises(k)
             \/ QuitRaises(k) \/ Retry(k) \/ RetryRefused(k) \/ GiveUp(k) \/ Acknowledge(k)
             \/ Redeliver(k)
    BY <2>1 DEF LoadContext, SendEmail, SkipEmail, Quit, Raises, QuitRaises, Retry,
         RetryRefused, GiveUp, Acknowledge, Redeliver, brokerVars
  <2>2. ASSUME NEW r, NEW h, result' = Stored(h, r),
               \/ r.state # "SUCCESS"
               \/ child[k].phase = "succeeded" /\ h = Held(k) /\ r.file = child[k].file
        PROVE  \/ result'[n] = result[n]
               \/ result'[n].state # "SUCCESS"
               \/ \E q \in Children :
                     /\ child[q].phase = "succeeded" /\ Held(q) = n
                     /\ result'[n].file = child[q].file
    <3>1. n \in DOMAIN result
      BY LogsTyped DEF TasksInv
    <3>2. \/ result'[n] = result[n]
          \/ result'[n] = r /\ h = n
      BY <2>2, <3>1 DEF Stored
    <3> QED BY <2>2, <3>2
  <2>3. CASE Settle(k)
    <3>1. CASE child[k].phase = "rejected"
      <4>1. result' = result
        BY <2>3, <3>1 DEF Settle, StateOf
      <4> QED BY <4>1
    <3>2. CASE child[k].phase # "rejected"
      <4>1. PICK r : r = [state |-> StateOf[child[k].phase], file |-> child[k].file]
        OBVIOUS
      <4>2. result' = Stored(Held(k), r) /\ child[k].phase \in DOMAIN StateOf
        BY <2>3, <3>2, <4>1 DEF Settle
      <4>3. r.state # "SUCCESS" \/ (child[k].phase = "succeeded" /\ r.file = child[k].file)
        BY <4>1, <4>2 DEF StateOf
      <4> QED BY <2>2, <4>2, <4>3
    <3> QED BY <3>1, <3>2
  <2>4. CASE Killed(k)
    <3>1. PICK r : r = [state |-> "FAILURE", file |-> None]
      OBVIOUS
    <3>2. result' = Stored(Held(k), r) /\ r.state # "SUCCESS"
      BY <2>4, <3>1 DEF Killed
    <3> QED BY <2>2, <3>2
  <2>5. CASE \E m \in queue : Take(k, m)
    <3>1. PICK m, r : r = [state |-> "STARTED", file |-> None] /\ result' = Stored(m.task, r)
      BY <2>5 DEF Take
    <3> QED BY <2>2, <3>1
  <2> QED BY <2>1, <2>3, <2>4, <2>5
<1>4. Kept
  BY <1>1, NothingTaken
<1> QED
  BY <1>1, <1>2, <1>3, <1>4, FilesFrame

\* A task that is enqueued has no result, and an export is asked for of the stock
\* there is.
LEMMA AskedStep ==
  ASSUME TasksAssumption, CacheShape, TasksInv, FilesInv, history' = history,
         NEW t, Enqueue(t), t.kind # "email" => t.since = Len(history),
         UNCHANGED <<child, files>>
  PROVE  FilesInv'
<1>1. PICK N \in Nat : N = Len(task)
  BY LogsTyped DEF TasksInv
<1>2. /\ Len(task') = N + 1 /\ task'[N + 1] = t
      /\ \A n \in 1 .. N : task'[n] = task[n]
  <2> DEFINE T == Task
  <2>1. task \in Seq(T)
    BY DEF TasksInv, LogsInv
  <2> HIDE DEF T
  <2> QED BY <1>1, <2>1 DEF Enqueue
<1>3. /\ result'[N + 1] = Pending
      /\ \A n \in 1 .. N : result'[n] = result[n]
  <2>1. PICK V : result \in Seq([state : States, file : V])
    BY DEF TasksInv, LogsInv
  <2> DEFINE R == [state : States, file : V]
  <2>2. result \in Seq(R) /\ Len(result) = N
    BY <1>1, <2>1 DEF TasksInv, LogsInv
  <2> HIDE DEF R
  <2> QED BY <1>1, <2>2 DEF Enqueue
<1>4. Len(history) \in Nat /\ Len(history) \in 1 .. Len(history)
  BY DEF CacheShape
<1>5. Kept
  BY <1>1, <1>2, <1>4 DEF Kept
<1>6. ASSUME NEW n \in 1 .. Len(task') PROVE n \in 1 .. Len(task) \/ ResultOK(n)'
  <2>1. CASE n = N + 1
    <3>1. result'[n].state # "SUCCESS"
      BY <1>3, <2>1 DEF Pending
    <3>2. ~IsEmail(n)' => task'[n].since \in 1 .. Len(history')
      BY <1>2, <1>4, <2>1 DEF IsEmail
    <3> QED BY <3>1, <3>2 DEF ResultOK
  <2> QED BY <1>1, <1>2, <2>1
<1>7. \A n \in 1 .. Len(task) : result'[n] = result[n]
  BY <1>1, <1>3
<1> QED
  BY <1>5, <1>6, <1>7, FilesFrame

\* The report of an export is that of the committed stock.
LEMMA ComputeStep ==
  ASSUME TasksAssumption, ReportsAssumption, BackOfficeAssumption,
         CacheShape, TasksInv, FilesInv, history' = history, NEW k \in Children,
         ComputeReport(k)
  PROVE  FilesInv'
<1>1. PICK n \in 1 .. Len(task) : n = Held(k)
  BY ChildTyped DEF ComputeReport
<1>2. /\ UNCHANGED <<task, files, result>> /\ child[k].phase = "started" /\ ~IsEmail(n)
      /\ task[n] \in Task /\ ResultOK(n)
  BY <1>1, ChildTyped DEF ComputeReport, brokerVars, workVars, FilesInv
<1>3. PICK kind \in Kinds : kind = task[n].about
  BY <1>1, <1>2 DEF ComputeReport, Task, IsEmail
<1>4. PICK g : g = Figures(kind, Stock)
  OBVIOUS
<1>5. Len(history) \in task[n].since .. Len(history) /\ IsStock(Stock)
  <2>1. Len(history) \in Nat \ {0} /\ history[Len(history)] \in Stamped
    BY DEF CacheShape
  <2>2. Stock \in Stocks
    BY <2>1 DEF Stamped, Stock
  <2> QED BY <1>2, <2>1, <2>2 DEF IsStock, BackOfficeAssumption, ResultOK
<1>6. g \in Report(kind) /\ Means(kind, g, Stock)
  BY <1>4, <1>5, FiguresMean
<1>7. g # None
  BY <1>6 DEF TasksAssumption
<1>8. Right(n, g)
  BY <1>3, <1>5, <1>6, <1>7 DEF Right, Stock
<1>9. Kept
  BY <1>2, NothingTaken
<1>10. /\ child'[k].phase = "computed" /\ child'[k].figures = g /\ Held(k)' = n
       /\ \A q \in Children \ {k} : child'[q] = child[q]
  <2>1. PICK V : child \in [Children -> Child(V)]
    BY DEF TasksInv, ChildrenInv
  <2> QED BY <1>1, <1>3, <1>4, <2>1 DEF ComputeReport, Child, Held
<1>11. ASSUME NEW q \in Children PROVE ExportOK(q)'
  <2>1. CASE q = k
    <3>1. Right(n, g)'
      BY <1>2, <1>8, <1>9, RightKept DEF TasksInv
    <3>2. ~IsEmail(n)'
      BY <1>2 DEF IsEmail
    <3> QED BY <1>10, <2>1, <3>1, <3>2 DEF ExportOK
  <2>2. CASE q # k
    <3>1. ExportOK(q) /\ child'[q] = child[q]
      BY <1>10, <2>2 DEF FilesInv
    <3>2. ASSUME child[q].phase = "opened", NEW p \in Children \ {q}, child'[p].phase = "opened"
          PROVE  child'[p].file # child[q].file
      <4>1. child'[p] = child[p]
        BY <1>10, <3>2
      <4> QED BY <3>1, <3>2, <4>1 DEF ExportOK
    <3> QED BY <1>2, <1>9, <3>1, <3>2, ExportKept DEF ExportOK
  <2> QED BY <2>1, <2>2
<1>12. \A p \in 1 .. Len(task') : ResultOK(p)'
  BY <1>2, <1>9, ResultKept
<1>13. NamesInv'
  BY <1>2 DEF FilesInv, NamesInv
<1> QED
  BY <1>11, <1>12, <1>13 DEF FilesInv

\* A file is opened under a name that none has.
LEMMA OpenFileStep ==
  ASSUME TasksAssumption, CacheShape, TasksInv, FilesInv, history' = history,
         NEW k \in Children, OpenFile(k)
  PROVE  FilesInv'
<1> DEFINE N == Cardinality(files)
<1>1. PICK n \in 1 .. Len(task) : n = Held(k)
  BY ChildTyped DEF OpenFile
<1>2. PICK e : e = [name |-> N + 1, kind |-> task[n].about, figures |-> None]
  OBVIOUS
<1>3. N \in Nat /\ NamesInv /\ ExportOK(k)
  BY FS_CardinalityType DEF FilesInv, NamesInv
<1>4. /\ UNCHANGED <<task, result>> /\ child[k].phase = "computed"
      /\ files' = files \cup {e} /\ e \notin files
  <2>1. \A f \in files : f.name # N + 1
    BY <1>3 DEF NamesInv
  <2> QED BY <1>1, <1>2, <2>1 DEF OpenFile, FileName, brokerVars
<1>5. Kept
  BY <1>4, NothingTaken
<1>6. NamesInv'
  <2>1. IsFiniteSet(files') /\ Cardinality(files') = N + 1
    BY <1>3, <1>4, FS_AddElement DEF NamesInv
  <2>2. \A f \in files' : f.name \in 1 .. N + 1
    BY <1>2, <1>3, <1>4 DEF NamesInv
  <2>3. \A f, g \in files' : f.name = g.name => f = g
    <3>1. e.name = N + 1 /\ \A f \in files : f.name \in 1 .. N
      BY <1>2, <1>3 DEF NamesInv
    <3>2. \A f \in files : f.name # e.name
      BY <1>3, <3>1
    <3> QED BY <1>3, <1>4, <3>2 DEF NamesInv
  <2> QED BY <2>1, <2>2, <2>3 DEF NamesInv
<1>7. /\ child'[k].phase = "opened" /\ child'[k].figures = child[k].figures
      /\ child'[k].file = N + 1 /\ Held(k)' = n
      /\ \A q \in Children \ {k} : child'[q] = child[q]
  <2>1. PICK V : child \in [Children -> Child(V)]
    BY DEF TasksInv, ChildrenInv
  <2> QED BY <1>1, <2>1 DEF OpenFile, FileName, Child, Held
<1>8. ASSUME NEW q \in Children \ {k}, child[q].phase = "opened"
      PROVE  /\ \E f \in files : f.name = child[q].file /\ f.figures = None
             /\ child[q].file # N + 1
  <2>1. PICK f \in files : f.name = child[q].file /\ f.figures = None
    BY <1>8 DEF FilesInv, ExportOK
  <2>2. f.name \in 1 .. N
    BY <1>3 DEF NamesInv
  <2> QED BY <1>3, <2>1, <2>2
<1>9. ASSUME NEW q \in Children PROVE ExportOK(q)'
  <2>1. CASE q = k
    <3>1. PICK g : g = child[k].figures
      OBVIOUS
    <3>2. ~IsEmail(n) /\ Right(n, g) /\ ResultOK(n)
      BY <1>1, <1>3, <1>4, <3>1 DEF ExportOK, FilesInv
    <3>3. Right(n, g)' /\ ~IsEmail(n)'
      BY <1>4, <1>5, <3>2, RightKept DEF TasksInv, IsEmail
    <3>4. e \in files' /\ e.name = child'[k].file /\ e.figures = None
      BY <1>2, <1>4, <1>7
    <3>5. \A p \in Children \ {k} : child'[p].phase = "opened" => child'[p].file # child'[k].file
      BY <1>7, <1>8
    <3> QED BY <1>7, <2>1, <3>1, <3>3, <3>4, <3>5 DEF ExportOK
  <2>2. CASE q # k
    <3>1. ExportOK(q) /\ child'[q] = child[q]
      BY <1>7, <2>2 DEF FilesInv
    <3>2. ASSUME child[q].phase = "opened", NEW p \in Children \ {q}, child'[p].phase = "opened"
          PROVE  child'[p].file # child[q].file
      <4>1. CASE p = k
        BY <1>7, <1>8, <2>2, <3>2, <4>1
      <4>2. CASE p # k
        BY <1>7, <3>1, <3>2, <4>2 DEF ExportOK
      <4> QED BY <4>1, <4>2
    <3>3. child[q].phase = "opened" =>
             \E f \in files' : f.name = child[q].file /\ f.figures = None
      BY <1>4, <1>8, <2>2
    <3> QED BY <1>5, <3>1, <3>2, <3>3, ExportKept
  <2> QED BY <2>1, <2>2
<1>10. \A p \in 1 .. Len(task') : ResultOK(p)'
  BY <1>4, <1>5, ResultKept
<1> QED
  BY <1>6, <1>9, <1>10 DEF FilesInv

\* Of the files only the child's own is written.
LEMMA WriteRowsStep ==
  ASSUME TasksAssumption, CacheShape, TasksInv, FilesInv, history' = history,
         NEW k \in Children, WriteRows(k)
  PROVE  FilesInv'
<1>1. PICK n \in 1 .. Len(task) : n = Held(k)
  BY ChildTyped DEF WriteRows
<1>2. PICK g, x : g = child[k].figures /\ x = child[k].file
  OBVIOUS
<1>3. PICK e : e = [name |-> x, kind |-> task[n].about, figures |-> g]
  OBVIOUS
<1>4. /\ UNCHANGED <<task, result>> /\ child[k].phase = "opened"
      /\ files' = {f \in files : f.name # x} \cup {e}
  BY <1>1, <1>2, <1>3 DEF WriteRows, brokerVars
<1>5. NamesInv /\ ExportOK(k) /\ ResultOK(n) /\ IsFiniteSet(files)
  BY DEF FilesInv, NamesInv
<1>6. PICK o \in files : o.name = x /\ o.figures = None
  BY <1>2, <1>4, <1>5 DEF ExportOK
<1>7. /\ ~IsEmail(n) /\ Right(n, g)
      /\ \A q \in Children \ {k} : child[q].phase = "opened" => child[q].file # x
  BY <1>1, <1>2, <1>4, <1>5 DEF ExportOK
<1>8. files' = (files \ {o}) \cup {e} /\ \A f \in files \ {o} : f.name # x
  <2>1. \A f \in files : f.name # x <=> f # o
    BY <1>5, <1>6 DEF NamesInv
  <2> QED BY <1>4, <2>1
<1>9. Kept
  BY <1>4, <1>6, <1>8, NothingTaken
<1>10. NamesInv'
  <2>1. e.name = x /\ e \notin files \ {o}
    BY <1>3, <1>8
  <2>2. IsFiniteSet(files') /\ Cardinality(files') = Cardinality(files)
    <3>1. IsFiniteSet(files \ {o}) /\ Cardinality(files \ {o}) = Cardinality(files) - 1
          /\ Cardinality(files) \in Nat
      BY <1>5, <1>6, FS_RemoveElement, FS_CardinalityType
    <3>2. IsFiniteSet(files') /\ Cardinality(files') = Cardinality(files \ {o}) + 1
      BY <1>8, <2>1, <3>1, FS_AddElement
    <3> QED BY <3>1, <3>2
  <2>3. \A f \in files' : f.name \in 1 .. Cardinality(files)
    BY <1>5, <1>6, <1>8, <2>1 DEF NamesInv
  <2>4. \A f, h \in files' : f.name = h.name => f = h
    BY <1>5, <1>8, <2>1 DEF NamesInv
  <2> QED BY <2>2, <2>3, <2>4 DEF NamesInv
<1>11. /\ child'[k].phase = "succeeded" /\ child'[k].file = x /\ Held(k)' = n
       /\ \A q \in Children \ {k} : child'[q] = child[q]
  <2>1. PICK V : child \in [Children -> Child(V)]
    BY DEF TasksInv, ChildrenInv
  <2> QED BY <1>1, <1>2, <2>1 DEF WriteRows, Moves, Child, Held
<1>12. Whole(n, x)'
  <2>1. Right(n, g)'
    BY <1>5, <1>7, <1>9, RightKept DEF TasksInv
  <2>2. e \in files' /\ e.name = x /\ e.kind = task'[n].about /\ e.figures = g
    BY <1>3, <1>4, <1>8
  <2> QED BY <2>1, <2>2 DEF Whole
<1>13. ASSUME NEW q \in Children PROVE ExportOK(q)'
  <2>1. CASE q = k
    BY <1>11, <1>12, <2>1 DEF ExportOK
  <2>2. CASE q # k
    <3>1. ExportOK(q) /\ child'[q] = child[q]
      BY <1>11, <2>2 DEF FilesInv
    <3>2. ASSUME child[q].phase = "opened", NEW p \in Children \ {q}, child'[p].phase = "opened"
          PROVE  child'[p].file # child[q].file
      <4>1. p # k /\ child'[p] = child[p]
        BY <1>11, <3>2
      <4> QED BY <3>1, <3>2, <4>1 DEF ExportOK
    <3>3. ASSUME child[q].phase = "opened"
          PROVE  \E f \in files' : f.name = child[q].file /\ f.figures = None
      <4>1. PICK f \in files : f.name = child[q].file /\ f.figures = None
        BY <3>1, <3>3 DEF ExportOK
      <4>2. f.name # x
        BY <1>7, <2>2, <3>3, <4>1
      <4> QED BY <1>4, <4>1, <4>2
    <3> QED BY <1>9, <3>1, <3>2, <3>3, ExportKept
  <2> QED BY <2>1, <2>2
<1>14. \A p \in 1 .. Len(task') : ResultOK(p)'
  BY <1>4, <1>9, ResultKept
<1> QED
  BY <1>10, <1>13, <1>14 DEF FilesInv

LEMMA FilesInit ==
  ASSUME Init
  PROVE  FilesInv
<1>1. task = <<>> /\ files = {} /\ \A k \in Children : child[k].phase = "idle"
  BY DEF Init, TasksInit, Free
<1>2. IsFiniteSet(files)
  BY <1>1, FS_EmptySet
<1> QED
  BY <1>1, <1>2 DEF FilesInv, NamesInv, ExportOK

LEMMA FilesStep ==
  ASSUME TasksAssumption, ReportsAssumption, BackOfficeAssumption,
         CacheShape, TasksInv, FilesInv, [Next]_vars
  PROVE  FilesInv'
<1>1. CASE UNCHANGED taskVars /\ (history' = history \/ \E s \in Stocks : E!CommitStock(s))
  <2>1. UNCHANGED <<task, result, child, files>>
    BY <1>1 DEF taskVars
  <2>2. Kept
    <3>1. history \in Seq(Stamped) /\ Len(task) \in Nat
      BY LogsTyped DEF CacheShape, TasksInv
    <3>2. CASE history' = history
      BY <2>1, <3>2, NothingTaken
    <3>3. ASSUME NEW s \in Stocks, E!CommitStock(s) PROVE Kept
      BY <2>1, <3>1, <3>3 DEF E!CommitStock, Kept
    <3> QED BY <1>1, <3>2, <3>3
  <2> QED BY <2>1, <2>2, FilesFrame
<1>2. CASE TasksNext /\ history' = history
  <2>1. ASSUME NEW a \in Alerts, CommitAlert(a) PROVE FilesInv'
    <3>1. UNCHANGED <<task, result, child, files>>
      BY <2>1 DEF CommitAlert, brokerVars, workVars
    <3> QED BY <1>2, <3>1, NothingTaken, FilesFrame
  <2>2. ASSUME NEW x \in reacting, EnqueueFails(x) PROVE FilesInv'
    <3>1. UNCHANGED <<task, result, child, files>>
      BY <2>2 DEF EnqueueFails, brokerVars, workVars
    <3> QED BY <1>2, <3>1, NothingTaken, FilesFrame
  <2>3. ASSUME NEW x \in reacting, EnqueueNotification(x) PROVE FilesInv'
    <3>1. PICK t : t = [kind |-> "email", about |-> x.about, since |-> x.version]
      OBVIOUS
    <3>2. Enqueue(t) /\ UNCHANGED <<child, files>> /\ t.kind = "email"
      BY <2>3, <3>1 DEF EnqueueNotification
    <3> QED BY <1>2, <3>2, AskedStep
  <2>4. ASSUME EnqueueExport PROVE FilesInv'
    <3>1. PICK t : t = [kind |-> "export", about |-> Head(orders.exports), since |-> Len(history)]
      OBVIOUS
    <3>2. Enqueue(t) /\ UNCHANGED <<child, files>> /\ t.since = Len(history)
      BY <2>4, <3>1 DEF EnqueueExport
    <3> QED BY <1>2, <3>2, AskedStep
  <2>5. ASSUME WorkerDies PROVE FilesInv'
    <3>1. UNCHANGED <<task, result, files>> /\ \A k \in Children : child'[k].phase = "idle"
      BY <2>5 DEF WorkerDies, Free
    <3> QED BY <1>2, <3>1, NothingTaken, FilesFrame
  <2>6. ASSUME NEW k \in Children,
               \/ \E m \in queue : Take(k, m)
               \/ LoadContext(k) \/ SendEmail(k) \/ SkipEmail(k) \/ Quit(k)
               \/ Raises(k) \/ QuitRaises(k) \/ Retry(k) \/ RetryRefused(k) \/ GiveUp(k)
               \/ Settle(k) \/ Acknowledge(k) \/ Killed(k) \/ Redeliver(k)
        PROVE  FilesInv'
    BY <1>2, <2>6, AsideStep
  <2>7. ASSUME NEW k \in Children, ComputeReport(k) PROVE FilesInv'
    BY <1>2, <2>7, ComputeStep
  <2>8. ASSUME NEW k \in Children, OpenFile(k) PROVE FilesInv'
    BY <1>2, <2>8, OpenFileStep
  <2>9. ASSUME NEW k \in Children, WriteRows(k) PROVE FilesInv'
    BY <1>2, <2>9, WriteRowsStep
  <2> QED BY <1>2, <2>1, <2>2, <2>3, <2>4, <2>5, <2>6, <2>7, <2>8, <2>9 DEF TasksNext
<1>3. CASE E!Next /\ UNCHANGED taskVars
  <2>1. history' = history \/ \E s \in Stocks : E!CommitStock(s)
    BY <1>3 DEF E!Next, E!Tick, E!Ask, E!Hit, E!Miss, E!Bypass, E!Generate, E!GenerateRaises,
                E!Write, E!WriteFails
  <2> QED BY <1>1, <1>3, <2>1
<1>4. CASE L!Next /\ UNCHANGED taskVars
  <2>1. history' = history
    BY <1>4 DEF L!Next, L!Ask, L!NextPage
  <2> QED BY <1>1, <1>4, <2>1
<1>5. CASE UNCHANGED vars
  BY <1>1, <1>5 DEF vars
<1> QED
  BY <1>2, <1>3, <1>4, <1>5 DEF Next

-----------------------------------------------------------------------------
(* The movement history. *)

\* The movements a listing has now, and those it has before movement i.
Rows(by) == {i \in L!Movements : L!Matches(by, i)}
Above(by, i) == {j \in Rows(by) : began[j - 1] > began[i - 1]}

\* Transactions begin at different times; each commit there may be has one.
BeganInv ==
    \E C \in Nat :
        /\ began \in [1 .. C -> Nat] /\ Len(history) + left.commits = C + 1
        /\ \A i, j \in 1 .. C : began[i] = began[j] => i = j

\* A filtered listing that has been read so far: a movement that was there when it
\* was asked for has been read, or has as many movements before it as were read.
Reading(by, rows, since) ==
    /\ since \in 1 .. Len(history) /\ rows \in Seq(Rows(by))
    /\ Len(rows) <= Cardinality(Rows(by))
    /\ Len(rows) <= Cardinality(L!Range(rows)) + (Len(history) - since)
    /\ \A i \in Rows(by) : i <= since =>
          i \in L!Range(rows) \/ Len(rows) <= Cardinality(Above(by, i))

ReaderOK(c) ==
    reading[c].phase # "idle" /\ reading[c].by # L!Everything =>
        /\ Reading(reading[c].by, reading[c].rows, reading[c].since)
        /\ reading[c].phase = "read" =>
              \A i \in Rows(reading[c].by) :
                  i <= reading[c].since => i \in L!Range(reading[c].rows)

ListsInv ==
    /\ BeganInv
    /\ \E R : reading \in [Readers -> [phase : {"idle", "paging", "read"}, by : R,
                                       rows : R, since : R]]
    /\ \A c \in Readers : ReaderOK(c)

\* MovementHistory's Cardinality is the one the theorems about finite sets know.
LEMMA SameSize == ASSUME NEW S PROVE L!Cardinality(S) = Cardinality(S)
BY DEF L!Cardinality, Cardinality, L!IsFiniteSet, IsFiniteSet

LEMMA RowsTyped ==
  ASSUME CacheShape, NEW by
  PROVE  /\ Len(history) \in Nat /\ Rows(by) \subseteq 2 .. Len(history)
         /\ IsFiniteSet(Rows(by)) /\ Cardinality(Rows(by)) \in Nat
         /\ \A i : /\ IsFiniteSet(Above(by, i)) /\ Above(by, i) \subseteq Rows(by)
                   /\ Cardinality(Above(by, i)) \in Nat
<1>1. Len(history) \in Nat /\ Rows(by) \subseteq 2 .. Len(history)
  BY DEF CacheShape, Rows, L!Movements
<1>2. IsFiniteSet(Rows(by))
  <2>1. IsFiniteSet(2 .. Len(history))
    BY <1>1, FS_Interval
  <2> QED BY <1>1, <2>1, FS_Subset
<1>3. ASSUME NEW i PROVE Above(by, i) \subseteq Rows(by)
  BY DEF Above
<1> QED
  BY <1>1, <1>2, <1>3, FS_Subset, FS_CardinalityType

\* The place of a movement in a listing is told by those before it.
LEMMA Rank ==
  ASSUME CacheShape, BeganInv, NEW by, by # L!Everything, NEW s \in L!Listed(by),
         NEW N, N = Cardinality(Rows(by))
  PROVE  /\ N \in Nat /\ s \in [1 .. N -> Rows(by)] /\ s \in Seq(Rows(by)) /\ Len(s) = N
         /\ \A p, q \in 1 .. N : s[p] = s[q] => p = q
         /\ \A i \in Rows(by) : \E p \in 1 .. N : s[p] = i
         /\ \A p \in 1 .. N : Cardinality(Above(by, s[p])) = p - 1
<1> DEFINE R == Rows(by)
<1>1. N \in Nat /\ IsFiniteSet(R) /\ R \subseteq 2 .. Len(history) /\ Len(history) \in Nat
  BY RowsTyped
<1>2. /\ s \in [1 .. N -> R]
      /\ \A p, q \in 1 .. N : p # q => s[p] # s[q]
      /\ \A p, q \in 1 .. N : p < q => began[s[p] - 1] >= began[s[q] - 1]
  <2>1. s \in L!SetToSeqs(R) /\ \A p, q \in DOMAIN s : p < q => began[s[p] - 1] >= began[s[q] - 1]
    BY DEF L!Listed, Rows
  <2>2. s \in [1 .. N -> R] /\ \A p, q \in 1 .. N : p # q => s[p] # s[q]
    <3> HIDE DEF R
    <3>1. s \in [1 .. Cardinality(R) -> R]
          /\ \A p, q \in 1 .. Cardinality(R) : p # q => s[p] # s[q]
      BY <2>1, SameSize DEF L!SetToSeqs
    <3>2. Cardinality(R) = N
      BY DEF R
    <3> QED BY <3>1, <3>2
  <2>3. DOMAIN s = 1 .. N
    BY <2>2
  <2> QED BY <2>1, <2>2, <2>3
<1>3. s \in Seq(R) /\ Len(s) = N
  <2> HIDE DEF R
  <2> QED BY <1>1, <1>2
<1>4. ASSUME NEW i \in R PROVE \E p \in 1 .. N : s[p] = i
  <2>1. s \in Injection(1 .. N, R)
    BY <1>2 DEF Injection, IsInjective
  <2>2. Cardinality(1 .. N) = N
    <3>1. N \in Int /\ 1 \in Int /\ (1 > N => N = 0) /\ N - 1 + 1 = N
      BY <1>1
    <3> QED BY <3>1, FS_Interval
  <2>3. s \in Surjection(1 .. N, R)
    <3>1. Cardinality(R) = N
      OBVIOUS
    <3> HIDE DEF R
    <3>2. Cardinality(1 .. N) = Cardinality(R) <=> s \in Surjection(1 .. N, R)
      BY <1>1, <2>1, FS_Injection
    <3> QED BY <2>2, <3>1, <3>2
  <2> QED BY <2>3 DEF Surjection
<1>5. ASSUME NEW i \in R, NEW j \in R, i # j
      PROVE  /\ began[i - 1] \in Nat /\ began[j - 1] \in Nat /\ began[i - 1] # began[j - 1]
  <2>1. PICK C \in Nat :
          /\ began \in [1 .. C -> Nat] /\ Len(history) + left.commits = C + 1
          /\ \A a, b \in 1 .. C : began[a] = began[b] => a = b
    BY DEF BeganInv
  <2>2. left.commits \in Nat
    BY DEF CacheShape
  <2>3. Len(history) <= C + 1
    BY <1>1, <2>1, <2>2
  <2>4. i \in 2 .. Len(history) /\ j \in 2 .. Len(history) /\ i # j
    BY <1>1, <1>5
  <2>5. i - 1 \in 1 .. C /\ j - 1 \in 1 .. C /\ i - 1 # j - 1
    BY <1>1, <2>3, <2>4
  <2> QED BY <2>1, <2>5
<1>6. ASSUME NEW p \in 1 .. N PROVE Cardinality(Above(by, s[p])) = p - 1
  <2> DEFINE D == 1 .. p - 1
             A == Above(by, s[p])
             g == [q \in D |-> s[q]]
  <2>1. ASSUME NEW q \in D PROVE s[q] \in A
    <3>1. q \in 1 .. N /\ q < p /\ q # p
      BY <1>1
    <3>2. s[q] \in R /\ s[p] \in R /\ s[q] # s[p] /\ began[s[q] - 1] >= began[s[p] - 1]
      BY <1>2, <3>1
    <3>3. began[s[q] - 1] > began[s[p] - 1]
      BY <1>5, <3>2
    <3> QED BY <3>2, <3>3 DEF Above
  <2>2. ASSUME NEW j \in A PROVE \E q \in D : s[q] = j
    <3>1. j \in R /\ began[j - 1] > began[s[p] - 1]
      BY DEF Above
    <3>2. PICK q \in 1 .. N : s[q] = j
      BY <1>4, <3>1
    <3>3. s[p] \in R /\ j # s[p]
      <4>1. s[p] \in R
        BY <1>2
      <4>2. ASSUME j = s[p] PROVE FALSE
        <5>1. PICK x : x = began[j - 1]
          OBVIOUS
        <5>2. x > x
          BY <3>1, <4>2, <5>1
        <5>3. x \in Nat
          <6>1. PICK C \in Nat :
                  began \in [1 .. C -> Nat] /\ Len(history) + left.commits = C + 1
            BY DEF BeganInv
          <6>2. left.commits \in Nat
            BY DEF CacheShape
          <6>3. j - 1 \in 1 .. C
            BY <1>1, <3>1, <6>1, <6>2
          <6> QED BY <5>1, <6>1, <6>3
        <5> QED BY <5>2, <5>3
      <4> QED BY <4>1, <4>2
    <3>4. began[j - 1] \in Nat /\ began[s[p] - 1] \in Nat
      BY <1>5, <3>1, <3>3
    <3>5. ~(p < q)
      <4>1. p < q => began[s[p] - 1] >= began[s[q] - 1]
        BY <1>2
      <4> QED BY <3>1, <3>2, <3>4, <4>1
    <3>6. p # q
      BY <3>2, <3>3
    <3> QED BY <1>1, <3>2, <3>5, <3>6
  <2>3. g \in Bijection(D, A)
    <3>1. g \in [D -> A]
      BY <2>1
    <3>2. \A a, b \in D : g[a] = g[b] => a = b
      BY <1>1, <1>2
    <3>3. \A j \in A : \E q \in D : g[q] = j
      BY <2>2
    <3> HIDE DEF D, A, g
    <3> QED BY <3>1, <3>2, <3>3 DEF Bijection, Injection, Surjection, IsInjective
  <2>4. IsFiniteSet(D) /\ Cardinality(D) = p - 1
    <3>1. p - 1 \in Nat
      BY <1>1
    <3> QED BY <3>1, FS_Interval
  <2> HIDE DEF D, A, g
  <2>5. Cardinality(A) = Cardinality(D)
    BY <2>3, <2>4, FS_Bijection DEF ExistsBijection
  <2> QED BY <2>4, <2>5 DEF A
<1> QED
  BY <1>1, <1>2, <1>3, <1>4, <1>6

\* A commit may put a movement before those that were read, and takes none away.
LEMMA ReadingGrows ==
  ASSUME CacheShape, BeganInv, NEW s \in Stocks, E!CommitStock(s), began' = began,
         NEW by, NEW rows, NEW since, Reading(by, rows, since)
  PROVE  /\ Reading(by, rows, since)'
         /\ \A i \in Rows(by)' : i <= since => i \in Rows(by)
<1> DEFINE N == Len(history)
<1>1. /\ N \in Nat /\ Len(history') = N + 1
      /\ \A i \in 1 .. N : history'[i] = history[i]
  BY DEF CacheShape, E!CommitStock
<1>2. ASSUME NEW i \in 2 .. N PROVE L!Matches(by, i)' <=> L!Matches(by, i)
  <2>1. i \in 1 .. N /\ i - 1 \in 1 .. N
    BY <1>1
  <2>2. history'[i] = history[i] /\ history'[i - 1] = history[i - 1]
    BY <1>1, <2>1
  <2> QED BY <2>2 DEF L!Matches, L!Moved
<1>3. Rows(by) \subseteq Rows(by)' /\ \A i \in Rows(by)' : i <= N => i \in Rows(by)
  BY <1>1, <1>2 DEF Rows, L!Movements
<1>4. IsFiniteSet(Rows(by)')
  <2>1. Rows(by)' \subseteq 2 .. N + 1
    BY <1>1 DEF Rows, L!Movements
  <2>2. N + 1 \in Int
    BY <1>1
  <2>3. IsFiniteSet(2 .. N + 1)
    BY <2>2, FS_Interval
  <2> QED BY <2>1, <2>3, FS_Subset
<1>5. ASSUME NEW A, NEW B, IsFiniteSet(B), A \subseteq B
      PROVE  Cardinality(A) <= Cardinality(B) /\ Cardinality(A) \in Nat /\ Cardinality(B) \in Nat
  BY <1>5, CardSame
<1>6. since \in 1 .. N /\ rows \in Seq(Rows(by)) /\ Len(rows) \in Nat
  BY DEF Reading
<1>7. rows \in Seq(Rows(by)') /\ since \in 1 .. Len(history')
  BY <1>1, <1>3, <1>6
<1>8. Len(rows) <= Cardinality(Rows(by)')
  BY <1>3, <1>4, <1>5, <1>6 DEF Reading
<1>9. Len(rows) <= Cardinality(L!Range(rows)) + (Len(history') - since)
  <2>1. L!Range(rows) \subseteq Rows(by)'
    BY <1>7 DEF L!Range
  <2>2. Cardinality(L!Range(rows)) \in Nat
    BY <1>4, <1>5, <2>1
  <2> QED BY <1>1, <1>6, <2>2 DEF Reading
<1>10. ASSUME NEW i \in Rows(by)', i <= since
       PROVE  i \in L!Range(rows) \/ Len(rows) <= Cardinality(Above(by, i)')
  <2>1. i \in Rows(by)
    BY <1>1, <1>3, <1>6, <1>10, RowsTyped DEF Rows, L!Movements
  <2>2. Above(by, i) \subseteq Above(by, i)' /\ Above(by, i)' \subseteq Rows(by)'
    BY <1>3 DEF Above
  <2>3. Cardinality(Above(by, i)) <= Cardinality(Above(by, i)')
        /\ Cardinality(Above(by, i)) \in Nat /\ Cardinality(Above(by, i)') \in Nat
    BY <1>4, <1>5, <2>2, FS_Subset
  <2> QED BY <1>6, <1>10, <2>1, <2>3 DEF Reading
<1>11. ASSUME NEW i \in Rows(by)', i <= since PROVE i \in Rows(by)
  <2>1. i \in Nat
    BY <1>1 DEF Rows, L!Movements
  <2> QED BY <1>1, <1>3, <1>6, <1>11, <2>1
<1> QED
  BY <1>7, <1>8, <1>9, <1>10, <1>11 DEF Reading

LEMMA ReadingStarts ==
  ASSUME CacheShape, NEW by
  PROVE  Reading(by, <<>>, Len(history))
<1>1. L!Range(<<>>) = {} /\ Cardinality({}) = 0
  BY FS_EmptySet DEF L!Range
<1>2. Len(history) \in Nat /\ Len(history) \in 1 .. Len(history) /\ Cardinality(Rows(by)) \in Nat
  <2>1. Len(history) \in Nat /\ Cardinality(Rows(by)) \in Nat
    BY RowsTyped
  <2>2. Len(history) # 0
    BY DEF CacheShape
  <2>3. PICK H \in Nat : H = Len(history)
    BY <2>1
  <2> QED BY <2>1, <2>2, <2>3
<1>3. ASSUME NEW i \in Rows(by) PROVE 0 <= Cardinality(Above(by, i))
  BY RowsTyped
<1>4. <<>> \in Seq(Rows(by)) /\ Len(<<>>) = 0
  OBVIOUS
<1>5. 0 <= Cardinality(L!Range(<<>>)) + (Len(history) - Len(history))
  <2>1. PICK H \in Nat : H = Len(history)
    BY <1>2
  <2>2. Cardinality(L!Range(<<>>)) = 0
    BY <1>1
  <2> QED BY <2>1, <2>2
<1> QED
  BY <1>2, <1>3, <1>4, <1>5 DEF Reading

\* A page goes on where the client is in the listing of now: what was there when it
\* asked lies further on or has been read, and what it gets again has been pushed
\* down by a movement that came in meanwhile.
LEMMA ReadingOn ==
  ASSUME CacheShape, BeganInv, BackOfficeAssumption,
         NEW by, by # L!Everything, NEW rows, NEW since, Reading(by, rows, since),
         NEW page \in L!Page(by, Len(rows))
  PROVE  /\ Reading(by, rows \o page, since)
         /\ Len(page) < PageSize =>
               \A i \in Rows(by) : i <= since => i \in L!Range(rows \o page)
<1> DEFINE R == Rows(by)
           got == rows \o page
<1>1. PICK s \in L!Listed(by) :
        page = SubSeq(s, Len(rows) + 1, L!Min({Len(s), Len(rows) + PageSize}))
  BY DEF L!Page
<1>2. PICK N : N = Cardinality(R)
  OBVIOUS
<1>3. /\ N \in Nat /\ s \in [1 .. N -> R] /\ s \in Seq(R) /\ Len(s) = N
      /\ \A p, q \in 1 .. N : s[p] = s[q] => p = q
      /\ \A i \in R : \E p \in 1 .. N : s[p] = i
      /\ \A p \in 1 .. N : Cardinality(Above(by, s[p])) = p - 1
  BY <1>2, Rank
<1>4. PICK k : k = Len(rows)
  OBVIOUS
<1>5. /\ rows \in Seq(R) /\ k \in Nat /\ k <= N /\ PageSize \in Nat \ {0}
      /\ k <= Cardinality(L!Range(rows)) + (Len(history) - since)
      /\ \A i \in R : i <= since => i \in L!Range(rows) \/ k <= Cardinality(Above(by, i))
  BY <1>2, <1>4 DEF Reading, BackOfficeAssumption
<1>6. /\ Len(history) \in Nat /\ since \in 1 .. Len(history)
      /\ IsFiniteSet(R) /\ R \subseteq 2 .. Len(history)
  BY RowsTyped DEF Reading
<1>6a. \E h \in Int : h = Len(history) - since
  <2>1. PICK H \in Nat : H = Len(history)
    BY <1>6
  <2>2. PICK b \in Nat : b = since
    BY <1>6
  <2>3. H - b \in Int /\ H - b = Len(history) - since
    BY <2>1, <2>2
  <2> QED BY <2>3
<1>7. PICK m : m = L!Min({N, k + PageSize})
  OBVIOUS
<1>8. m \in Nat /\ k <= m /\ m <= N /\ (m < N => m = k + PageSize)
  <2>1. PICK b \in Nat : b = k + PageSize
    BY <1>5
  <2>2. \E x \in {N, b} : \A y \in {N, b} : x <= y
    BY <1>3, <2>1
  <2>3. m \in {N, b} /\ \A y \in {N, b} : m <= y
    BY <1>7, <2>1, <2>2 DEF L!Min
  <2> QED BY <1>3, <1>5, <2>1, <2>3
<1> HIDE DEF R
<1>9. /\ page \in Seq(R) /\ Len(page) = m - k
      /\ \A i \in 1 .. m - k : page[i] = s[k + i]
  <2>1. page = SubSeq(s, k + 1, m) /\ k + 1 \in Int /\ m \in Int
    BY <1>1, <1>3, <1>4, <1>5, <1>7, <1>8
  <2>2. \A i \in k + 1 .. m : s[i] \in R
    BY <1>3, <1>5, <1>8
  <2>3. /\ page \in Seq(R)
        /\ Len(page) = IF k + 1 <= m THEN m - (k + 1) + 1 ELSE 0
        /\ \A i \in 1 .. m - (k + 1) + 1 : page[i] = s[(k + 1) + i - 1]
    BY <2>1, <2>2, SubSeqProperties
  <2> QED BY <1>5, <1>8, <2>3
<1>10. /\ got \in Seq(R) /\ Len(got) = m
       /\ \A q \in 1 .. k : got[q] = rows[q]
       /\ \A q \in k + 1 .. m : got[q] = s[q]
  <2>1. /\ got \in Seq(R) /\ Len(got) = k + (m - k)
        /\ \A q \in 1 .. k + (m - k) : got[q] = IF q <= k THEN rows[q] ELSE page[q - k]
    BY <1>4, <1>5, <1>9, ConcatProperties
  <2>2. ASSUME NEW q \in k + 1 .. m PROVE got[q] = s[q]
    <3>1. q \in Nat /\ q \in 1 .. k + (m - k) /\ ~(q <= k) /\ q - k \in 1 .. m - k /\ k + (q - k) = q
      BY <1>5, <1>8
    <3> QED BY <1>9, <2>1, <3>1
  <2>3. ASSUME NEW q \in 1 .. k PROVE got[q] = rows[q]
    BY <1>5, <1>8, <2>1
  <2> QED BY <1>5, <1>8, <2>1, <2>2, <2>3
<1> HIDE DEF got
<1>11. ASSUME NEW i, i \in L!Range(rows) PROVE i \in L!Range(got)
  <2>1. PICK q \in 1 .. k : rows[q] = i
    BY <1>4, <1>5, <1>11 DEF L!Range
  <2>2. q \in DOMAIN got /\ got[q] = i
    BY <1>5, <1>8, <1>10, <2>1
  <2> QED BY <2>2 DEF L!Range
<1>12. ASSUME NEW q \in k + 1 .. m PROVE s[q] \in L!Range(got)
  <2>1. q \in DOMAIN got /\ got[q] = s[q]
    BY <1>5, <1>8, <1>10
  <2> QED BY <2>1 DEF L!Range
<1>13. ASSUME NEW i \in R, i <= since, i \notin L!Range(got)
       PROVE  m <= Cardinality(Above(by, i)) /\ m < N
  <2>1. PICK p \in 1 .. N : s[p] = i
    BY <1>3
  <2>2. Cardinality(Above(by, i)) = p - 1
    BY <1>3, <2>1
  <2>3. k <= p - 1
    BY <1>5, <1>11, <1>13, <2>2
  <2>4. p \notin k + 1 .. m
    BY <1>12, <1>13, <2>1
  <2> QED BY <1>3, <1>5, <1>8, <2>2, <2>3, <2>4
<1>14. m <= Cardinality(L!Range(got)) + (Len(history) - since)
  <2> DEFINE G == L!Range(got)
             New == since + 1 .. Len(history)
             g == [q \in 1 .. m |-> s[q]]
  <2>1. ASSUME NEW q \in 1 .. m PROVE s[q] \in G \cup New
    <3>1. s[q] \in R /\ q \in 1 .. N /\ Cardinality(Above(by, s[q])) = q - 1
      BY <1>3, <1>8
    <3>2. s[q] \in 2 .. Len(history)
      BY <1>6, <3>1
    <3>3. CASE s[q] > since
      BY <1>6, <3>2, <3>3
    <3>4. CASE q \in k + 1 .. m
      BY <1>12, <3>4
    <3>5. CASE s[q] <= since /\ q <= k
      <4>1. ~(k <= q - 1)
        BY <1>5, <3>5
      <4>2. s[q] \in L!Range(rows)
        BY <1>5, <3>1, <3>5, <4>1
      <4> QED BY <1>11, <4>2
    <3> QED BY <1>5, <1>6, <1>8, <3>2, <3>3, <3>4, <3>5
  <2>2. IsFiniteSet(G) /\ Cardinality(G) \in Nat
    <3>1. G \subseteq R
      BY <1>10 DEF L!Range
    <3> QED BY <1>6, <3>1, FS_Subset, FS_CardinalityType
  <2>3. IsFiniteSet(New) /\ Cardinality(New) = Len(history) - since
    <3>1. since + 1 \in Int /\ Len(history) \in Int /\ since <= Len(history) /\ since \in Nat
      BY <1>6
    <3>2. IsFiniteSet(New) /\ Cardinality(New) =
             IF since + 1 > Len(history) THEN 0 ELSE Len(history) - (since + 1) + 1
      BY <3>1, FS_Interval
    <3> QED BY <3>1, <3>2
  <2>4. IsFiniteSet(G \cup New)
        /\ Cardinality(G \cup New) <= Cardinality(G) + (Len(history) - since)
        /\ Cardinality(G \cup New) \in Nat
    <3> HIDE DEF G, New
    <3>1. IsFiniteSet(G \cup New) /\
          Cardinality(G \cup New) = Cardinality(G) + Cardinality(New) - Cardinality(G \cap New)
      BY <2>2, <2>3, FS_Union
    <3>2. Cardinality(G \cap New) \in Nat /\ Cardinality(G \cup New) \in Nat
      BY <2>2, <3>1, FS_Subset, FS_CardinalityType
    <3>3. PICK c \in Nat : c = Cardinality(G \cap New)
      BY <3>2
    <3>4. PICK h \in Int : h = Len(history) - since
      BY <1>6a
    <3> QED BY <2>2, <2>3, <3>1, <3>2, <3>3, <3>4
  <2>5. g \in Injection(1 .. m, G \cup New)
    <3>1. g \in [1 .. m -> G \cup New]
      BY <2>1
    <3>2. \A a, b \in 1 .. m : g[a] = g[b] => a = b
      BY <1>3, <1>8
    <3> HIDE DEF G, New, g
    <3> QED BY <3>1, <3>2 DEF Injection, IsInjective
  <2>6. Cardinality(1 .. m) = m
    <3>1. m \in Int /\ 1 \in Int /\ (1 > m => m = 0) /\ m - 1 + 1 = m
      BY <1>8
    <3> QED BY <3>1, FS_Interval
  <2> HIDE DEF G, New, g
  <2>7. Cardinality(1 .. m) <= Cardinality(G \cup New)
    BY <2>4, <2>5, FS_Injection
  <2>8. m <= Cardinality(G) + (Len(history) - since)
    <3>1. PICK h \in Int : h = Len(history) - since
      BY <1>6a
    <3> QED BY <1>8, <2>2, <2>4, <2>6, <2>7, <3>1
  <2> QED BY <2>8 DEF G
<1>15. Reading(by, got, since)
  BY <1>2, <1>6, <1>8, <1>10, <1>13, <1>14 DEF Reading, R
<1>16. ASSUME Len(page) < PageSize, NEW i \in R, i <= since PROVE i \in L!Range(got)
  BY <1>5, <1>8, <1>9, <1>13, <1>16
<1> QED
  BY <1>15, <1>16 DEF got, R

\* A step that neither commits nor lists.
LEMMA ListsFrame ==
  ASSUME ListsInv, UNCHANGED <<history, began, reading>>, left'.commits = left.commits
  PROVE  ListsInv'
<1>1. BeganInv'
  BY DEF ListsInv, BeganInv
<1>2. ASSUME NEW c \in Readers PROVE ReaderOK(c)'
  <2>1. ASSUME NEW by PROVE Rows(by)' = Rows(by)
    BY DEF Rows, L!Movements, L!Matches, L!Moved
  <2>2. ASSUME NEW by, NEW i PROVE Above(by, i)' = Above(by, i)
    BY <2>1 DEF Above
  <2>3. ReaderOK(c)
    BY DEF ListsInv
  <2> QED BY <2>1, <2>2, <2>3 DEF ReaderOK, Reading
<1>3. \E R : reading' \in [Readers -> [phase : {"idle", "paging", "read"}, by : R,
                                       rows : R, since : R]]
  BY DEF ListsInv
<1> QED
  BY <1>1, <1>2, <1>3 DEF ListsInv

LEMMA ListsCommit ==
  ASSUME CacheShape, ListsInv, NEW s \in Stocks, E!CommitStock(s), UNCHANGED listVars
  PROVE  ListsInv'
<1>1. began' = began /\ reading' = reading
  BY DEF listVars
<1>2. BeganInv'
  <2>1. PICK C \in Nat :
          /\ began \in [1 .. C -> Nat] /\ Len(history) + left.commits = C + 1
          /\ \A i, j \in 1 .. C : began[i] = began[j] => i = j
    BY DEF ListsInv, BeganInv
  <2>2. Len(history) \in Nat /\ Len(history') = Len(history) + 1
    BY DEF CacheShape, E!CommitStock
  <2>3. left.commits \in Nat /\ left'.commits = left.commits - 1
    BY DEF CacheShape, E!CommitStock
  <2>4. Len(history') + left'.commits = C + 1
    BY <2>1, <2>2, <2>3
  <2> QED BY <1>1, <2>1, <2>4 DEF BeganInv
<1>3. ASSUME NEW c \in Readers PROVE ReaderOK(c)'
  <2>1. PICK x : x = reading[c] /\ x = reading'[c]
    BY <1>1
  <2> SUFFICES ASSUME x.phase # "idle", x.by # L!Everything
               PROVE  /\ Reading(x.by, x.rows, x.since)'
                      /\ x.phase = "read" =>
                            \A i \in Rows(x.by)' : i <= x.since => i \in L!Range(x.rows)
    BY <2>1 DEF ReaderOK
  <2>2. /\ Reading(x.by, x.rows, x.since)
        /\ x.phase = "read" => \A i \in Rows(x.by) : i <= x.since => i \in L!Range(x.rows)
    BY <2>1 DEF ListsInv, ReaderOK
  <2>3. /\ Reading(x.by, x.rows, x.since)'
        /\ \A i \in Rows(x.by)' : i <= x.since => i \in Rows(x.by)
    BY <1>1, <2>2, ReadingGrows DEF ListsInv
  <2> QED BY <2>2, <2>3
<1>4. \E R : reading' \in [Readers -> [phase : {"idle", "paging", "read"}, by : R,
                                       rows : R, since : R]]
  BY <1>1 DEF ListsInv
<1> QED
  BY <1>2, <1>3, <1>4 DEF ListsInv

\* A step of one client, of which r is what it has read then.
LEMMA ListsRead ==
  ASSUME ListsInv, UNCHANGED <<history, began>>, left'.commits = left.commits,
         NEW c \in Readers, NEW r, reading' = [reading EXCEPT ![c] = r],
         \E B : r \in [phase : {"paging", "read"}, by : B, rows : B, since : B],
         r.by # L!Everything =>
            /\ Reading(r.by, r.rows, r.since)
            /\ r.phase = "read" =>
                  \A i \in Rows(r.by) : i <= r.since => i \in L!Range(r.rows)
  PROVE  ListsInv'
<1>1. PICK R : reading \in [Readers -> [phase : {"idle", "paging", "read"}, by : R,
                                        rows : R, since : R]]
  BY DEF ListsInv
<1>2. BeganInv'
  BY DEF ListsInv, BeganInv
<1>3. ASSUME NEW d \in Readers PROVE ReaderOK(d)'
  <2>1. ASSUME NEW by PROVE Rows(by)' = Rows(by)
    BY DEF Rows, L!Movements, L!Matches, L!Moved
  <2>2. ASSUME NEW by, NEW i PROVE Above(by, i)' = Above(by, i)
    BY <2>1 DEF Above
  <2>3. ASSUME NEW by, NEW rows, NEW since, Reading(by, rows, since)
        PROVE  Reading(by, rows, since)'
    BY <2>1, <2>2, <2>3 DEF Reading
  <2>4. CASE d = c
    <3>1. reading'[d] = r
      BY <1>1, <2>4
    <3> QED BY <2>1, <2>3, <3>1 DEF ReaderOK
  <2>5. CASE d # c
    <3>1. reading'[d] = reading[d] /\ ReaderOK(d)
      BY <1>1, <2>5 DEF ListsInv
    <3> QED BY <2>1, <2>3, <3>1 DEF ReaderOK
  <2> QED BY <2>4, <2>5
<1>4. \E S : reading' \in [Readers -> [phase : {"idle", "paging", "read"}, by : S,
                                       rows : S, since : S]]
  <2>1. PICK B : r \in [phase : {"paging", "read"}, by : B, rows : B, since : B]
    OBVIOUS
  <2>2. PICK S : S = R \cup B
    OBVIOUS
  <2>3. r \in [phase : {"idle", "paging", "read"}, by : S, rows : S, since : S]
    BY <2>1, <2>2
  <2>4. ASSUME NEW d \in Readers
        PROVE  reading[d] \in [phase : {"idle", "paging", "read"}, by : S, rows : S, since : S]
    BY <1>1, <2>2
  <2> QED BY <1>1, <2>3, <2>4
<1> QED
  BY <1>2, <1>3, <1>4 DEF ListsInv

LEMMA ListsAsk ==
  ASSUME CacheShape, ListsInv, NEW c \in Readers, NEW by, L!Ask(c, by)
  PROVE  ListsInv'
<1>1. PICK r : r = [phase |-> "paging", by |-> by, rows |-> <<>>, since |-> Len(history)]
  OBVIOUS
<1>2. /\ reading' = [reading EXCEPT ![c] = r] /\ UNCHANGED <<history, began>>
      /\ left'.commits = left.commits
  BY <1>1 DEF L!Ask, CacheShape
<1>3. \E B : r \in [phase : {"paging", "read"}, by : B, rows : B, since : B]
  <2>1. PICK B : B = {by, <<>>, Len(history)}
    OBVIOUS
  <2>2. by \in B /\ <<>> \in B /\ Len(history) \in B
    BY <2>1
  <2> QED BY <1>1, <2>2
<1>4. Reading(r.by, r.rows, r.since) /\ r.phase # "read"
  BY <1>1, ReadingStarts
<1>5. r.by # L!Everything =>
         /\ Reading(r.by, r.rows, r.since)
         /\ r.phase = "read" =>
               \A i \in Rows(r.by) : i <= r.since => i \in L!Range(r.rows)
  BY <1>4
<1> QED
  BY <1>2, <1>3, <1>5, ListsRead

LEMMA ListsNextPage ==
  ASSUME CacheShape, BackOfficeAssumption, ListsInv, NEW c \in Readers, L!NextPage(c)
  PROVE  ListsInv'
<1>1. PICK x : x = reading[c]
  OBVIOUS
<1>2. PICK R : reading \in [Readers -> [phase : {"idle", "paging", "read"}, by : R,
                                        rows : R, since : R]]
  BY DEF ListsInv
<1>3. x \in [phase : {"idle", "paging", "read"}, by : R, rows : R, since : R]
  BY <1>1, <1>2
<1>4. PICK page \in L!Page(x.by, Len(x.rows)) :
        reading' = [reading EXCEPT
            ![c].rows = @ \o page,
            ![c].phase = IF Len(page) < PageSize THEN "read" ELSE "paging"]
  BY <1>1 DEF L!NextPage
<1>5. PICK r : r = [phase |-> IF Len(page) < PageSize THEN "read" ELSE "paging",
                    by |-> x.by, rows |-> x.rows \o page, since |-> x.since]
  OBVIOUS
<1>6. reading' = [reading EXCEPT ![c] = r]
  <2>1. reading' = [d \in Readers |-> IF d = c THEN r ELSE reading[d]]
    <3>1. /\ reading' = [d \in Readers |-> reading'[d]]
          /\ \A d \in Readers \ {c} : reading'[d] = reading[d]
      BY <1>2, <1>4
    <3>2. reading'[c] = r
      <4>1. reading[c] \in [phase : {"idle", "paging", "read"}, by : R, rows : R, since : R]
        BY <1>2
      <4>2. PICK ph, rw : ph = (IF Len(page) < PageSize THEN "read" ELSE "paging")
                          /\ rw = x.rows \o page
        OBVIOUS
      <4>3. reading'[c] = [reading[c] EXCEPT !.rows = rw, !.phase = ph]
        BY <1>1, <1>2, <1>4, <4>2
      <4> QED BY <1>1, <1>3, <1>5, <4>2, <4>3
    <3> QED BY <3>1, <3>2
  <2> QED BY <1>2, <2>1
<1>7. \E B : r \in [phase : {"paging", "read"}, by : B, rows : B, since : B]
  <2>1. PICK B : B = {x.by, x.rows \o page, x.since}
    OBVIOUS
  <2>2. x.by \in B /\ x.rows \o page \in B /\ x.since \in B
    BY <2>1
  <2> QED BY <1>5, <2>2
<1>8. ASSUME r.by # L!Everything
      PROVE  /\ Reading(r.by, r.rows, r.since)
             /\ r.phase = "read" =>
                   \A i \in Rows(r.by) : i <= r.since => i \in L!Range(r.rows)
  <2>1. r.by = x.by /\ r.rows = x.rows \o page /\ r.since = x.since
        /\ (r.phase = "read" => Len(page) < PageSize)
    BY <1>5
  <2>2. Reading(x.by, x.rows, x.since)
    BY <1>1, <1>8, <2>1 DEF ListsInv, ReaderOK, L!NextPage
  <2>3. PICK by, rows, since : by = x.by /\ rows = x.rows /\ since = x.since
    OBVIOUS
  <2>4. /\ Reading(by, rows \o page, since)
        /\ Len(page) < PageSize =>
              \A i \in Rows(by) : i <= since => i \in L!Range(rows \o page)
    <3>1. BeganInv /\ by # L!Everything /\ Reading(by, rows, since)
          /\ page \in L!Page(by, Len(rows))
      BY <1>8, <2>1, <2>2, <2>3 DEF ListsInv
    <3> QED BY <3>1, ReadingOn
  <2>5. r.by = by /\ r.rows = rows \o page /\ r.since = since
    BY <2>1, <2>3
  <2>6. Reading(r.by, r.rows, r.since)
    BY <2>4, <2>5
  <2>7. ASSUME r.phase = "read", NEW i \in Rows(r.by), i <= r.since
        PROVE  i \in L!Range(r.rows)
    BY <2>1, <2>4, <2>5, <2>7
  <2> QED BY <2>6, <2>7
<1>9. UNCHANGED <<history, began>> /\ left'.commits = left.commits
  BY DEF L!NextPage
<1> QED
  BY <1>6, <1>7, <1>8, <1>9, ListsRead

LEMMA ListsInit ==
  ASSUME BackOfficeAssumption, Init
  PROVE  ListsInv
<1>1. PICK load \in Loads :
        /\ left = [requests |-> load.requests, commits |-> load.commits,
                   ticks |-> load.ticks, lists |-> load.lists]
        /\ began \in Begun(load)
  BY DEF Init
<1>2. BeganInv
  <2>1. PICK C \in Nat : C = load.commits
    BY DEF BackOfficeAssumption
  <2>2. began \in [1 .. C -> Nat] /\ \A i, j \in 1 .. C : began[i] = began[j] => i = j
    BY <1>1, <2>1 DEF Begun
  <2>3. Len(history) = 1 /\ left.commits = C
    BY <1>1, <2>1 DEF Init, E!Init
  <2> QED BY <2>1, <2>2, <2>3 DEF BeganInv
<1>3. \E R : reading \in [Readers -> [phase : {"idle", "paging", "read"}, by : R,
                                      rows : R, since : R]]
  <2>1. PICK R : R = {Null, <<>>, 0}
    OBVIOUS
  <2>2. Null \in R /\ <<>> \in R /\ 0 \in R
    BY <2>1
  <2> QED BY <2>2 DEF Init, L!Init
<1>4. ASSUME NEW c \in Readers PROVE ReaderOK(c)
  BY DEF Init, L!Init, ReaderOK
<1> QED
  BY <1>2, <1>3, <1>4 DEF ListsInv

LEMMA ListsStep ==
  ASSUME BackOfficeAssumption, CacheShape, ListsInv, [Next]_vars
  PROVE  ListsInv'
<1>1. CASE UNCHANGED <<history, listVars, left>>
  BY <1>1, ListsFrame DEF listVars
<1>2. CASE E!Next /\ UNCHANGED listVars
  <2>1. ASSUME NEW s \in Stocks, E!CommitStock(s) PROVE ListsInv'
    BY <1>2, <2>1, ListsCommit
  <2>2. CASE ~\E s \in Stocks : E!CommitStock(s)
    <3>1. history' = history /\ left'.commits = left.commits
      BY <1>2, <2>2 DEF E!Next, E!Tick, E!Ask, E!Hit, E!Miss, E!Bypass, E!Generate,
                        E!GenerateRaises, E!Write, E!WriteFails, CacheShape
    <3> QED BY <1>2, <3>1, ListsFrame DEF listVars
  <2> QED BY <2>1, <2>2
<1>3. CASE L!Next
  BY <1>3, ListsAsk, ListsNextPage DEF L!Next
<1> QED
  BY <1>1, <1>2, <1>3 DEF Next, vars

-----------------------------------------------------------------------------
(* Side by side. *)

Inv == CacheInv /\ TasksInv /\ CopiesInv /\ AliveInv /\ FilesInv /\ ListsInv

LEMMA InvStep ==
  ASSUME BackOfficeAssumption, TasksAssumption, ReportsAssumption, Inv, [Next]_vars
  PROVE  Inv'
<1>1. CacheInv'
  BY CacheStep DEF Inv
<1>2. [TasksNext]_taskVars
  BY DEF Next, vars
<1>3. Len(history) \in Nat
  BY DEF Inv, CacheInv, CacheShape
<1>4. TasksInv'
  BY <1>2, <1>3, TasksStep DEF Inv
<1>5. CopiesInv'
  BY <1>2, CopiesStep DEF Inv
<1>6. AliveInv'
  BY <1>2, AliveStep DEF Inv
<1>7. FilesInv'
  BY FilesStep DEF Inv, CacheInv
<1>8. ListsInv'
  BY ListsStep DEF Inv, CacheInv
<1> QED
  BY <1>1, <1>4, <1>5, <1>6, <1>7, <1>8 DEF Inv

\* The inductive invariant of the back office: every entry of the cache and every
\* report on its way there is the report of a stock of a known age, and every
\* message, child process and task says of the others what has happened.
THEOREM Inductive == Spec => []Inv
<1>1. Init => Inv
  BY CacheInit, TasksStart, CopiesStart, AliveStart, FilesInit, ListsInit, BackOfficeAssumption,
     TasksAssumption
  DEF Inv, Init
<1>2. Inv /\ [Next]_vars => Inv'
  BY InvStep, BackOfficeAssumption, TasksAssumption, ReportsAssumption
<1> QED
  BY <1>1, <1>2, PTL DEF Spec

\* "Slightly stale figures are an acceptable trade-off": an answer is the report of
\* a stock that was the committed one less than a TTL and the time of a request
\* before it was asked for, whatever movements, misses, writes that come late and
\* failures of Redis there were.
THEOREM Fresh == Spec => []FreshEnough
<1>1. Inv => FreshEnough
  <2> SUFFICES ASSUME CacheInv, NEW r \in Requests, E!Answered(r)
               PROVE  \E i \in DOMAIN history :
                        /\ request[r].figures = E!Figures(request[r].kind, history[i].stock)
                        /\ i < Len(history) =>
                              history[i + 1].at + TTL + Latency > request[r].asked
    BY DEF Inv, FreshEnough, E!FreshEnough
  <2>1. PICK i \in DOMAIN history :
          /\ request[r].figures = E!Figures(request[r].kind, history[i].stock)
          /\ i < Len(history) => history[i + 1].at >= request[r].asked - TTL - Latency + 1
    BY DEF CacheInv, Handler, Current
  <2>2. PICK asked \in Nat : asked = request[r].asked
    BY RequestTyped DEF CacheInv, CacheShape
  <2>3. history \in Seq(Stamped) /\ TTL \in Nat /\ Latency \in Nat
    BY BackOfficeAssumption DEF CacheInv, CacheShape, BackOfficeAssumption
  <2>4. ASSUME i < Len(history)
        PROVE  history[i + 1].at + TTL + Latency > asked
    <3>1. history[i + 1] \in Stamped
      BY <2>3, <2>4
    <3>2. PICK at \in Nat : at = history[i + 1].at
      BY <3>1 DEF Stamped
    <3>3. at >= asked - TTL - Latency + 1
      BY <2>1, <2>2, <2>4, <3>2
    <3>4. at + TTL + Latency > asked
      BY <2>3, <3>3
    <3> QED BY <3>2, <3>4
  <2> QED BY <2>1, <2>2, <2>4
<1> QED
  BY <1>1, Inductive, PTL

\* The mail of a retried or redelivered task tells of the alert as it was enqueued
\* or as it has become: the child loads it anew, and escalations only add versions.
THEOREM ToldCurrent == Spec => []ToldIsCurrent
<1>1. Inv => ToldIsCurrent
  <2> SUFFICES ASSUME Inv, NEW n \in DOMAIN mails, NEW i \in DOMAIN mails[n], n \in DOMAIN task
               PROVE  mails[n][i] >= task[n].since
    BY LogsTyped DEF Inv, TasksInv, ToldIsCurrent
  <2>1. n \in 1 .. Len(task) /\ mails[n] \in Seq(Nat)
    BY LogsTyped DEF Inv, TasksInv
  <2>2. TaskOK(n) /\ i \in 1 .. Len(mails[n])
    BY <2>1 DEF Inv, TasksInv
  <2> QED BY <2>2 DEF TaskOK
<1> QED
  BY <1>1, Inductive, PTL

\* However messages are retried, delivered again and run side by side, the server has
\* accepted one mail of a task and one more per reason there was to run it again:
\* each copy of the message is one of these, and gone once it has sent its mail.
THEOREM MailedOnce == Spec => []MailedOncePerReason
<1>1. Inv => MailedOncePerReason
  <2> SUFFICES ASSUME TasksInv, CopiesInv, NEW n \in DOMAIN task
               PROVE  Len(mails[n]) <= 1 + again[n]
    BY DEF Inv, MailedOncePerReason
  <2>1. n \in 1 .. Len(task)
    BY LogsTyped DEF TasksInv
  <2> QED BY <2>1, CopiesTyped, TasksAssumption
<1> QED
  BY <1>1, Inductive, PTL

\* "Retries up to 3 times": more attempts at an email that was given up have raised
\* than max_retries, for a message carries no more retries than attempts that
\* raised, and an attempt that is given up has raised after the last of them.
THEOREM GivenUp == Spec => []GivenUpLast
<1>1. Inv => GivenUpLast
  BY LogsTyped DEF Inv, TasksInv, TaskOK, GivenUpLast
<1> QED
  BY <1>1, Inductive, PTL

\* Late acknowledgement loses no task: as long as it has not ended, a message is
\* about it or a child that will end it, retry it or give its message back.
THEOREM NothingIsLost == Spec => []NothingLost
<1>1. Inv => NothingLost
  BY AliveRests DEF Inv
<1> QED
  BY <1>1, Inductive, PTL

\* The file a successful export names is whole, and its figures are those of a stock
\* committed since the export was asked for, whatever other exports, deliveries and
\* kills do to the directory: a file has a name of its own, only the child that has
\* opened it writes it, and what it writes means what the report says.
THEOREM ExportsAreWhole == Spec => []ResultIsWhole
<1>1. Inv => ResultIsWhole
  <2> SUFFICES ASSUME Inv, NEW n \in DOMAIN task, ~IsEmail(n), result[n].state = "SUCCESS"
               PROVE  \E f \in files :
                        /\ f.name = result[n].file /\ f.kind = task[n].about /\ f.figures # None
                        /\ \E i \in task[n].since .. Len(history) :
                               Means(f.kind, f.figures, history[i].stock)
    BY DEF ResultIsWhole
  <2>1. n \in 1 .. Len(task)
    BY LogsTyped DEF Inv, TasksInv
  <2>2. Whole(n, result[n].file)
    BY <2>1 DEF Inv, FilesInv, ResultOK
  <2> QED BY <2>2 DEF Whole, Right
<1> QED
  BY <1>1, Inductive, PTL

\* A client that has read a filtered listing to its end has seen every movement that
\* was committed when it began, and got no more of them twice than were committed
\* meanwhile, although a later commit may carry an earlier created_at: what pages
\* with an OFFSET lose or repeat can only be pushed down, for movements are never
\* deleted and keep their created_at.
THEOREM HistoryIsComplete == Spec => []HistoryComplete
<1>1. Inv => HistoryComplete
  <2> SUFFICES ASSUME Inv, NEW c \in Readers,
                      reading[c].phase # "idle", reading[c].by # L!Everything
               PROVE  /\ Len(reading[c].rows) - L!Cardinality(L!Range(reading[c].rows))
                             <= Len(history) - reading[c].since
                      /\ reading[c].phase = "read" =>
                            {i \in L!Movements : i <= reading[c].since
                                                  /\ L!Matches(reading[c].by, i)}
                               \subseteq L!Range(reading[c].rows)
    BY DEF HistoryComplete, L!HistoryComplete
  <2>1. /\ Reading(reading[c].by, reading[c].rows, reading[c].since)
        /\ reading[c].phase = "read" =>
              \A i \in Rows(reading[c].by) :
                  i <= reading[c].since => i \in L!Range(reading[c].rows)
    BY DEF Inv, ListsInv, ReaderOK
  <2>2. Len(reading[c].rows) - L!Cardinality(L!Range(reading[c].rows))
           <= Len(history) - reading[c].since
    <3>1. PICK by, rows, since :
            by = reading[c].by /\ rows = reading[c].rows /\ since = reading[c].since
      OBVIOUS
    <3>2. /\ since \in 1 .. Len(history) /\ rows \in Seq(Rows(by))
          /\ Len(rows) <= Cardinality(L!Range(rows)) + (Len(history) - since)
      BY <2>1, <3>1 DEF Reading
    <3>3. Len(history) \in Nat /\ IsFiniteSet(Rows(by))
      BY RowsTyped DEF Inv, CacheInv
    <3>4. L!Range(rows) \subseteq Rows(by)
      BY <3>2 DEF L!Range
    <3>5. Cardinality(L!Range(rows)) \in Nat
      BY <3>3, <3>4, CardSame
    <3>6. PICK n, d, h, b \in Nat :
            /\ n = Len(rows) /\ d = Cardinality(L!Range(rows))
            /\ h = Len(history) /\ b = since
      BY <3>2, <3>3, <3>5
    <3>7. n - d <= h - b
      BY <3>2, <3>6
    <3> QED BY <3>1, <3>6, <3>7, SameSize
  <2> QED BY <2>1, <2>2 DEF Rows
<1> QED
  BY <1>1, Inductive, PTL

\* "Entries are always popped on completion": no outcome, kill or restart leaves a
\* start time behind in a child process.
THEOREM StartTimesReleased == Spec => []TimingsReleased
<1>1. Inv => TimingsReleased
  BY DEF Inv, TasksInv, TimedInv
<1> QED
  BY <1>1, Inductive, PTL

\* The types of the worker's and of the endpoints' state.
THEOREM TypeCorrect == Spec => []TypeOK
<1>1. Inv => TasksTypeOK
  <2> SUFFICES ASSUME TasksInv PROVE TasksTypeOK
    BY DEF Inv
  <2>1. /\ DOMAIN result = DOMAIN task /\ DOMAIN mails = DOMAIN task
        /\ DOMAIN again = DOMAIN task /\ DOMAIN attempts = DOMAIN task
        /\ DOMAIN ended = DOMAIN task
        /\ DOMAIN task = 1 .. Len(task) /\ faults \in 0 .. MaxFaults
    BY LogsTyped DEF TasksInv
  <2>2. ASSUME NEW n \in DOMAIN task
        PROVE  /\ task[n].kind = "email" => task[n].about \in Alerts
               /\ task[n].kind = "export" => task[n].about \in Kinds \cup {Unknown}
               /\ result[n].state \in {"PENDING", "STARTED", "RETRY", "SUCCESS", "FAILURE"}
               /\ ended[n] \subseteq {"succeeded", "failed", "rejected", "killed"}
               /\ \A i \in DOMAIN mails[n] : mails[n][i] \in 1 .. MaxVersions
    <3>1. /\ task[n] \in Task /\ result[n].state \in States /\ mails[n] \in Seq(Nat)
          /\ ended[n] \subseteq Ways
      BY <2>1, LogsTyped DEF TasksInv
    <3>2. \A i \in DOMAIN mails[n] : mails[n][i] \in 1 .. MaxVersions
      <4>1. TaskOK(n) /\ DOMAIN mails[n] = 1 .. Len(mails[n])
        BY <2>1, <3>1 DEF TasksInv
      <4> QED BY <4>1 DEF TaskOK, Versions
    <3> QED BY <3>1, <3>2 DEF Task, States, Ways
  <2>3. \A m \in queue : m.task \in DOMAIN task /\ m.retries \in 0 .. MaxRetries
    BY <2>1, TasksAssumption DEF TasksInv, MessageOK, Message, TasksAssumption
  <2>4. ASSUME NEW k \in Children, child[k].phase # "idle"
        PROVE  Held(k) \in DOMAIN task /\ child[k].message.retries \in 0 .. MaxRetries
    BY <2>1, <2>4, ChildTyped, TasksAssumption DEF MessageOK, Message, TasksAssumption
  <2> QED BY <2>1, <2>2, <2>3, <2>4 DEF TasksTypeOK
<1>2. Inv => E!TypeOK
  <2> SUFFICES ASSUME CacheInv PROVE E!TypeOK
    BY DEF Inv
  <2>1. /\ clock \in Nat /\ errors \in 0 .. MaxErrors
        /\ left.requests \in Nat /\ left.commits \in Nat /\ left.ticks \in Nat
    BY DEF CacheInv, CacheShape
  <2>2. ASSUME NEW i \in DOMAIN history
        PROVE  history[i].stock \in Stocks /\ history[i].at \in 0 .. clock
    <3>1. history \in Seq(Stamped) /\ history[i].at <= clock
      BY DEF CacheInv, CacheShape
    <3>2. history[i] \in Stamped
      BY <3>1
    <3> QED BY <2>1, <3>1, <3>2 DEF Stamped
  <2>3. \A key \in E!Keys : cache[key] # None => cache[key].expires <= clock + TTL
    BY DEF CacheInv, Entry, E!Keys
  <2>4. ASSUME NEW r \in Requests
        PROVE  /\ request[r].phase \in {"idle", "reading", "missed", "bypassed", "writing",
                                        "answered", "unavailable"}
               /\ E!Active(r) =>
                     request[r].kind \in E!Kinds /\ clock <= request[r].asked + Latency
    BY RequestTyped DEF CacheInv, Handler, Phases
  <2> QED BY <2>1, <2>2, <2>3, <2>4 DEF E!TypeOK
<1> QED
  BY <1>1, <1>2, Inductive, PTL DEF TypeOK
=============================================================================
