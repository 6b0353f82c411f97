----------------------------- MODULE ReportCache -----------------------------
(***************************************************************************)
(* The two report endpoints behind cache_response (app/core/cache.py,      *)
(* app/api/v1/endpoints/reports.py): cache-aside in Redis with a TTL.      *)
(* Every `await` of the wrapper is a boundary between steps: the read of   *)
(* the cache, the SELECT and the write of the cache.                       *)
(***************************************************************************)
EXTENDS Reports, Sequences

CONSTANTS
    Requests,       \* handlers of report requests; each serves many in turn
    Stocks,         \* the stocks movements bring about
    FirstStock,     \* the one there is at first
    None,           \* no entry, no figures
    TTL,            \* _REPORT_CACHE_TTL_SECONDS, in ticks
    Latency,        \* bound: ticks a request may take
    MaxErrors       \* bound: failures of Redis and of the database

VARIABLES
    history,        \* the committed stocks, each with the time of its commit
    clock,
    cache,          \* what Redis keeps under each key
    request,        \* the report request each handler is serving
    errors,         \* how much of MaxErrors is used up
    left            \* requests, commits and ticks there may still be

readVars == <<history, clock, cache, request, errors, left>>

Stock == history[Len(history)].stock

Idle == [phase |-> "idle", kind |-> None, asked |-> 0, figures |-> None]

\* Mutant: one key for both endpoints.
KeyShared(kind) == "cache:reports"

\* _build_cache_key: without arguments but the injected ones, the prefix alone.
Key(kind) == IF kind = "valuation" THEN "cache:reports:valuation"
             ELSE "cache:reports:inventory-summary"
Keys == {Key(kind) : kind \in Kinds}

Live(key) == cache[key] # None /\ clock < cache[key].expires

Init ==
    /\ history = <<[stock |-> FirstStock, at |-> 0]>>
    /\ clock = 0
    /\ cache = [key \in Keys |-> None]
    /\ request = [r \in Requests |-> Idle]

-----------------------------------------------------------------------------
Active(r) == request[r].phase \in {"reading", "missed", "bypassed", "writing"}

\* Time passes, but no request takes longer than Latency.
Tick ==
    /\ left.ticks > 0
    /\ \A r \in Requests : Active(r) => clock < request[r].asked + Latency
    /\ clock' = clock + 1
    /\ left' = [left EXCEPT !.ticks = @ - 1]
    /\ UNCHANGED <<history, cache, request, errors>>

\* A movement commits.
CommitStock(s) ==
    /\ left.commits > 0 /\ MovementBetween(Stock, s)
    /\ history' = Append(history, [stock |-> s, at |-> clock])
    /\ left' = [left EXCEPT !.commits = @ - 1]
    /\ UNCHANGED <<clock, cache, request, errors>>

Ask(r, kind) ==
    /\ ~Active(r) /\ left.requests > 0
    /\ request' = [request EXCEPT ![r] = [phase |-> "reading", kind |-> kind,
                                          asked |-> clock, figures |-> None]]
    /\ left' = [left EXCEPT !.requests = @ - 1]
    /\ UNCHANGED <<history, clock, cache, errors>>

\* Mutant: a hit renews the entry.
HitSliding(r) ==
    /\ request[r].phase = "reading" /\ Live(Key(request[r].kind))
    /\ request' = [request EXCEPT ![r].phase = "answered",
                                  ![r].figures = cache[Key(request[r].kind)].figures]
    /\ cache' = [cache EXCEPT ![Key(request[r].kind)].expires = clock + TTL]
    /\ UNCHANGED <<history, clock, errors, left>>
\* redis.get finds an entry that has not expired, which is the answer.
Hit(r) ==
    /\ request[r].phase = "reading" /\ Live(Key(request[r].kind))
    /\ request' = [request EXCEPT ![r].phase = "answered",
                                  ![r].figures = cache[Key(request[r].kind)].figures]
    /\ UNCHANGED <<history, clock, cache, errors, left>>

Miss(r) ==
    /\ request[r].phase = "reading" /\ ~Live(Key(request[r].kind))
    /\ request' = [request EXCEPT ![r].phase = "missed"]
    /\ UNCHANGED <<history, clock, cache, errors, left>>

\* Mutant: the RedisError of the read is not caught.
ReadRaises(r) ==
    /\ request[r].phase = "reading" /\ errors < MaxErrors
    /\ request' = [request EXCEPT ![r].phase = "failed"]
    /\ errors' = errors + 1
    /\ UNCHANGED <<history, clock, cache, left>>

\* Redis is unavailable for the read: the endpoint runs without the cache.
Bypass(r) ==
    /\ request[r].phase = "reading" /\ errors < MaxErrors
    /\ request' = [request EXCEPT ![r].phase = "bypassed"]
    /\ errors' = errors + 1
    /\ UNCHANGED <<history, clock, cache, left>>

\* ReportService: one SELECT, which sees what is committed when it starts.
Generate(r) ==
    /\ request[r].phase \in {"missed", "bypassed"}
    /\ request' = [request EXCEPT
          ![r].phase = IF request[r].phase = "missed" THEN "writing" ELSE "answered",
          ![r].figures = Figures(request[r].kind, Stock)]
    /\ UNCHANGED <<history, clock, cache, errors, left>>

\* The database fails, which is all that fails a request.
GenerateRaises(r) ==
    /\ request[r].phase \in {"missed", "bypassed"} /\ errors < MaxErrors
    /\ request' = [request EXCEPT ![r].phase = "unavailable"]
    /\ errors' = errors + 1
    /\ UNCHANGED <<history, clock, cache, left>>

\* Mutant: without EX.
WrittenForever(r) ==
    [cache EXCEPT ![Key(request[r].kind)] =
        [figures |-> request[r].figures, expires |-> clock + left.ticks + TTL + 1]]

\* redis.set with EX, over whatever another miss has written meanwhile.
Written(r) ==
    [cache EXCEPT ![Key(request[r].kind)] =
        [figures |-> request[r].figures, expires |-> clock + TTL]]

Write(r) ==
    /\ request[r].phase = "writing"
    /\ cache' = Written(r)
    /\ request' = [request EXCEPT ![r].phase = "answered"]
    /\ UNCHANGED <<history, clock, errors, left>>

\* The write fails, or it is done and its reply is lost.
WriteFails(r) ==
    /\ request[r].phase = "writing" /\ errors < MaxErrors
    /\ cache' \in {cache, Written(r)}
    /\ request' = [request EXCEPT ![r].phase = "answered"]
    /\ errors' = errors + 1
    /\ UNCHANGED <<history, clock, left>>

Next ==
    \/ Tick
    \/ \E s \in Stocks : CommitStock(s)
    \/ \E r \in Requests, kind \in Kinds : Ask(r, kind)
    \/ \E r \in Requests :
          \/ Hit(r) \/ Miss(r) \/ Bypass(r)
          \/ Generate(r) \/ GenerateRaises(r) \/ Write(r) \/ WriteFails(r)

\* The event loop runs what is ready.
Proceed(r) == Hit(r) \/ Miss(r) \/ Generate(r) \/ Write(r)

-----------------------------------------------------------------------------
(* Properties. *)

\* What the history, the cache and the handlers may hold.
TypeOK ==
    /\ clock \in Nat /\ errors \in 0 .. MaxErrors
    /\ left.requests \in Nat /\ left.commits \in Nat /\ left.ticks \in Nat
    /\ \A i \in DOMAIN history : history[i].stock \in Stocks /\ history[i].at \in 0 .. clock
    /\ \A key \in Keys : cache[key] # None => cache[key].expires <= clock + TTL
    /\ \A r \in Requests :
          /\ request[r].phase \in {"idle", "reading", "missed", "bypassed", "writing",
                                   "answered", "unavailable"}
          /\ Active(r) => request[r].kind \in Kinds /\ clock <= request[r].asked + Latency

Answered(r) == request[r].phase = "answered"

\* "Slightly stale figures are an acceptable trade-off": an answer, cached or not,
\* is the report asked for of one committed stock, and slightly is a TTL and the
\* time a request takes, although a slow miss may write figures older than those
\* it overwrites, and have them served for another TTL.
FreshEnough ==
    \A r \in Requests : Answered(r) =>
        \E i \in DOMAIN history :
            /\ request[r].figures = Figures(request[r].kind, history[i].stock)
            /\ i < Len(history) =>
                  history[i + 1].at + TTL + Latency > request[r].asked

\* "A cache outage must not take the underlying endpoint down with it": each
\* request is answered, unless the database itself is unavailable.
AlwaysAnswered ==
    \A r \in Requests :
        request[r].phase = "reading" ~> request[r].phase \in {"answered", "unavailable"}
=============================================================================
