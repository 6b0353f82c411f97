----------------------------- MODULE BackOffice -----------------------------
(***************************************************************************)
(* What runs beside the commands: the Celery worker, the report endpoints  *)
(* and the movement history.  The CSV tasks and the endpoints compute the  *)
(* same reports of the stock that movements go on changing, and the        *)
(* history lists those movements.                                          *)
(***************************************************************************)
EXTENDS Tasks

CONSTANTS
    Requests, Stocks, FirstStock, TTL, Latency, MaxErrors,      \* of ReportCache
    Readers, PageSize                                           \* of MovementHistory

ASSUME BackOfficeAssumption ==
    /\ TTL \in Nat \ {0} /\ Latency \in Nat /\ MaxErrors \in Nat /\ PageSize \in Nat \ {0}
    /\ FirstStock \in Stocks
    /\ \A load \in Loads :
          /\ load.requests \in Nat /\ load.commits \in Nat /\ load.ticks \in Nat
          /\ load.lists \in Nat /\ load.errors \in 0 .. MaxErrors
    /\ \A s \in Stocks : DOMAIN s \subseteq Pairs /\ \A pw \in DOMAIN s : s[pw] \in Records

VARIABLES clock, cache, request, errors, began, reading, left

cacheVars == <<clock, cache, request, errors>>
listVars == <<began, reading>>
vars == <<history, taskVars, cacheVars, listVars, left>>

E == INSTANCE ReportCache
L == INSTANCE MovementHistory

\* Transactions that commit one after the other may have begun in any order;
\* the order is left open only where the history is listed.
Begun(load) ==
    {f \in [1 .. load.commits -> 1 .. load.commits] :
        /\ \A i, j \in 1 .. load.commits : f[i] = f[j] => i = j
        /\ load.lists = 0 => \A i \in 1 .. load.commits : f[i] = i}

Init ==
    /\ TasksInit /\ E!Init /\ L!Init
    /\ \E load \in Loads :
          /\ orders = [alerts |-> load.alerts, exports |-> load.exports]
          /\ faults = MaxFaults - load.faults
          /\ left = [requests |-> load.requests, commits |-> load.commits,
                     ticks |-> load.ticks, lists |-> load.lists]
          /\ errors = MaxErrors - load.errors
          /\ began \in Begun(load)

Next ==
    \/ TasksNext /\ UNCHANGED <<history, cacheVars, listVars, left>>
    \/ E!Next /\ UNCHANGED <<taskVars, listVars>>
    \/ L!Next /\ UNCHANGED <<taskVars, cacheVars>>

Spec == Init /\ [][Next]_vars

\* The worker's children and the event loop's handlers do what is ready.
Fairness ==
    /\ \A k \in Children : WF_taskVars(Proceed(k))
    /\ \A r \in Requests : WF_cacheVars(E!Proceed(r))

FairSpec == Spec /\ Fairness

-----------------------------------------------------------------------------
(* What the components promise side by side.  The properties of Tasks are    *)
(* stated there, with the code they are about; so are those of the others. *)

\* The types of Tasks and of ReportCache.
TypeOK == TasksTypeOK /\ E!TypeOK

\* ReportCache: an answer is the report of a stock, stale by a TTL and a request's
\* time at most.
FreshEnough == E!FreshEnough

\* ReportCache: Redis fails no request.
AlwaysAnswered == E!AlwaysAnswered

\* MovementHistory: paging loses no movement.
HistoryComplete == L!HistoryComplete
=============================================================================
