# Verification of the inventory management API

TLA+ models of the inventory management API (a FastAPI application with async SQLAlchemy on
PostgreSQL, Celery, Redis and WebSockets): its stock, alert and catalogue core, the fan-out of
events to WebSocket clients, the email and export tasks, the cached reports and the movement
history; TLC runs that check them on small instances, and TLAPS proofs of what matters most for
every instance. Paths below are relative to `src/app/` unless they begin with `src/`.

`PROJECT.json` lists the components, runs, mutants (plausible bugs that each checked
property catches), the lines each definition models, findings, hazards and theorems.

    tlc -workers 2 -config MCInventoryCommand.cfg MCInventoryCommand
    tlapm InventoryCommandProofs.tla

## 1. The system

### Components

| Component | State | Operations | Hard behaviour | What makes it correct |
|---|---|---|---|---|
| Movement payloads (`schemas/movement.py`, `models/movement.py`) | none | validation | field combinations per type | only movements of a legal shape reach the service |
| **Inventory command service** (`services/inventory_command.py`, `repositories/inventory.py`) | inventory rows, movement table, row locks | `record_movement` (IN, OUT, TRANSFER) | concurrent requests, first receipts of a pair, opposite transfers, a second leg that fails, crashes | no lost update, stock never negative, stock = history, all or nothing, no deadlock, no request left unanswered once they cease to come, events report what was committed |
| **Alert service** (`services/alert.py`, `repositories/alert.py`) | alerts table | `evaluate_stock_level`, `resolve_alert` | runs after the lock is gone, read and write in separate statements, reaction after the commit | one active alert per pair, alert state follows stock, resolution is final, every alert is emailed |
| **Low-stock sweep** (`tasks/alerts.py`) | page offset, objects of the page | page, evaluate, end | OFFSET without ORDER BY, long session, exception on one row | every row evaluated, alert state heals |
| Database sessions (`core/session.py`) | transaction, loaded objects | commit, rollback, close | objects stay loaded and stale after a commit | nothing of a failed request survives |
| Event publisher (`events/`) | subscriber lists | subscribe, publish | failing subscribers | a failing subscriber reaches nobody else |
| Celery application (`tasks/celery_app.py`) | queue, results, schedule | enqueue, execute, redeliver | late acknowledgement, kills, broker outage | every task ends, and none is lost with the child that held it |
| Notifications (`tasks/notifications.py`, `core/email.py`) | retries | send email | retry after success, redelivery, retries used up | an email is sent again only for a reason, given up only after its last retry, and tells of an alert no older than its cause |
| WebSocket fan-out (`websockets/`, `api/v1/endpoints/websockets.py`) | connection registry per process, relay task | connect, disconnect, broadcast, publish, relay | disconnect during a broadcast, lost or reordered messages, slow clients | who stays connected gets the messages of its channel, in order and none twice; the registry holds exactly the live connections |
| Scheduler and lifespan (`core/scheduler.py`, `main.py`) | jobs, relay task | start, heartbeat, shutdown | shutdown during a broadcast | the registry stays exact and the order kept over exits and starts |
| Response cache (`core/cache.py`, `api/v1/endpoints/reports.py`) | Redis keys with a TTL | get, compute, set | concurrent misses, Redis outages | an answer is stale by the TTL and a request's time at most; Redis fails no request |
| Reports (`services/report.py`, `tasks/reports.py`) | CSV files | aggregations, export tasks | outer joins, empty groups, thresholds that are NULL, kills between opening and writing a file | reports agree with the tables and with the rule of the alerts; a finished export names a whole file |
| Inventory queries (`services/inventory_query.py`) | none | lists, low-stock list | - | single reads |
| Movement history (`api/v1/endpoints/movements.py`) | none | list by product, warehouse or neither, page by page | commits between pages, in another order than `created_at` | a filtered listing loses no movement |
| Warehouse and product catalogues (`services/warehouse.py`, `services/product.py`) | rows, unique code or SKU | create, update, deactivate | check-then-act on the unique key, concurrent updates | keys stay unique, an update is not lost |
| Task monitoring (`tasks/monitoring.py`) | `_start_times` per worker child | prerun, postrun | tasks that fail, are retried or killed | it never grows |
| Authentication (`core/security.py`, `api/deps.py`) | users (read) | token decoding | - | no operation that changes state uses it yet |
| HTTP plumbing, configuration, logging, migrations | none | headers, routing | - | - |

### How they interact

A request to `POST /inventory/movements` runs on its own session (`get_db`) through
`record_movement`: it locks and changes rows, commits, evaluates the alerts of the changed
rows **on the same session but after the commit**, then publishes an event and returns. An
alert evaluation commits its own writes, publishes an alert event and enqueues an email task.
Celery Beat executes the sweep every 15 minutes in another process; it goes through all
inventory rows on one session and evaluates each. An admin resolves alerts through an
endpoint. All of them share the `inventory` and `alerts` tables at READ COMMITTED; the
`alerts` table is never locked and has no unique constraint on active alerts. Events go
through the in-process publisher to the WebSocket listeners, which publish them to Redis; the relay
task of every API process takes them from there and broadcasts them to the connections of its own
process, in which the heartbeat of the scheduler broadcasts as well. The email and export tasks are
taken from Redis by the child processes of a Celery worker. The report endpoints keep their answers
in Redis for a while; the exports compute the same reports without the cache. Both, and the movement
history, only read the tables that `record_movement` goes on changing.

## 2. Modules

| Module | Models |
|---|---|
| `Sums` | the sum of a function over a finite set |
| `SumTheorems` | lemmas about sums, finite sets and induction |
| `Movements` | payload, validation, the rows a movement affects and its effect on each; no state |
| `StockLedger` | the abstract specification: a movement is recorded and its stock changed in one step |
| `InventoryCommand` | `record_movement` by concurrent sessions with transactions and locks; refines `StockLedger` |
| `InventoryCommandProofs` | theorems about `InventoryCommand` |
| `AlertService` | alert evaluation in handlers and sweep, the reaction, manual resolution, the sweep itself |
| `AlertServiceProofs` | theorems about `AlertService` |
| `Catalog` | create, update and deactivate of warehouses and of products, by concurrent sessions |
| `CatalogProofs` | theorems about `Catalog` |
| `OrderedFeed` | the abstract specification of the fan-out: each client is handed publications of its channel in order, with gaps |
| `FanOut` | listeners, Redis pub/sub, relay, registry, broadcasts, `/ws` endpoint, heartbeat and lifespan; refines `OrderedFeed` |
| `FanOutProofs` | theorems about `FanOut` |
| `Reports` | the two report queries with SQL's NULL, and what their figures mean; no state |
| `ReportsProofs` | the theorem that the queries compute what the figures mean |
| `Tasks` | email and export tasks in a Celery worker: messages, children, retries, results, mails, files |
| `ReportCache` | the report endpoints behind `cache_response` |
| `MovementHistory` | `list_movements`, read page by page |
| `BackOffice` | composes `Tasks`, `ReportCache` and `MovementHistory` over one stock and its history |
| `TasksProofs`, `BackOfficeProofs` | lemmas about the steps of `Tasks`; theorems about `BackOffice` |
| `MCInventoryCommand`, `MCAlertService`, `MCCatalog`, `MCFanOut`, `MCBackOffice` | instances for TLC |

### InventoryCommand and the code

State. `records` and `quantity` are the committed inventory table, `movements` the
committed movement table. `lock[r]` is the transaction that holds key `r`: the row lock of
`SELECT ... FOR UPDATE` for a committed row, the pending entry of the unique index for an
uncommitted INSERT. Each worker (one handler with its session) has `pc`, the payload `req`,
the leg it is at, and `work`, the stock of the Inventory objects it has loaded. `own` and
`events` are history: the position of the worker's commit and the published events.

| Action | Code |
|---|---|
| `Receive` | the endpoint with a payload that validates |
| `CheckProduct`, `CheckWarehouse` | `get_by_id_or_raise` at `services/inventory_command.py:98`, `:251`, `:285` |
| `LockRow`, `RowMissing` | `get_by_product_and_warehouse_for_update`: waits for a committed row, does not see a pending INSERT |
| `InsertRow` | `inventory_repository.create`: waits for a pending INSERT of the same key, fails if it commits |
| `ApplyLeg` | the stock check and `+=`/`-=`, flushed; a transfer goes on to its second leg |
| `Commit` | INSERT of the movement, commit, locks released; objects stay loaded |
| `EvaluateAffected` | the alert evaluations; what they do is in `AlertService` |
| `Publish` | the movement event, and the end of the request |
| `Crash` | process or connection lost, or an exception nobody names, at any point |

`Legs` is the decision of `_transfer_stock` to work in the order of the sorted warehouse ids.
Ids are naturals: only their order matters. A failing request is `Fail`: the exception reaches
`get_db`, which closes the session and so rolls back. A result above `MaxInt` is the
database's error for the Integer column.

Abstracted: `reason`, `performed_by`, timestamps, and the text of errors. `is_active` of a
product or warehouse is absent because no line of the service reads it.

### AlertService and the code

State. `quantity` and `threshold` are the committed columns of the inventory rows, `heap` the
order in which an unordered SELECT returns them, `alerts` the alerts table (an alert's id is
its position). Each evaluating session has `step`, the Inventory objects it still has to
evaluate (`todo`, with the values they had when they were loaded) and the Alert it has loaded
(`target`). A sweep also has `skip` and `batch`, its offset and the objects of its latest page.
`outbox` is the set of enqueued email tasks. `used` counts what the bounds limit.

| Action | Code |
|---|---|
| `Move` | a request commits and goes on to `evaluate_stock_level` with the quantities it wrote |
| `Edit` | an out-of-band change of stock or threshold, which the docstring of `tasks/alerts.py` names |
| `Read`, `ReadRaises` | `get_active_by_product_and_warehouse` and the decision; `scalar_one_or_none` raises on two rows |
| `Resolve`, `Escalate`, `Create` | the UPDATE or INSERT and its commit |
| `React` | `_react_to_alert`: the enqueue, which the broker may refuse and which is then swallowed |
| `StartSweep`, `FetchPage`, `FinishSweep` | `_check_low_stock_levels`, page by page |
| `Ask`, `Confirm` | `resolve_alert`: read and check, then UPDATE by id |
| `Crash` | a session dies between two of these |

What a page loads and an UPDATE reorders depends on PostgreSQL: `Moved` allows the new version
of an updated row anywhere in the scan and keeps the order of the others. SQLAlchemy keeps an
object of the latest page in the identity map and a SELECT does not refresh it (`ObjectOf`).
`Move` writes stock directly, in one step: that `record_movement` amounts to that is what
`InventoryCommand` shows.

### Catalog and the code

`WarehouseService` and `ProductService` are the same code but for the name of the unique column,
so one module stands for both; a row has that column ("code"), another column that takes no
nulls ("name") and `is_active`. A payload is a function on the fields that are set, each with a
value or an explicit null; a request to deactivate is the payload that sets `is_active` to false.

| Action | Code |
|---|---|
| `ReceiveCreate`, `ReceiveUpdate` | POST; PUT and DELETE |
| `Load` | `get_by_id_or_raise` |
| `Check` | `get_by_code` / `get_by_sku` when the payload has a new, non-null code; a ConflictError for any row that has it |
| `Write` | the flush: an UPDATE waits for the row, sends the columns that are net changed, none if there are none, and a null is an IntegrityError |
| `InsertKey` | the insertion into the unique index: waits for sessions that hold the code, fails if it is then taken |
| `Commit` | the commit, after which `refresh` only reads |
| `Crash` | a session dies, or PostgreSQL ends it to break a deadlock |

Locks are not variables: who holds a row or a code follows from where the sessions are
(`HoldsRow`, `HoldsCode`).

### FanOut and the code

State. Of each API process: `life`, its relay task (`relay`), the messages Redis has sent to its
subscription (`inbox`, as positions in `bus`), its `_connections` (`subs`, pairs of channel and
connection), and the broadcast that its relay and its heartbeat are each awaiting (`job`: who is left,
who is being sent to, who has failed). `bus` is what was published on `BROADCAST_CHANNEL`, in the
order Redis took it; `outgoing` the calls of listeners that have not published yet. Of each
connection: where its endpoint is, its process, its channel, and whether its transport lives
(`link`). `sent` is history.

| Action | Code |
|---|---|
| `Start`, `Stop`, `Exit`, `Crash` | the lifespan in `main.py`: the relay task and the scheduler; the server closes its WebSockets before the exit; a kill |
| `Raise` | `InProcessEventPublisher.publish` gathers the listeners of an event |
| `Publish`, `PublishFails` | `RedisBroadcaster.publish`; an exception is logged by the publisher |
| `Subscribe`, `SubscribeFails`, `LoseSubscription`, `RelayEnds`, `Relay` | `relay_to_local_clients`: what ends the loop, and one message |
| `Continue` (with `Relay`, `Heartbeat`, `SendReturns`, `SendRaises`) | `ConnectionManager.broadcast` between two awaits: the next target, or the pruning at its end |
| `Heartbeat` | `_broadcast_heartbeat`, one at a time |
| `Accept`, `AcceptRaises`, `Register`, `Leave`, `BadFrame`, `Drop` | the `/ws` endpoint, `connect` and `disconnect`, and the client's transport |

`Listeners` says who publishes an event: `register_websocket_listeners` runs when
`tasks/celery_app.py` is imported, which the API process does through `services/alert.py`, and
again in `main.py`. A listener reaches Redis on a connection of its own, so concurrent calls publish in
any order. A send that neither returns nor raises is a client that does not read: the broadcast waits
for it.

Abstracted: the payload is the position of its publication, and a channel is a model value.
Redis keeps no message for a process without a subscription (`Publish` appends to listening inboxes
only).

### BackOffice and the code

`Tasks`. A `task` is enqueued with what it is `about` (an alert's id, a kind of report) and
`since`: the version of the alert or the length of the history at that time. Its messages are in
`queue`, with their retries and deliveries; `child` is what each child process of the worker does.
`mails` is what the SMTP server accepted for each task, as versions of the alert. `again`,
`attempts` and `ended` are history: how often there was a reason to run a task again after its work,
how many of its attempts raised, and the ways its attempts brought it to an end (it succeeded, was given
up, was killed, or was refused its retry). `result` is what the backend keeps: STARTED from `Take` on
(`task_track_started`), then what `StateOf` says, FAILURE for a killed child, and nothing new for a
retry the broker refused, which Celery rejects without storing a result.

| Action | Code |
|---|---|
| `CommitAlert`, `EnqueueNotification`, `EnqueueFails` | `AlertService` commits and then reacts, with a broker that may refuse |
| `EnqueueExport` | `generate_report_task.delay` |
| `Take` | a child takes a message; `task_prerun`; STARTED is stored |
| `LoadContext`, `SkipEmail`, `SendEmail`, `Quit` | `send_low_stock_alert_email`: one session for the alert and the recipients, then `send_email` up to the QUIT |
| `ComputeReport`, `OpenFile`, `WriteRows` | `generate_report_task`: the SELECT, `open`, the rows |
| `Raises`, `QuitRaises` | an exception or the soft time limit; after the server has accepted the mail |
| `Retry`, `RetryRefused`, `GiveUp` | `autoretry_for`, `max_retries`; a broker that refuses the retry |
| `Settle`, `Acknowledge` | the result, `task_postrun`, the late acknowledgement |
| `Killed`, `Redeliver`, `WorkerDies` | the hard time limit, a lost connection or visibility timeout, the end of the worker |

`ReportCache`. A handler is `reading` the cache, then has `missed` it or `bypassed` it, and after
the SELECT is `writing` it: `Ask`, `Hit`, `Miss`, `Bypass`, `Generate`, `GenerateRaises`,
`Write`, `WriteFails` are the ways through `cache_response`. `Tick` is time, `CommitStock` a movement.

`MovementHistory`. A movement is the place of its commit in `history`; `began` is its
`created_at`, the start of its transaction. `Listed` gives every order the SELECT may return (any, without
a filter, as the query then has no ORDER BY), `Page` what OFFSET and LIMIT cut out of it.
`NextPage` is one request of a client that pages until a page is short.

`Reports` translates the two SELECTs: `Joined` is the outer join, `Count`, `Sum`, `Coalesce` and
`CaseWhen` are SQL's, NULL included; a column is a function on the rows. `Report` is the schema
of a report, `Means` says what the figures should be without the join, and
low stock by the rule of `AlertService`.

`BackOffice` runs the three side by side over one committed stock. Two stocks that follow each
other differ by one movement (`MovementBetween`).

## 3. Runs

| Run | Instance | Checks |
|---|---|---|
| `command` | 2 handlers, 1 product, 2 warehouses and an unknown one of each, stock up to 2, up to 4 movements, from the empty inventory, crashes anywhere; 272 838 states | `TypeOK`, `LockDiscipline`, `NoStaleWork`, `EventsReportCommits`, `NoDeadlock`, `StockMatchesHistory`, `ImplementsLedger`, `EveryRequestEnds` |
| `alerts` | 1 handler with 2 movements, the sweep, 1 admin, 1 edit, one row; 132 411 states | `TypeOK`, `TypeMatchesTrigger`, `ResolvedIsFinal`, `EveryAlertEmailed` |
| `alerts_serial` | one session at a time, 2 rows, 2 movements (transfers too), an edit, a crash, a refused enqueue; 226 524 states | `AtMostOneActive`, `ReflectsMovements`, `Heals` |
| `catalog` | 2 sessions, up to 2 rows, 3 codes, 2 names, payloads with no, one and two fields, nulls, an unknown id; 1.3 million states with symmetry | `TypeOK`, `KeysUnique`, `NoClobber`, `FreshUpdateApplies` |
| `fanout` | 1 API process and the worker, 2 clients, 2 warehouses, 1 event of one or two warehouses (so up to 2 publications), 1 fault; 188 632 states | `TypeOK`, `RegistryExact`, `InBusOrder`, `OwnChannelOnly`, `Delivered`, `Unregistered`, `FeedSpec` |
| `backoffice` | 2 worker children, 2 request handlers, 1 reader, 2 products, 2 warehouses, 3 stocks, nine small loads; 336 146 states | `TypeOK`, `GivenUpLast`, `NothingLost`, `MailedOncePerReason`, `ToldIsCurrent`, `ResultIsWhole`, `TimingsReleased`, `FreshEnough`, `HistoryComplete`, `EveryTaskEnds`, `AlwaysAnswered` |
| `alert_stale` | two handlers on one row | `LowIffAlert` **violated** |
| `alert_sweep_stuck` | two handlers, then sweeps | `Heals` **violated** |
| `alert_resolved_twice` | one movement and two clients of the resolve endpoint | `ResolvedOnce` **violated** |
| `alert_lost_email` | one movement while the broker refuses, then sweeps | `EveryAlertEmailed` **violated** |
| `alert_sweep_skips` | a sweep of two pages and one movement | `SweepsEveryRow` **violated** |
| `fanout_once` | one API process, one client, one event, no fault | `EventOnce` **violated** |

### Why the bounds are enough

* Two handlers suffice for every race on one row (lost update, double INSERT) and for two opposite
  transfers. What more handlers can add is a longer chain of waits: `WaitsAscend` (along a chain the
  rows waited for ascend) and `NoDeadlock` are theorems for any number of handlers and warehouses.
* `MaxInt = 2` with amounts 0 and 1 has an invalid amount, removal of exactly the stock and of
  one more, and an increase beyond the column. Four movements allow both rows to be stocked and two
  opposite transfers to be in flight, and a row to be created, changed by another handler and changed
  again while the first still evaluates.
* One row has every race of evaluations, as an evaluation touches the alerts of its own row
  only. Two rows and a page size of 1 are needed for the second object of a transfer and for
  paging. `MaxStock = 2` with a limit of 1 (default) or 0 (edited) has each of OUT_OF_STOCK,
  LOW_STOCK and no alert, hence escalation, de-escalation, creation and resolution.
* In `Catalog` two sessions and two rows give every race of a look-up with a create or a rename;
  the third code is the one both want. A payload with two fields is needed for an update that
  another session has half overtaken. The theorems cover any number.
* Stock starts full and without alerts in `AlertService`: every other state is reached by
  movements and edits.
* In `FanOut` one event raised in the API process is published twice, so two publications reach
  an inbox and may be reordered against each other; one raised in the worker is published once. Two
  clients give a broadcast a second target while the first send is awaited, and the relay and the
  heartbeat prune the same sets. Two channels and the global one make scoping and the target union
  of a transfer tell. Processes share nothing but `bus`, so a second API process only multiplies
  states; the theorems cover any number.
* In `BackOffice` each behaviour has one of nine budgets (`Loads`): an email with a fault, an
  alert that escalates, two exports with a fault, an unknown kind, a stock that changes under two
  exports of one kind, under requests, requests with a failure, an export beside a request, and
  three movements under two listings. The children, the handlers and the reader share nothing but the
  stock and its history, so larger budgets would repeat these side by side. `MaxRetries = 2` for the
  code's 3 has a first, a middle and a last retry. `TTL = 2` and `Latency = 1`
  have an entry that is written late, hit, and expired within three ticks; three requests are
  one that fills the cache, one that writes over it and one that hits. `PageSize = 1` puts a page
  boundary between any two rows. The stocks have a row under its own threshold and under the default,
  one out of stock, and a warehouse without rows.

### Fairness

* `InventoryCommand`: weak fairness of each handler's `Step`, and nothing else: the event loop runs
  what can run, and PostgreSQL wakes a session whose lock is free. Nothing is assumed of the order in
  which it serves those that wait, so a handler may be passed over as long as others keep coming:
  with weak fairness alone TLC finds one that starves while others insert, fail and insert again.
  `EveryRequestEnds` therefore says that once no further requests come, every one that was taken is
  answered, whoever holds or wants its rows and wherever a holder fails or dies. `Receive` and
  `Crash` have no fairness.
* `AlertService`: weak fairness of `Evaluate` (a session that can go on does) and of `Sweep`
  (Celery Beat starts the sweep again and again). Movements, edits, crashes, admins and
  outages come when they like.
* `Catalog` states no liveness, so no fairness.
* `FanOut`: weak fairness of `Subscribe`, `Relay`, `Exit`, `Register`, `Leave` and of a send
  that can return or raise: the event loop runs what is ready. A send to a client that has stopped
  reading does one or the other in the end, as the server's ping closes the transport. Nothing is
  assumed of events, publishing, starts, faults or clients; `Delivered` speaks of messages
  that are in an inbox.
* `BackOffice`: weak fairness of each child (`Proceed(k)`) and of each handler's
  `Proceed(r)`. A child may take either of success and exception each time, so `EveryTaskEnds` holds
  for an SMTP server that is down for ever too. Commits, arrivals, faults and time come when
  they like.

### What the violated properties show

Each is a statement of the repository itself, and each counterexample is a few steps long.

* `alert_stale`. `src/README.md:168` says "Alert state must reflect the movement that just
  happened before the request returns". Evaluation starts after the commit has released the row
  lock (`services/inventory_command.py:140`) with the quantity in memory; two requests evaluate
  in the other order and the older one wins. `ReflectsMovements` in `alerts_serial` shows that
  the statement holds when requests do not overlap.
* `alert_sweep_stuck`. `tasks/alerts.py:6` calls the sweep self-healing. Two handlers both find
  no active alert and both create one; then `scalar_one_or_none` (`repositories/alert.py:56`)
  raises in every evaluation of that pair, the sweep does not catch it, and this row and the rows
  after it are never repaired again. `Heals` holds in `alerts_serial`.
* `alert_resolved_twice`. `services/alert.py:122` documents a ConflictError "If the alert is already
  resolved". Two clients that have both read the active alert both pass the check, both write and
  are both answered 200; nothing tells the second that the alert was resolved before.
* `alert_lost_email`. `services/alert.py:168` relies on the sweep to make up for an email task
  the broker refused; the sweep finds the alert unchanged and enqueues nothing.
* `alert_sweep_skips`. `tasks/alerts.py:28` says "every inventory record". A row updated between
  two pages can move behind the offset.
* `fanout_once`. `websockets/listeners.py:11` says that "register_websocket_listeners is called
  once at application startup", and `websockets/manager.py:84` that "Global subscribers always receive
  the message exactly once". `subscribe()` appends, and the listeners are registered at `main.py:32` and at
  `tasks/celery_app.py:75`, which the API process imports as well: every event of the API process is
  published twice. `InBusOrder` and `FeedSpec` in `fanout` show that each *publication* reaches a
  client once at most.

### Observations that no run states

* `quantity_at_trigger` is overwritten by an escalation (`models/alert.py:44` documents the
  quantity at the moment of triggering), and `threshold` is not refreshed with it, so the alert
  event can carry a limit older than its quantity (`events/inventory.py:85`, `:91`).
* A deactivated warehouse or product still takes movements: `is_active` is never read by the
  command service (`models/warehouse.py:20`).
* An object that was loaded inactive and is deactivated sends no UPDATE, because SQLAlchemy sends
  net changes only; when another session has activated the row in between, DELETE answers 200 with
  an active warehouse (`services/warehouse.py:140`). The same holds for every column an update
  sets to the value it had when it was loaded. `FreshUpdateApplies` therefore speaks of rows
  nobody has changed since they were loaded.
* `services/warehouse.py:105` documents a ConflictError for a code "already used by a different
  warehouse"; the look-up also finds the same warehouse, when another session has just given it
  that code.
* An explicit null for `name`, `code` or `is_active` validates and ends in an IntegrityError
  nothing maps, so in a 500.
* The heartbeat is documented for "every locally connected WebSocket client" (`core/scheduler.py:28`)
  and is broadcast to the global channel (`:37`), so clients of a warehouse channel get none.
* `relay_to_local_clients` "Runs until cancelled" (`websockets/pubsub.py:101`), but a lost Redis
  connection ends it, and nothing starts it again: the process delivers no event any more. At shutdown
  awaiting it raises that exception again and skips `close()` (`main.py:120`).
* One client that does not read holds up a broadcast, and the messages behind it, until its
  transport is closed.
* `list_movements` promises "most recent first"; without a filter the query has no ORDER BY
  (`api/v1/endpoints/movements.py:58`), so its pages may repeat and miss rows. With a filter ties of
  `created_at` are left to PostgreSQL; `HistoryComplete` supposes there are none.
* The email's "Current quantity" is the quantity at the trigger, and the email is sent although the
  alert may have been resolved meanwhile. The mail server may refuse single recipients, which is
  ignored.
* An email task whose child is killed or whose retry is refused is never retried
  (`reject_on_worker_lost` is not set). After a refused retry its result stays STARTED
  (`tasks/celery_app.py:44`) until it expires, so who polls it waits for nothing. A later RETRY result may replace a FAILURE of another
  delivery; results expire after an hour. A killed export leaves its partial file behind.
* `list_low_stock` says the default threshold is applied at the service layer
  (`repositories/inventory.py:111`); rows without a threshold are left out of it.
* A slow miss can replace newer cached figures by older ones; `FreshEnough` bounds how old.

## 4. Proofs

All theorems hold for every value of the constants that the named assumptions allow: any
number of handlers, products, warehouses, rows, sweeps and admins, and any bound.

### InventoryCommand (`InventoryCommandProofs`)

| Theorem | States |
|---|---|
| `Inductive` | `Spec => []IndInv` |
| `TypeCorrect` | `Spec => []TypeOK`; stock is in `0 .. MaxInt` in the database and in every session |
| `LocksHeldExactly` | `Spec => []LockDiscipline` |
| `NoLostUpdate` | `Spec => []NoStaleWork` |
| `LockOrder` | `Spec => []WaitsAscend` |
| `DeadlockFree` | `Spec => []NoDeadlock` |
| `Refinement` | `Spec => ImplementsLedger` |
| `StockIsHistory` | `Spec => []StockMatchesHistory` |
| `EventsAreTrue` | `Spec => []EventsReportCommits` |

Assumptions: `NoWorker` is no worker, `NoRequest` no payload, ids of known products and
warehouses are among the ids, warehouse ids are naturals, amounts are integers, and there are
finitely many workers (`WorkersAssumption`: an infinite chain of waits is no cycle, but nothing in it
would end either).

Argument. None of these is inductive alone. `NoStaleWork` is preserved by a commit of another
handler only because the rows the two hold are disjoint (`lock` has one holder per row, and by
`LockDiscipline` a handler about to commit holds every row it writes); after an INSERT it needs
that a key without a committed row has stock 0. `LockDiscipline` needs to know which leg a handler
is at. `IndInv` therefore joins the type invariant, where each handler is in its movement
(`Progress`), `LockDiscipline`, `NoStaleWork`, and "no row, no stock". One lemma per action
shows that it is preserved, split by conjunct. `Refinement` follows: at `Commit` a handler
holds all its rows, so by `NoStaleWork` what it writes is the committed stock plus the effect of its
movement, and `Progress` gives the remaining parts of `Recordable`; every other action leaves the
ledger's variables alone. `LockOrder`: a handler that waits and is waited for holds the first leg
of a transfer and waits for the second, whose warehouse id is larger. `DeadlockFree`: of handlers that
all wait for one another the one that waits for the row of the greatest id waits for a handler that
waits for a greater one. `StockIsHistory`: an invariant by the refinement, since appending a movement
leaves the sums over the movements before it alone and adds its effect to the last one.
`EventsAreTrue` needs what a handler remembers after it has let its rows go: `EventInv` says that
the objects of a handler that has committed hold the balance after its *own* movement, not the
committed stock, which others may have changed since. That is what the event states.

### AlertService (`AlertServiceProofs`)

| Theorem | States |
|---|---|
| `TypeCorrect` | `Spec => []TypeOK` |
| `ResolutionIsFinal` | `Spec => ResolvedIsFinal` |
| `AlertsAreConsistent` | `Spec => []TypeMatchesTrigger` |
| `OneActiveAlert` | `SerialSpec => []AtMostOneActive` |
| `AlertsReflectMovements` | `SerialSpec => []ReflectsMovements` |

Assumptions: handlers and sweeps are different sessions, `Rows` is finite (the scan order is a
sequence), thresholds are naturals or the null value, and the stock every row starts with is above the
default threshold (so that a table without alerts is right).

Argument. Lemmas reduce every step of the system to what it can do to the alerts table: nothing,
resolve one alert, rewrite one alert for one inventory object, or append a new one. The properties
of the table are then four cases each, whatever the interleaving. `OneActiveAlert` strengthens
`AtMostOneActive` by two facts of the serial specification: at most one session has evaluations
left, and a session about to create an alert still finds none active for its row.
Edits and admins remain free to come at any time in `SerialSpec`.
The theorem places the blame for duplicates: not in the decision, but in the missing lock or
constraint that would serialise evaluations.

`AlertsReflectMovements` says that between sessions every row has exactly the alert it should have.
While a session runs it does not, so `Reflects` says that every row either has it or is among the
objects the session still has to evaluate, that these objects hold the committed values (those of an
earlier page included, which the identity map returns again), that a decision taken is the right one for
the alerts as they are when it is written, and that a row whose alert is being announced is done.
Then each write completes its row and touches no other, and a session's last step leaves no row that
waits. All this is under `Undisturbed`: a crash, an edit or a resolution by hand breaks the
statement, and the sweep repairs it (`Heals`, a liveness property).

### Catalog (`CatalogProofs`)

| Theorem | States |
|---|---|
| `Inductive` | `Spec => []IndInv` |
| `TypeCorrect` | `Spec => []TypeOK`; no column is ever null |
| `UniqueKeys` | `Spec => []KeysUnique` |
| `NothingClobbered` | `Spec => NoClobber` |
| `FreshUpdates` | `Spec => FreshUpdateApplies` |

Assumptions: the null is not a value, the payloads clients send are payloads the schema accepts.

Argument. Unique codes are not inductive: a commit preserves them only if the code the session is
about to commit is one no committed row has, and that must survive the commits of others. `IndInv`
adds `Exclusive` (two sessions never hold one row or one code, and a code that is held is not
taken) and `Progress` (a session past its look-up has loaded its row, or creates one with all
columns and no null). The look-up of the service does not occur in the argument: the
unique index alone carries it, and the look-up only decides which error most clients see.
`FreshUpdates`: the UPDATE sends the columns that differ from the object as it was loaded, and the
others already have the value the payload asks for if nobody has changed the row since.

### FanOut (`FanOutProofs`)

| Theorem | States |
|---|---|
| `Inductive` | `Spec => []IndInv` |
| `TypeCorrect` | `Spec => []TypeOK` |
| `Registry` | `Spec => []RegistryExact` |
| `Ordered` | `Spec => []InBusOrder` |
| `Scoped` | `Spec => []OwnChannelOnly` |
| `Refinement` | `Spec => FeedSpec` |

Assumptions: the worker is no API process, the null values are no processes, channels or
connections, the global channel is no warehouse's, an event concerns one or two warehouses, bounds
are naturals.

Argument. `RegistryExact` is threatened by the pruning at the end of a broadcast, which removes
connections found dead some awaits ago from channels computed then. `Jobs` therefore says that a
connection a broadcast holds as stale has a dead transport or a finished endpoint, and a
connection is never revived: an open one with a live transport cannot be among them. `Lives` ties
a connection to a living process, so that what a crash forgets belongs to nobody. For `Ordered` a
message passes from the bus to an inbox, to a broadcast, to a client: `Inboxes` keeps an inbox
increasing, `RelayJobs` puts the message being broadcast below everything in the inbox, and
`Histories` puts everything a client of this process was sent below that message if the client is
still among the broadcast's targets, and at most equal otherwise. `Scoped` carries the channel of
the targets in the same way. In the refinement `Publish`, `Accept` and `SendReturns` are the
three steps of the feed; every other action stutters.

### BackOffice (`TasksProofs`, `BackOfficeProofs`)

| Theorem | States |
|---|---|
| `Inductive` | `Spec => []Inv` |
| `TypeCorrect` | `Spec => []TypeOK` |
| `Fresh` | `Spec => []FreshEnough` |
| `MailedOnce` | `Spec => []MailedOncePerReason` |
| `ToldCurrent` | `Spec => []ToldIsCurrent` |
| `GivenUp` | `Spec => []GivenUpLast` |
| `NothingIsLost` | `Spec => []NothingLost` |
| `StartTimesReleased` | `Spec => []TimingsReleased` |
| `ExportsAreWhole` | `Spec => []ResultIsWhole` |
| `HistoryIsComplete` | `Spec => []HistoryComplete` |

Assumptions (`TasksAssumption`, `BackOfficeAssumption`, `ReportsAssumption`): finitely many
children, products and warehouses, bounds and loads of naturals, `TTL` and `PageSize` at least 1,
and `None`, the figures of a file without rows, is no report. Everywhere but in `ExportsAreWhole` it is
left open what the reports compute: `Figures` is not expanded, so `Fresh` holds of any query.

Argument. `FreshEnough` is about the end of a request's way, so `CacheInv` says it of each stage:
an entry holds the report of a stock that was current at some time not earlier than
`expires - TTL - Latency`, a report on its way into the cache or to its reader one current not
earlier than it was asked for. A commit happens now, which is no earlier than those times, so it makes no
stock less current then; a write passes from one stage to the next because a request takes
`Latency` at most. `GivenUpLast` needs that a message has been retried no more often than attempts at
its task raised, strictly fewer times once the child that holds it has raised as well. `NothingLost`
is not inductive, for it says nothing of a task somebody is still at work on: `AliveInv` says that
a task has come to an end, or a message is about it, or a child holds it in a phase from which it will
end it, retry it or give its message back; a child that has enqueued its retry does not count. `ToldIsCurrent`: an alert's version only
grows, and a task was enqueued after the version it carries was committed. `MailedOncePerReason`
counts copies: messages of a task, plus children that may still send its mail, plus mails sent never
exceed one more than the reasons there were. Each step moves a copy along, ends one, or, with a
reason, adds one; `FiniteSetTheorems` give the cardinalities.

`ExportsAreWhole`: `FilesInv` follows the figures from the SELECT to the result. What a child has
computed means a stock committed since its task was enqueued (`Right`; `FiguresMean` below); the file
it has open is without rows and open in no other child; a file that is complete is never touched
again; and the result of a finished task names such a file (`Whole`). A new file's name is one more than
the number of files, so `NamesInv` (names are distinct and not above that number) makes it new, which is
why a redelivered or concurrent run of the same task cannot empty the file a result names. History
only grows, so what is right stays right.

`HistoryIsComplete` compares two listings, the one a client began and the one the next page is cut
from. A movement's place in a filtered listing is the number of matching movements that began later
(`Above`), because transactions begin at different times (`BeganInv`) and the listing is sorted by
that. Commits only add to `Above`. So `Reading` says of each movement that was there when the client
asked: it has been read, or it has at least as many movements above it as rows were read, and then lies on a
later page. A page that is short ends the listing, so nothing has more above it than was
read. A row that is read twice was pushed down, so the rows read are at most the different ones plus the
movements committed since.

### Reports (`ReportsProofs`)

| Theorem | States |
|---|---|
| `FiguresMean` | for every stock, `Figures(kind, stock)` fits the schema `Report(kind)` and `Means` what it says |

Assumptions (`ReportsAssumption`): finitely many products and warehouses, prices and the default
threshold are naturals, NULL is none of these and no row.

Argument. The join of a warehouse is its records, or the single row NULL, whose columns are all
NULL: `CountMeans` and `SumMeans` say that the aggregates see the records alone, and the `COALESCE`
that a SUM of nothing is 0. The totals are sums of the warehouses' figures, and each record is in
one warehouse: a sum over the parts of a set is the sum over the set (`SumOfParts`, `CardOfParts`).

### Sums and induction (`SumTheorems`)

`StockMatchesHistory` and `NoDeadlock` are about histories and sets of any size, so their proofs
need induction. The library's induction principles take an operator as a parameter, which the provers
cannot instantiate; its well-founded orderings are sets, which they can. A set of naturals, or of
subsets of a finite set, that is not empty has a minimal element (`NatSets`, `MinimalSubset`): an
induction is a proof that the set of counterexamples has none. From this follow `Greatest` (a finite set
has a greatest element), that the table in which the fold of the community modules looks its result up
exists and is unique, and so `SumAdds`, `SumTakes`, `SumSame`: a sum does not depend on the order in
which the fold takes the elements. `SumOfParts` and `CardOfParts` go by the same induction over the set.

### Only model-checked

* Liveness: `EveryRequestEnds`, `Heals`, `EveryAlertEmailed`, `Delivered`, `Unregistered`,
  `EveryTaskEnds`, `AlwaysAnswered`. They need fairness, and with it ENABLED, which the prover
  does not reason about.
* The six disagreements of section 3, each a counterexample.

Every invariant and every action property of a passing run is a theorem.

## 5. Not modelled

* Authentication: no route that changes state requires a user yet; decoding a token is a library
  call.
* HTTP plumbing, configuration, logging and migrations hold no state that a property of the
  others depends on. The constraints of the tables appear where they act.
* Connection pools, the SQL of the plain list endpoints, the layout of CSV files and the text
  of mails are input and output.
* The inventory queries are single reads that return rows as they are; their paging is part of the
  sweep.

## 6. Plan

Done, in this order: `Movements`, `StockLedger`, `InventoryCommand`; `AlertService` with the
sweep; `Catalog`; `OrderedFeed`, `FanOut`; `Reports`, `Tasks`, `ReportCache`,
`MovementHistory`, `BackOffice`; each with its run and its
proofs.

Left, in order of weight:

1. The composition of `Catalog` with `InventoryCommand`, once the command service reads
   `is_active`: today the two share no state, so there is nothing for a property to relate.
2. Two renames that each take the code the other gives up. They wait for each other only after two
   further sessions have freed both codes for the look-ups; PostgreSQL ends one of them, which
   `Crash` in `Catalog` allows.
3. More than one API process in a run of `FanOut`, which needs an abstraction of the clients to stay
   small; the theorems cover it meanwhile.
