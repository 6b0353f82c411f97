-------------------------------- MODULE Tasks --------------------------------
(***************************************************************************)
(* The Celery tasks a user waits for: the alert emails (app/tasks/         *)
(* notifications.py, app/core/email.py), which are retried, and the CSV    *)
(* exports (app/tasks/reports.py), which are not; under the application's  *)
(* settings (app/tasks/celery_app.py: acks_late, time limits, results) and *)
(* the lifecycle signals (app/tasks/monitoring.py).                        *)
(*                                                                         *)
(* A message is taken by a child process of the worker and acknowledged    *)
(* after its result is stored, so it can be delivered again after anything *)
(* the task has already done.                                              *)
(***************************************************************************)
EXTENDS Reports, Sequences

CONSTANTS
    Alerts,         \* alerts that are raised and escalated
    Children,       \* the worker's child processes
    MaxRetries,     \* max_retries of send_low_stock_alert_email
    None,           \* no message, no mail, no file, no figures
    Unknown,        \* a report kind there is not
    MaxTasks,       \* bound: tasks there are in a behaviour
    MaxVersions,    \* bound: the creation and the escalations of an alert
    MaxFaults,      \* bound: lost deliveries, refusals, kills, time limits
    Loads           \* bound: alerts, exports and faults of a behaviour

ASSUME TasksAssumption ==
    /\ IsFiniteSet(Children) /\ \A kind \in Kinds : None \notin Report(kind)
    /\ MaxTasks \in Nat /\ MaxRetries \in Nat /\ MaxVersions \in Nat /\ MaxFaults \in Nat
    /\ \A load \in Loads :
          /\ load.alerts \in Nat /\ load.faults \in 0 .. MaxFaults
          /\ load.exports \in Seq(Kinds \cup {Unknown})

VARIABLES
    history,        \* the committed stocks, each with the time of its commit
    alert,          \* how often each alert was committed: its version
    reacting,       \* alerts committed and not yet enqueued, with their version
    task,           \* the tasks enqueued, in order
    result,         \* the result backend, for each task
    queue,          \* the broker's messages: task, retries and delivery
    child,          \* what each child process is doing
    timed,          \* _start_times of each child process
    mails,          \* what the SMTP server accepted for each task: versions
    files,          \* the files of the reports directory
    again,          \* history: per task, reasons to run it again after its work
    attempts,       \* history: per task, how many of its attempts raised
    ended,          \* history: per task, the ways its attempts ended it
    faults,         \* how much of MaxFaults is used up
    orders          \* alerts that may still be committed, exports to be asked for

alertVars == <<alert, reacting>>
brokerVars == <<task, result, queue>>
workVars == <<mails, files, again, attempts, ended>>
taskVars == <<alert, reacting, task, result, queue, child, timed, mails, files,
              again, attempts, ended, faults, orders>>

Stock == history[Len(history)].stock
Free == [phase |-> "idle", message |-> None, version |-> 0, figures |-> None, file |-> None]
Pending == [state |-> "PENDING", file |-> None]

\* What a child is at work on.
Held(k) == child[k].message.task
IsEmail(n) == task[n].kind = "email"

TasksInit ==
    /\ alert = [a \in Alerts |-> 0] /\ reacting = {}
    /\ task = <<>> /\ result = <<>> /\ queue = {}
    /\ child = [k \in Children |-> Free] /\ timed = [k \in Children |-> {}]
    /\ mails = <<>> /\ files = {} /\ again = <<>> /\ attempts = <<>> /\ ended = <<>>
    /\ \E load \in Loads :
          /\ orders = [alerts |-> load.alerts, exports |-> load.exports]
          /\ faults = MaxFaults - load.faults

-----------------------------------------------------------------------------
(* Tasks are enqueued. *)

\* .delay() hands a message to the broker, and the id of the task to the caller.
Enqueue(t) ==
    /\ task' = Append(task, t)
    /\ result' = Append(result, Pending)
    /\ queue' = queue \cup {[task |-> Len(task) + 1, retries |-> 0, delivery |-> 0]}
    /\ mails' = Append(mails, <<>>)
    /\ again' = Append(again, 0) /\ attempts' = Append(attempts, 0)
    /\ ended' = Append(ended, {})

\* Mutant: the email is enqueued before the commit.
CommitAlertLate(a) ==
    \/ /\ orders.alerts > 0 /\ alert[a] < MaxVersions
       /\ ~ \E n \in DOMAIN task : task[n].about = a /\ task[n].since > alert[a]
       /\ reacting' = reacting \cup {[about |-> a, version |-> alert[a] + 1]}
       /\ orders' = [orders EXCEPT !.alerts = @ - 1]
       /\ UNCHANGED <<alert, brokerVars, child, timed, workVars, faults>>
    \/ /\ \E n \in DOMAIN task : task[n].about = a /\ task[n].since > alert[a]
       /\ alert' = [alert EXCEPT ![a] = @ + 1]
       /\ UNCHANGED <<reacting, orders, brokerVars, child, timed, workVars, faults>>

\* AlertService commits a new or escalated alert, which then is reacted to.
CommitAlert(a) ==
    /\ orders.alerts > 0 /\ alert[a] < MaxVersions
    /\ alert' = [alert EXCEPT ![a] = @ + 1]
    /\ reacting' = reacting \cup {[about |-> a, version |-> alert[a] + 1]}
    /\ orders' = [orders EXCEPT !.alerts = @ - 1]
    /\ UNCHANGED <<brokerVars, child, timed, workVars, faults>>

\* _enqueue_notification, with the id of the alert alone.
EnqueueNotification(x) ==
    /\ x \in reacting
    /\ reacting' = reacting \ {x}
    /\ Enqueue([kind |-> "email", about |-> x.about, since |-> x.version])
    /\ UNCHANGED <<alert, child, timed, files, faults, orders>>

\* The broker refuses, which is logged and swallowed.
EnqueueFails(x) ==
    /\ x \in reacting /\ faults < MaxFaults
    /\ reacting' = reacting \ {x}
    /\ faults' = faults + 1
    /\ UNCHANGED <<alert, brokerVars, child, timed, workVars, orders>>

\* Somebody asks for an export, of a kind there is or not.
EnqueueExport ==
    /\ orders.exports # <<>>
    /\ Enqueue([kind |-> "export", about |-> Head(orders.exports), since |-> Len(history)])
    /\ orders' = [orders EXCEPT !.exports = Tail(@)]
    /\ UNCHANGED <<alertVars, child, timed, files, faults>>

-----------------------------------------------------------------------------
(* A child process runs a task. *)

Moves(k, phase) == child' = [child EXCEPT ![k].phase = phase]

\* The backend keeps a success, whatever is stored after it.
Stored(n, r) == [result EXCEPT ![n] = IF @.state = "SUCCESS" THEN @ ELSE r]

\* task_prerun notes the start time under the task's id; task_track_started
\* stores that the task has started.
Take(k, m) ==
    /\ child[k].phase = "idle" /\ m \in queue
    /\ queue' = queue \ {m}
    /\ child' = [child EXCEPT ![k] = [Free EXCEPT !.phase = "started", !.message = m]]
    /\ timed' = [timed EXCEPT ![k] = @ \cup {m.task}]
    /\ result' = Stored(m.task, [state |-> "STARTED", file |-> None])
    /\ UNCHANGED <<alertVars, task, workVars, faults, orders>>

\* The email's context is loaded in one session: the alert as it is now.
LoadContext(k) ==
    /\ child[k].phase = "started" /\ IsEmail(Held(k))
    /\ child' = [child EXCEPT ![k].phase = "loaded",
                              ![k].version = alert[task[Held(k)].about]]
    /\ UNCHANGED <<alertVars, brokerVars, timed, workVars, faults, orders>>

\* No active superuser: a warning, and the task has succeeded.
SkipEmail(k) ==
    /\ child[k].phase = "loaded"
    /\ child' = [child EXCEPT ![k].phase = "succeeded", ![k].version = 0]
    /\ UNCHANGED <<alertVars, brokerVars, timed, workVars, faults, orders>>

\* send_email: the server has accepted the message...
SendEmail(k) ==
    /\ child[k].phase = "loaded"
    /\ mails' = [mails EXCEPT ![Held(k)] = Append(@, child[k].version)]
    /\ Moves(k, "accepted")
    /\ UNCHANGED <<alertVars, brokerVars, timed, files, again, attempts, ended, faults, orders>>

\* ... and the connection is left by a QUIT.
Quit(k) ==
    /\ child[k].phase = "accepted"
    /\ Moves(k, "succeeded")
    /\ UNCHANGED <<alertVars, brokerVars, timed, workVars, faults, orders>>

\* The report of an export is computed by one SELECT.
ComputeReport(k) ==
    /\ child[k].phase = "started" /\ ~IsEmail(Held(k)) /\ task[Held(k)].about # Unknown
    /\ child' = [child EXCEPT ![k].phase = "computed",
                              ![k].figures = Figures(task[Held(k)].about, Stock)]
    /\ UNCHANGED <<alertVars, brokerVars, timed, workVars, faults, orders>>

\* Mutant: the file is named after the report alone.
FileNameByKind(k) == task[Held(k)].about

\* A uuid4, which names a file there was not.
FileName(k) == Cardinality(files) + 1

\* The file is opened for writing, which empties one of that name.
OpenFile(k) ==
    /\ child[k].phase = "computed"
    /\ files' = {f \in files : f.name # FileName(k)} \cup
                {[name |-> FileName(k), kind |-> task[Held(k)].about, figures |-> None]}
    /\ child' = [child EXCEPT ![k].phase = "opened", ![k].file = FileName(k)]
    /\ UNCHANGED <<alertVars, brokerVars, timed, mails, again, attempts, ended, faults, orders>>

\* The rows are written and the file closed.
WriteRows(k) ==
    /\ child[k].phase = "opened"
    /\ files' = {f \in files : f.name # child[k].file} \cup
                {[name |-> child[k].file, kind |-> task[Held(k)].about,
                  figures |-> child[k].figures]}
    /\ Moves(k, "succeeded")
    /\ UNCHANGED <<alertVars, brokerVars, timed, mails, again, attempts, ended, faults, orders>>

-----------------------------------------------------------------------------
(* A task fails, and is retried or not. *)

Running == {"started", "loaded", "accepted", "computed", "opened"}

\* An exception: the database, the SMTP server, the disk, an unknown kind, the
\* soft time limit.
Raises(k) ==
    /\ child[k].phase \in Running \ {"accepted"}
    /\ Moves(k, "raised")
    /\ attempts' = [attempts EXCEPT ![Held(k)] = @ + 1]
    /\ UNCHANGED <<alertVars, brokerVars, timed, mails, files, again, ended, faults, orders>>

\* The server has accepted the message and answers the QUIT with an error, or the
\* soft time limit strikes here.
QuitRaises(k) ==
    /\ child[k].phase = "accepted" /\ faults < MaxFaults
    /\ Moves(k, "raised")
    /\ attempts' = [attempts EXCEPT ![Held(k)] = @ + 1]
    /\ again' = [again EXCEPT ![Held(k)] = @ + 1]
    /\ faults' = faults + 1
    /\ UNCHANGED <<alertVars, brokerVars, timed, mails, files, ended, orders>>

\* Mutant: one retry too few.
RetriableLess(k) == IsEmail(Held(k)) /\ child[k].message.retries + 1 < MaxRetries

\* autoretry_for and max_retries.
Retriable(k) == IsEmail(Held(k)) /\ child[k].message.retries < MaxRetries

\* The task enqueues itself again...
Retry(k) ==
    /\ child[k].phase = "raised" /\ Retriable(k)
    /\ queue' = queue \cup {[child[k].message EXCEPT !.retries = @ + 1]}
    /\ Moves(k, "retried")
    /\ UNCHANGED <<alertVars, task, result, timed, workVars, faults, orders>>

\* ... which the broker may refuse: the message is rejected, and not requeued.
RetryRefused(k) ==
    /\ child[k].phase = "raised" /\ Retriable(k) /\ faults < MaxFaults
    /\ Moves(k, "rejected")
    /\ faults' = faults + 1
    /\ UNCHANGED <<alertVars, brokerVars, timed, workVars, orders>>

\* Mutant: the last attempt is not seen to be the last.
GiveUpLate(k) ==
    /\ child[k].phase = "raised" /\ child[k].message.retries > MaxRetries
    /\ Moves(k, "failed")
    /\ UNCHANGED <<alertVars, brokerVars, timed, workVars, faults, orders>>

GiveUp(k) ==
    /\ child[k].phase = "raised" /\ ~Retriable(k)
    /\ Moves(k, "failed")
    /\ UNCHANGED <<alertVars, brokerVars, timed, workVars, faults, orders>>

-----------------------------------------------------------------------------
(* Results and acknowledgements. *)

\* Mutant: the start time is removed on success only.
ReleasedOnSuccess(k) ==
    IF child[k].phase = "succeeded" THEN timed[k] \ {Held(k)} ELSE timed[k]

\* task_postrun removes the start time, whatever the outcome.
Released(k) == timed[k] \ {Held(k)}

\* The state that is stored for an outcome.  A rejected message has none: its
\* result stays what it was.
StateOf == [succeeded |-> "SUCCESS", failed |-> "FAILURE", retried |-> "RETRY"]

\* The result is stored; the message is still the worker's.
Settle(k) ==
    /\ \/ /\ child[k].phase \in DOMAIN StateOf
          /\ result' = Stored(Held(k), [state |-> StateOf[child[k].phase], file |-> child[k].file])
       \/ child[k].phase = "rejected" /\ UNCHANGED result
    /\ ended' = IF child[k].phase = "retried" THEN ended
                ELSE [ended EXCEPT ![Held(k)] = @ \cup {child[k].phase}]
    /\ timed' = [timed EXCEPT ![k] = Released(k)]
    /\ Moves(k, "settled")
    /\ UNCHANGED <<alertVars, task, queue, mails, files, again, attempts, faults, orders>>

\* Mutant: the message is not acknowledged.
AcknowledgeNot(k) ==
    /\ child[k].phase = "settled"
    /\ child' = [child EXCEPT ![k] = Free]
    /\ queue' = IF attempts[Held(k)] + Len(mails[Held(k)]) < 3
                THEN queue \cup {child[k].message} ELSE queue
    /\ UNCHANGED <<alertVars, task, result, timed, workVars, faults, orders>>

Acknowledge(k) ==
    /\ child[k].phase = "settled"
    /\ child' = [child EXCEPT ![k] = Free]
    /\ UNCHANGED <<alertVars, brokerVars, timed, workVars, faults, orders>>

\* The hard time limit, or the death of the child process: the task has failed,
\* it is acknowledged (reject_on_worker_lost is not set) and this attempt is not
\* retried.
Killed(k) ==
    /\ child[k].phase \notin {"idle", "settled"} /\ faults < MaxFaults
    /\ result' = Stored(Held(k), [state |-> "FAILURE", file |-> None])
    /\ ended' = [ended EXCEPT ![Held(k)] = @ \cup {"killed"}]
    /\ child' = [child EXCEPT ![k] = Free]
    /\ timed' = [timed EXCEPT ![k] = {}]
    /\ faults' = faults + 1
    /\ UNCHANGED <<alertVars, task, queue, mails, files, again, attempts, orders>>

Redelivery(k) == [child[k].message EXCEPT !.delivery = @ + 1]

\* The connection to the broker is lost, or the visibility timeout is over: the
\* message is delivered again while the child goes on with it.
Redeliver(k) ==
    /\ child[k].phase # "idle" /\ faults < MaxFaults
    /\ queue' = queue \cup {Redelivery(k)}
    /\ again' = [again EXCEPT ![Held(k)] = @ + 1]
    /\ faults' = faults + 1
    /\ UNCHANGED <<alertVars, task, result, child, timed, mails, files, attempts, ended, orders>>

\* Mutant: messages are acknowledged when they are taken (no acks_late).
WorkerDiesAckedEarly ==
    /\ faults < MaxFaults
    /\ \E k \in Children : child[k].phase # "idle"
    /\ child' = [k \in Children |-> Free]
    /\ timed' = [k \in Children |-> {}]
    /\ faults' = faults + 1
    /\ UNCHANGED <<alertVars, brokerVars, workVars, orders>>

\* The worker goes down as a whole and is started again.
WorkerDies ==
    /\ faults < MaxFaults
    /\ LET busy == {k \in Children : child[k].phase # "idle"}
       IN  /\ busy # {}
           /\ queue' = queue \cup {Redelivery(k) : k \in busy}
           /\ again' = [n \in DOMAIN again |->
                           again[n] + Cardinality({k \in busy : Held(k) = n})]
    /\ child' = [k \in Children |-> Free]
    /\ timed' = [k \in Children |-> {}]
    /\ faults' = faults + 1
    /\ UNCHANGED <<alertVars, task, result, mails, files, attempts, ended, orders>>

-----------------------------------------------------------------------------
TasksNext ==
    \/ \E a \in Alerts : CommitAlert(a)
    \/ \E x \in reacting : EnqueueNotification(x) \/ EnqueueFails(x)
    \/ EnqueueExport
    \/ \E k \in Children, m \in queue : Take(k, m)
    \/ \E k \in Children :
          \/ LoadContext(k) \/ SkipEmail(k) \/ SendEmail(k) \/ Quit(k)
          \/ ComputeReport(k) \/ OpenFile(k) \/ WriteRows(k)
          \/ Raises(k) \/ QuitRaises(k) \/ Retry(k) \/ RetryRefused(k) \/ GiveUp(k)
          \/ Settle(k) \/ Acknowledge(k) \/ Killed(k) \/ Redeliver(k)
    \/ WorkerDies

TasksSpec == TasksInit /\ [][TasksNext]_taskVars

\* A child does what is next; nothing is assumed of the SMTP server.
Proceed(k) ==
    \/ \E m \in queue : Take(k, m)
    \/ LoadContext(k) \/ SkipEmail(k) \/ SendEmail(k) \/ Quit(k)
    \/ ComputeReport(k) \/ OpenFile(k) \/ WriteRows(k)
    \/ Raises(k) \/ Retry(k) \/ GiveUp(k) \/ Settle(k) \/ Acknowledge(k)

-----------------------------------------------------------------------------
(* Properties. *)

\* Each task has a result, mails and a count of its attempts; messages and
\* children hold tasks there are.
TasksTypeOK ==
    /\ DOMAIN result = DOMAIN task /\ DOMAIN mails = DOMAIN task
    /\ DOMAIN again = DOMAIN task /\ DOMAIN attempts = DOMAIN task /\ DOMAIN ended = DOMAIN task
    /\ \A n \in DOMAIN task :
          /\ task[n].kind = "email" => task[n].about \in Alerts
          /\ task[n].kind = "export" => task[n].about \in Kinds \cup {Unknown}
          /\ result[n].state \in {"PENDING", "STARTED", "RETRY", "SUCCESS", "FAILURE"}
          /\ ended[n] \subseteq {"succeeded", "failed", "rejected", "killed"}
          /\ \A i \in DOMAIN mails[n] : mails[n][i] \in 1 .. MaxVersions
    /\ \A m \in queue : m.task \in DOMAIN task /\ m.retries \in 0 .. MaxRetries
    /\ \A k \in Children : child[k].phase # "idle" =>
          Held(k) \in DOMAIN task /\ child[k].message.retries \in 0 .. MaxRetries
    /\ faults \in 0 .. MaxFaults

AtRest(n) ==
    /\ \A m \in queue : m.task # n
    /\ \A k \in Children : child[k].phase # "idle" => Held(k) # n

\* "Retries up to 3 times": no email that was enqueued is given up before its
\* fourth attempt has raised.  Killed and refused ones end in other ways.
GivenUpLast ==
    \A n \in DOMAIN task : IsEmail(n) /\ "failed" \in ended[n] => attempts[n] > MaxRetries

\* Late acknowledgement loses nothing: a task that nobody holds and no message is
\* about has succeeded or failed, or its own child was killed or its retry
\* refused.  The death of the worker, at any point of any of its tasks, is never
\* the end of one.
NothingLost == \A n \in DOMAIN task : AtRest(n) => ended[n] # {}

\* A mail comes twice only for a reason there was: an exception after the server
\* had accepted it, or a message delivered again.
MailedOncePerReason ==
    \A n \in DOMAIN task : Len(mails[n]) <= 1 + again[n]

\* The task is handed an id and not the alert, so it must find the alert no
\* older than the change that enqueued it, retries and escalations included.
ToldIsCurrent ==
    \A n \in DOMAIN task : \A i \in DOMAIN mails[n] : mails[n][i] >= task[n].since

\* The file a finished export names is whole, whatever other exports, deliveries
\* and kills do to the directory; its figures say of a stock committed since it
\* was asked for what the report means, low stock by "the same rule AlertService
\* applies".
ResultIsWhole ==
    \A n \in DOMAIN task : ~IsEmail(n) /\ result[n].state = "SUCCESS" =>
        \E f \in files :
            /\ f.name = result[n].file /\ f.kind = task[n].about /\ f.figures # None
            /\ \E i \in task[n].since .. Len(history) :
                   Means(f.kind, f.figures, history[i].stock)

\* "Entries are always popped on completion, so this never grows": a child keeps
\* the start time of no task but the one it runs.
TimingsReleased ==
    \A k \in Children :
        timed[k] \subseteq (IF child[k].phase \in {"idle", "settled"} THEN {} ELSE {Held(k)})

\* Every task comes to an end, with the SMTP server down for ever too: it
\* succeeds and says so, or it was given up, killed, or refused its retry.  The
\* result of a refused one stays STARTED, so only the first is promised.
EveryTaskEnds ==
    \A n \in 1 .. MaxTasks :
        n \in DOMAIN task ~>
            /\ n \in DOMAIN task /\ AtRest(n)
            /\ result[n].state = "SUCCESS" \/ ended[n] \cap {"failed", "killed", "rejected"} # {}
=============================================================================
