----------------------------- MODULE TasksProofs -----------------------------
(***************************************************************************)
(* What the Celery tasks keep true, step by step, for any number of tasks, *)
(* worker processes, retries, deliveries and faults.  The theorems are     *)
(* those of BackOfficeProofs, where the history that the exports note the  *)
(* length of is part of the specification.                                 *)
(***************************************************************************)
EXTENDS Tasks, FiniteSetTheorems, TLAPS

Versions == 1 .. MaxVersions
States == {"PENDING", "STARTED", "RETRY", "SUCCESS", "FAILURE"}
Ways == {"succeeded", "failed", "rejected", "killed"}
ChildPhases == {"idle", "started", "loaded", "accepted", "computed", "opened", "raised",
                "succeeded", "failed", "retried", "rejected", "settled"}
Task == [kind : {"email"}, about : Alerts, since : Nat]
        \cup [kind : {"export"}, about : Kinds \cup {Unknown}, since : Nat]
Message == [task : Nat, retries : Nat, delivery : Nat]
Child(V) == [phase : ChildPhases, message : Message \cup {None}, version : Nat,
             figures : V, file : V]

-----------------------------------------------------------------------------
(* The inductive invariant. *)

\* Alerts are reacted to with a version they have reached.
AlertsInv ==
    /\ alert \in [Alerts -> 0 .. MaxVersions]
    /\ \A x \in reacting :
          x \in [about : Alerts, version : Versions] /\ x.version <= alert[x.about]
    /\ orders \in [alerts : Nat, exports : Seq(Kinds \cup {Unknown})]

\* What is kept per task.
LogsInv ==
    /\ task \in Seq(Task)
    /\ mails \in Seq(Seq(Nat)) /\ Len(mails) = Len(task)
    /\ again \in Seq(Nat) /\ Len(again) = Len(task)
    /\ attempts \in Seq(Nat) /\ Len(attempts) = Len(task)
    /\ ended \in Seq(SUBSET Ways) /\ Len(ended) = Len(task)
    /\ \E V : result \in Seq([state : States, file : V])
    /\ Len(result) = Len(task)

\* A message has not been retried more often than attempts at its task raised.
MessageOK(m) ==
    /\ m \in Message /\ m.task \in 1 .. Len(task)
    /\ m.retries <= MaxRetries /\ m.retries <= attempts[m.task]

\* Once an attempt has raised it counts as well; an email that is loaded is no
\* older than what enqueued it, and one that is given up was retried to the last.
Raised == {"raised", "failed", "retried", "rejected"}
ChildOK(k) ==
    child[k].phase # "idle" =>
        /\ MessageOK(child[k].message)
        /\ child[k].phase \in Raised => child[k].message.retries < attempts[Held(k)]
        /\ child[k].phase \in {"loaded", "accepted"} =>
              /\ IsEmail(Held(k))
              /\ child[k].version \in Versions /\ child[k].version >= task[Held(k)].since
        /\ child[k].phase = "failed" /\ IsEmail(Held(k)) =>
              child[k].message.retries >= MaxRetries

ChildrenInv ==
    /\ \E V : child \in [Children -> Child(V)]
    /\ \A k \in Children : ChildOK(k)

TaskOK(n) ==
    /\ IsEmail(n) => task[n].since \in Versions /\ task[n].since <= alert[task[n].about]
    /\ IsEmail(n) /\ "failed" \in ended[n] => attempts[n] > MaxRetries
    /\ \A i \in 1 .. Len(mails[n]) : mails[n][i] \in Versions /\ mails[n][i] >= task[n].since

TimedInv == timed \in [Children -> SUBSET Nat] /\ TimingsReleased

TasksInv ==
    /\ AlertsInv /\ LogsInv /\ ChildrenInv /\ TimedInv
    /\ \A m \in queue : MessageOK(m)
    /\ \A n \in 1 .. Len(task) : TaskOK(n)
    /\ faults \in 0 .. MaxFaults

-----------------------------------------------------------------------------
(* What no step takes back. *)

Grows ==
    /\ Len(task) <= Len(task') /\ Len(task') \in Nat
    /\ \A n \in 1 .. Len(task) :
          task'[n] = task[n] /\ attempts'[n] \in Nat /\ attempts'[n] >= attempts[n]
    /\ \A a \in Alerts : alert'[a] \in Nat /\ alert'[a] >= alert[a]

\* The records of the tasks there are.
LEMMA LogsTyped ==
  ASSUME LogsInv
  PROVE  /\ Len(task) \in Nat /\ DOMAIN task = 1 .. Len(task)
         /\ \A n \in 1 .. Len(task) : task[n] \in Task /\ attempts[n] \in Nat
                                      /\ again[n] \in Nat /\ mails[n] \in Seq(Nat)
                                      /\ result[n].state \in States /\ ended[n] \subseteq Ways
         /\ DOMAIN mails = 1 .. Len(task) /\ DOMAIN again = 1 .. Len(task)
         /\ DOMAIN attempts = 1 .. Len(task) /\ DOMAIN result = 1 .. Len(task)
         /\ DOMAIN ended = 1 .. Len(task)
<1> DEFINE T == Task
           S == Seq(Nat)
           W == SUBSET Ways
           R(V) == [state : States, file : V]
<1>1. task \in Seq(T) /\ mails \in Seq(S) /\ again \in Seq(Nat) /\ attempts \in Seq(Nat)
      /\ Len(mails) = Len(task) /\ Len(again) = Len(task) /\ Len(attempts) = Len(task)
      /\ Len(result) = Len(task) /\ ended \in Seq(W) /\ Len(ended) = Len(task)
  BY DEF LogsInv
<1>2. PICK V : result \in Seq(R(V))
  BY DEF LogsInv
<1>3. \A n \in 1 .. Len(task) : result[n].state \in States
  <2>1. ASSUME NEW n \in 1 .. Len(task) PROVE result[n] \in R(V)
    <3> HIDE DEF R
    <3> QED BY <1>1, <1>2
  <2> QED BY <2>1
<1> HIDE DEF T, S, W, R
<1>4. DOMAIN result = 1 .. Len(task)
  BY <1>1, <1>2
<1>5. /\ Len(task) \in Nat /\ DOMAIN task = 1 .. Len(task)
      /\ DOMAIN mails = 1 .. Len(task) /\ DOMAIN again = 1 .. Len(task)
      /\ DOMAIN attempts = 1 .. Len(task) /\ DOMAIN ended = 1 .. Len(task)
  BY <1>1
<1>6. \A n \in 1 .. Len(task) : task[n] \in T /\ attempts[n] \in Nat
                                      /\ again[n] \in Nat /\ mails[n] \in S
                                      /\ ended[n] \in W
  BY <1>1
<1> QED
  BY <1>3, <1>4, <1>5, <1>6 DEF T, S, W

LEMMA MessageKept ==
  ASSUME LogsInv, Grows, NEW m, MessageOK(m)
  PROVE  MessageOK(m)'
<1>1. m \in Message /\ m.task \in 1 .. Len(task) /\ attempts[m.task] \in Nat
  BY LogsTyped DEF MessageOK
<1>2. m.task \in 1 .. Len(task') /\ attempts'[m.task] \in Nat /\ attempts'[m.task] >= attempts[m.task]
  BY <1>1, LogsTyped DEF Grows
<1> QED
  BY <1>1, <1>2 DEF MessageOK, Message

LEMMA ChildKept ==
  ASSUME LogsInv, Grows, NEW k \in Children, ChildOK(k), child'[k] = child[k]
  PROVE  ChildOK(k)'
<1> SUFFICES ASSUME child[k].phase # "idle"
             PROVE  ChildOK(k)'
  BY DEF ChildOK
<1>1. PICK m : m = child[k].message
  OBVIOUS
<1>2. MessageOK(m) /\ m.task \in 1 .. Len(task)
  BY <1>1 DEF ChildOK, MessageOK
<1>3. MessageOK(m)'
  BY <1>2, MessageKept
<1>4. task'[m.task] = task[m.task] /\ attempts'[m.task] >= attempts[m.task]
      /\ attempts[m.task] \in Nat /\ attempts'[m.task] \in Nat /\ m.retries \in Nat
  BY <1>2, LogsTyped DEF Grows, MessageOK, Message
<1> QED
  BY <1>1, <1>3, <1>4 DEF ChildOK, Held, IsEmail

LEMMA TaskKept ==
  ASSUME TasksAssumption, AlertsInv, LogsInv, Grows, NEW n \in 1 .. Len(task), TaskOK(n),
         mails'[n] = mails[n],
         "failed" \in ended'[n] => "failed" \in ended[n]
  PROVE  TaskOK(n)'
<1>1. task'[n] = task[n] /\ attempts'[n] >= attempts[n] /\ attempts[n] \in Nat /\ attempts'[n] \in Nat
      /\ task[n] \in Task
  BY LogsTyped DEF Grows
<1>2. IsEmail(n) => task[n].about \in Alerts
  BY <1>1 DEF Task, IsEmail
<1>3. IsEmail(n) => alert'[task[n].about] >= alert[task[n].about]
                    /\ alert[task[n].about] \in Nat /\ alert'[task[n].about] \in Nat
  BY <1>2 DEF AlertsInv, Grows
<1>4. (IsEmail(n))' = IsEmail(n)
  BY <1>1 DEF IsEmail
<1>5. IsEmail(n) => task[n].since \in Versions /\ task[n].since <= alert'[task[n].about]
  BY <1>3 DEF TaskOK, Versions
<1>6. IsEmail(n) /\ "failed" \in ended'[n] => attempts'[n] > MaxRetries
  BY <1>1 DEF TaskOK, TasksAssumption
<1> QED
  BY <1>1, <1>4, <1>5, <1>6 DEF TaskOK

\* Nothing is taken back where nothing is enqueued, started or committed.
LEMMA Still ==
  ASSUME AlertsInv, LogsInv, task' = task, attempts' = attempts, alert' = alert
  PROVE  Grows
<1>1. Len(task) \in Nat /\ \A n \in 1 .. Len(task) : attempts[n] \in Nat
  BY LogsTyped
<1>2. \A a \in Alerts : alert[a] \in Nat
  BY DEF AlertsInv
<1> QED
  BY <1>1, <1>2 DEF Grows

\* A step of one child that starts, enqueues and acknowledges nothing.
LEMMA ChildStep ==
  ASSUME TasksAssumption, TasksInv, NEW k \in Children, NEW c, NEW W, c \in Child(W),
         child' = [child EXCEPT ![k] = c], c.message = child[k].message,
         child[k].phase # "idle", c.phase \notin {"idle", "settled"},
         child[k].phase # "settled",
         c.phase \in {"loaded", "accepted"} =>
              /\ IsEmail(Held(k))
              /\ c.version \in Versions /\ c.version >= task[Held(k)].since,
         c.phase = "failed" /\ IsEmail(Held(k)) => c.message.retries >= MaxRetries,
         c.phase \in Raised => child[k].phase \in Raised,
         UNCHANGED <<alert, reacting, orders, task, result, queue, timed, attempts, ended>>,
         again' \in Seq(Nat), Len(again') = Len(again), faults' \in 0 .. MaxFaults,
         mails' \in Seq(Seq(Nat)), Len(mails') = Len(mails),
         \A n \in 1 .. Len(task) :
            \A i \in 1 .. Len(mails'[n]) :
               mails'[n][i] \in Versions /\ mails'[n][i] >= task[n].since
  PROVE  TasksInv'
<1>1. Grows
  BY Still DEF TasksInv
<1>2. AlertsInv' /\ LogsInv'
  <2>1. AlertsInv' BY DEF TasksInv, AlertsInv
  <2>2. LogsInv' BY DEF TasksInv, LogsInv
  <2> QED BY <2>1, <2>2
<1>3. PICK V : child \in [Children -> Child(V)]
  BY DEF TasksInv, ChildrenInv
<1>4. child' \in [Children -> Child(V \cup W)] /\ child'[k] = c
  <2>1. c \in Child(V \cup W) /\ child \in [Children -> Child(V \cup W)]
    BY <1>3 DEF Child
  <2> HIDE DEF Child
  <2> QED BY <2>1
<1>5. ASSUME NEW q \in Children PROVE ChildOK(q)'
  <2>0. ChildOK(q) /\ ChildOK(k)
    BY DEF TasksInv, ChildrenInv
  <2>1. CASE q # k
    <3>1. child'[q] = child[q] BY <1>3, <2>1
    <3> QED BY <1>1, <2>0, <3>1, ChildKept DEF TasksInv
  <2>2. CASE q = k
    <3>1. PICK m : m = child[k].message
      OBVIOUS
    <3>2. MessageOK(m) /\ (child[k].phase \in Raised => m.retries < attempts[m.task])
      BY <2>0, <3>1 DEF ChildOK, Held
    <3>3. MessageOK(m)'
      BY <1>1, <3>2, MessageKept DEF TasksInv
    <3>4. child'[k] = c /\ c.message = m /\ task' = task /\ attempts' = attempts
      BY <1>4, <3>1
    <3> QED BY <2>2, <3>1, <3>2, <3>3, <3>4 DEF ChildOK, Held, IsEmail
  <2> QED BY <2>1, <2>2
<1>6. TimedInv'
  <2>1. timed' \in [Children -> SUBSET Nat]
    BY DEF TasksInv, TimedInv
  <2>2. ASSUME NEW q \in Children
        PROVE  timed'[q] \subseteq (IF child'[q].phase \in {"idle", "settled"} THEN {}
                                    ELSE {(Held(q))'})
    <3>1. timed[q] \subseteq (IF child[q].phase \in {"idle", "settled"} THEN {} ELSE {Held(q)})
      BY DEF TasksInv, TimedInv, TimingsReleased
    <3>2. CASE q # k
      <4>1. child'[q] = child[q] BY <1>3, <3>2
      <4> QED BY <3>1, <4>1 DEF Held
    <3>3. CASE q = k
      BY <1>4, <3>1, <3>3 DEF Held
    <3> QED BY <3>2, <3>3
  <2> QED BY <2>1, <2>2 DEF TimedInv, TimingsReleased
<1>7. \A m \in queue' : MessageOK(m)'
  BY <1>1, MessageKept DEF TasksInv
<1>8. ASSUME NEW n \in 1 .. Len(task) PROVE TaskOK(n)'
  BY DEF TasksInv, TaskOK, IsEmail
<1> QED
  BY <1>2, <1>4, <1>5, <1>6, <1>7, <1>8 DEF TasksInv, ChildrenInv

\* One in which no mail is sent either.
LEMMA QuietStep ==
  ASSUME TasksAssumption, TasksInv, NEW k \in Children, NEW c, NEW W, c \in Child(W),
         child' = [child EXCEPT ![k] = c], c.message = child[k].message,
         child[k].phase # "idle", c.phase \notin {"idle", "settled"},
         child[k].phase # "settled",
         c.phase \in {"loaded", "accepted"} =>
              /\ IsEmail(Held(k))
              /\ c.version \in Versions /\ c.version >= task[Held(k)].since,
         c.phase = "failed" /\ IsEmail(Held(k)) => c.message.retries >= MaxRetries,
         c.phase \in Raised => child[k].phase \in Raised,
         UNCHANGED <<alert, reacting, orders, task, result, queue, timed, attempts, ended, mails>>,
         again' \in Seq(Nat), Len(again') = Len(again), faults' \in 0 .. MaxFaults
  PROVE  TasksInv'
<1>1. mails' \in Seq(Seq(Nat)) /\ Len(mails') = Len(mails)
  BY DEF TasksInv, LogsInv
<1>2. \A n \in 1 .. Len(task) :
            \A i \in 1 .. Len(mails'[n]) :
               mails'[n][i] \in Versions /\ mails'[n][i] >= task[n].since
  BY DEF TasksInv, TaskOK
<1> QED
  BY <1>1, <1>2, ChildStep

\* The record of a child that is not idle.
LEMMA ChildTyped ==
  ASSUME TasksInv, NEW k \in Children
  PROVE  /\ k \in DOMAIN child /\ \E V : child[k] \in Child(V)
         /\ child[k].phase # "idle" =>
               /\ child[k].message \in Message /\ Held(k) \in 1 .. Len(task)
               /\ MessageOK(child[k].message) /\ task[Held(k)] \in Task
<1>1. PICK V : child \in [Children -> Child(V)]
  BY DEF TasksInv, ChildrenInv
<1>2. ChildOK(k)
  BY DEF TasksInv, ChildrenInv
<1>3. child[k].phase # "idle" => Held(k) \in 1 .. Len(task)
  BY <1>2 DEF ChildOK, MessageOK, Held
<1> QED
  BY <1>1, <1>2, <1>3, LogsTyped DEF ChildOK, MessageOK, TasksInv

LEMMA LoadContextStep ==
  ASSUME TasksAssumption, TasksInv, NEW k \in Children, LoadContext(k)
  PROVE  TasksInv'
<1>1. PICK n : n = Held(k) /\ n \in 1 .. Len(task) /\ task[n].about \in Alerts /\ IsEmail(n)
  BY ChildTyped DEF LoadContext, IsEmail, Task
<1>2. PICK v : v = alert[task[n].about]
  OBVIOUS
<1>3. v \in Versions /\ v \in Nat /\ v >= task[n].since
  <2>1. TaskOK(n) BY <1>1 DEF TasksInv
  <2>2. v \in 0 .. MaxVersions /\ MaxVersions \in Nat
    BY <1>1, <1>2 DEF TasksInv, AlertsInv, TasksAssumption
  <2> QED BY <1>1, <1>2, <2>1, <2>2 DEF TaskOK, Versions
<1>4. PICK V : child[k] \in Child(V)
  BY ChildTyped
<1>5. PICK c : c = [[child[k] EXCEPT !.phase = "loaded"] EXCEPT !.version = v]
  OBVIOUS
<1>6. child' = [child EXCEPT ![k] = c]
  BY <1>1, <1>2, <1>5, ChildTyped DEF LoadContext
<1>7. c \in Child(V) /\ c.phase = "loaded" /\ c.version = v /\ c.message = child[k].message
  BY <1>3, <1>4, <1>5 DEF Child, ChildPhases
<1>8. /\ UNCHANGED <<alert, reacting, orders, task, result, queue, timed, attempts, ended,
                         mails>>
      /\ child[k].phase = "started"
  BY DEF LoadContext, alertVars, brokerVars, workVars
<1>9. again' \in Seq(Nat) /\ Len(again') = Len(again) /\ faults' \in 0 .. MaxFaults
  BY DEF LoadContext, alertVars, brokerVars, workVars, TasksInv, LogsInv
<1> QED
  BY <1>1, <1>3, <1>6, <1>7, <1>8, <1>9, QuietStep DEF Raised

\* The steps of a child that change its phase and what it has computed.
LEMMA MovesStep ==
  ASSUME TasksAssumption, TasksInv, NEW k \in Children,
         \/ SkipEmail(k) \/ Quit(k) \/ ComputeReport(k) \/ OpenFile(k) \/ WriteRows(k)
         \/ RetryRefused(k) \/ GiveUp(k)
  PROVE  TasksInv'
<1> DEFINE kept == UNCHANGED <<alert, reacting, orders, task, result, queue, timed, attempts,
                               ended, mails>>
           counted == /\ again' \in Seq(Nat) /\ Len(again') = Len(again)
                      /\ faults' \in 0 .. MaxFaults
<1>0. PICK V : child[k] \in Child(V)
  BY ChildTyped
<1>1. /\ again \in Seq(Nat) /\ faults \in 0 .. MaxFaults /\ MaxFaults \in Nat
      /\ Len(task) \in Nat /\ Len(again) = Len(task)
  BY LogsTyped DEF TasksInv, LogsInv, TasksAssumption
<1>2. CASE RetryRefused(k) \/ GiveUp(k) \/ Quit(k) \/ WriteRows(k)
  <2>1. PICK phase \in {"rejected", "failed", "succeeded"} :
            /\ child' = [child EXCEPT ![k].phase = phase]
            /\ phase = "failed" => GiveUp(k)
            /\ phase # "succeeded" => child[k].phase = "raised"
    BY <1>2 DEF RetryRefused, GiveUp, Quit, WriteRows, Moves
  <2>2. PICK c : c = [child[k] EXCEPT !.phase = phase]
    OBVIOUS
  <2>3. child' = [child EXCEPT ![k] = c]
    BY <2>1, <2>2, ChildTyped
  <2>4. c \in Child(V) /\ c.phase = phase /\ c.message = child[k].message
    BY <1>0, <2>2 DEF Child, ChildPhases
  <2>5. child[k].phase \notin {"idle", "settled"}
    BY <1>2 DEF RetryRefused, GiveUp, Quit, WriteRows
  <2>6. phase = "failed" /\ IsEmail(Held(k)) => child[k].message.retries >= MaxRetries
    <3>1. child[k].message.retries \in Nat /\ MaxRetries \in Nat
      BY <2>5, ChildTyped DEF Message, TasksAssumption
    <3> QED BY <2>1, <3>1 DEF GiveUp, Retriable
  <2>7. kept /\ counted
    <3>1. CASE GiveUp(k) \/ Quit(k) \/ WriteRows(k)
      BY <1>1, <3>1 DEF GiveUp, Quit, WriteRows, alertVars, brokerVars, workVars
    <3>2. CASE RetryRefused(k)
      BY <1>1, <3>2 DEF RetryRefused, alertVars, brokerVars, workVars
    <3> QED BY <1>2, <3>1, <3>2
  <2>8. c.phase \in Raised => child[k].phase \in Raised
    BY <2>1, <2>4 DEF Raised
  <2> QED BY <2>1, <2>3, <2>4, <2>5, <2>6, <2>7, <2>8, QuietStep
<1>3. CASE SkipEmail(k) \/ ComputeReport(k) \/ OpenFile(k)
  <2>1. PICK c, W : /\ child' = [child EXCEPT ![k] = c] /\ c \in Child(W)
                    /\ c.phase \in {"succeeded", "computed", "opened"}
                    /\ c.message = child[k].message
    <3>1. CASE SkipEmail(k)
      <4>1. PICK c : c = [[child[k] EXCEPT !.phase = "succeeded"] EXCEPT !.version = 0]
        OBVIOUS
      <4>2. child' = [child EXCEPT ![k] = c]
        BY <3>1, <4>1, ChildTyped DEF SkipEmail
      <4>3. c \in Child(V) /\ c.phase = "succeeded" /\ c.message = child[k].message
        BY <1>0, <4>1 DEF Child, ChildPhases
      <4> QED BY <4>2, <4>3
    <3>2. CASE ComputeReport(k)
      <4>1. PICK f : f = Figures(task[Held(k)].about, Stock)
        OBVIOUS
      <4>2. PICK c : c = [[child[k] EXCEPT !.phase = "computed"] EXCEPT !.figures = f]
        OBVIOUS
      <4>3. child' = [child EXCEPT ![k] = c]
        BY <3>2, <4>1, <4>2, ChildTyped DEF ComputeReport
      <4>4. c \in Child(V \cup {f}) /\ c.phase = "computed" /\ c.message = child[k].message
        BY <1>0, <4>2 DEF Child, ChildPhases
      <4> QED BY <4>3, <4>4
    <3>3. CASE OpenFile(k)
      <4>1. PICK f : f = FileName(k)
        OBVIOUS
      <4>2. PICK c : c = [[child[k] EXCEPT !.phase = "opened"] EXCEPT !.file = f]
        OBVIOUS
      <4>3. child' = [child EXCEPT ![k] = c]
        BY <3>3, <4>1, <4>2, ChildTyped DEF OpenFile
      <4>4. c \in Child(V \cup {f}) /\ c.phase = "opened" /\ c.message = child[k].message
        BY <1>0, <4>2 DEF Child, ChildPhases
      <4> QED BY <4>3, <4>4
    <3> QED BY <1>3, <3>1, <3>2, <3>3
  <2>2. child[k].phase \notin {"idle", "settled"}
    BY <1>3 DEF SkipEmail, ComputeReport, OpenFile
  <2>3. kept /\ counted
    BY <1>1, <1>3 DEF SkipEmail, ComputeReport, OpenFile, alertVars, brokerVars, workVars
  <2> QED BY <2>1, <2>2, <2>3, QuietStep DEF Raised
<1> QED
  BY <1>2, <1>3

\* An email that is sent is the version that was loaded.
LEMMA SendEmailStep ==
  ASSUME TasksAssumption, TasksInv, NEW k \in Children, SendEmail(k)
  PROVE  TasksInv'
<1>1. PICK n \in 1 .. Len(task) : n = Held(k)
  BY ChildTyped DEF SendEmail
<1>2. PICK v : v = child[k].version
  OBVIOUS
<1>3. v \in Versions /\ v \in Nat /\ v >= task[n].since /\ IsEmail(n)
  <2>1. ChildOK(k) BY DEF TasksInv, ChildrenInv
  <2> QED BY <1>1, <1>2, <2>1 DEF SendEmail, ChildOK, Versions
<1>4. PICK V : child[k] \in Child(V)
  BY ChildTyped
<1>5. PICK c : c = [child[k] EXCEPT !.phase = "accepted"]
  OBVIOUS
<1>6. child' = [child EXCEPT ![k] = c]
  BY <1>5, ChildTyped DEF SendEmail, Moves
<1>7. c \in Child(V) /\ c.phase = "accepted" /\ c.version = v /\ c.message = child[k].message
  BY <1>2, <1>4, <1>5 DEF Child, ChildPhases
<1>8. /\ UNCHANGED <<alert, reacting, orders, task, result, queue, timed, attempts, ended>>
      /\ child[k].phase = "loaded"
  BY DEF SendEmail, alertVars, brokerVars
<1>9. again' \in Seq(Nat) /\ Len(again') = Len(again) /\ faults' \in 0 .. MaxFaults
  BY DEF SendEmail, alertVars, brokerVars, TasksInv, LogsInv
<1>10. PICK box \in Seq(Nat) : box = mails[n]
  BY LogsTyped DEF TasksInv
<1>11. mails' = [mails EXCEPT ![n] = Append(box, v)] /\ Append(box, v) \in Seq(Nat)
  BY <1>1, <1>2, <1>3, <1>10 DEF SendEmail
<1>12. mails' \in Seq(Seq(Nat)) /\ Len(mails') = Len(mails)
       /\ \A q \in 1 .. Len(task) : mails'[q] = IF q = n THEN Append(box, v) ELSE mails[q]
  <2> DEFINE S == Seq(Nat)
  <2>1. mails \in Seq(S) /\ Len(mails) = Len(task)
    BY DEF TasksInv, LogsInv
  <2>2. Append(box, v) \in S
    BY <1>11
  <2> HIDE DEF S
  <2>3. mails' \in Seq(S) /\ Len(mails') = Len(mails)
        /\ \A q \in 1 .. Len(task) : mails'[q] = IF q = n THEN Append(box, v) ELSE mails[q]
    BY <1>11, <2>1, <2>2
  <2> QED BY <2>3 DEF S
<1>13. ASSUME NEW q \in 1 .. Len(task), NEW i \in 1 .. Len(mails'[q])
       PROVE  mails'[q][i] \in Versions /\ mails'[q][i] >= task[q].since
  <2>1. TaskOK(q) BY DEF TasksInv
  <2>2. CASE q # n
    BY <1>12, <2>1, <2>2 DEF TaskOK
  <2>3. CASE q = n
    <3>1. mails'[q] = Append(box, v) BY <1>12, <2>3
    <3>0. Len(box) \in Nat BY <1>10
    <3>2. i \in 1 .. Len(box) + 1 BY <1>3, <1>10, <3>1
    <3>3. CASE i = Len(box) + 1
      BY <1>3, <1>10, <2>3, <3>1, <3>3
    <3>4. CASE i \in 1 .. Len(box)
      <4>1. mails'[q][i] = mails[q][i] /\ i \in 1 .. Len(mails[q])
        BY <1>3, <1>10, <2>3, <3>1, <3>4
      <4> QED BY <2>1, <4>1 DEF TaskOK
    <3>5. i = Len(box) + 1 \/ i \in 1 .. Len(box)
      BY <3>0, <3>2
    <3> QED BY <3>3, <3>4, <3>5
  <2> QED BY <2>2, <2>3
<1> QED
  BY <1>1, <1>3, <1>6, <1>7, <1>8, <1>9, <1>12, <1>13, ChildStep DEF Raised

-----------------------------------------------------------------------------
(* Alerts are committed, and tasks enqueued. *)

LEMMA CommitAlertStep ==
  ASSUME TasksAssumption, TasksInv, NEW a \in Alerts, CommitAlert(a)
  PROVE  TasksInv'
<1>1. /\ alert' = [alert EXCEPT ![a] = alert[a] + 1] /\ alert[a] < MaxVersions
      /\ reacting' = reacting \cup {[about |-> a, version |-> alert[a] + 1]}
      /\ orders' = [orders EXCEPT !.alerts = @ - 1] /\ orders.alerts > 0
      /\ UNCHANGED <<task, result, queue, child, timed, mails, again, attempts, ended,
                     faults>>
  BY DEF CommitAlert, brokerVars, workVars
<1>2. alert \in [Alerts -> 0 .. MaxVersions] /\ MaxVersions \in Nat
  BY DEF TasksInv, AlertsInv, TasksAssumption
<1>3. PICK v \in Versions : v = alert[a] + 1 /\ v \in Nat
  BY <1>1, <1>2 DEF Versions
<1>4. alert' \in [Alerts -> 0 .. MaxVersions] /\ alert'[a] = v
      /\ \A b \in Alerts : alert[b] \in Nat /\ alert'[b] \in Nat /\ alert'[b] >= alert[b]
  BY <1>1, <1>2, <1>3 DEF Versions
<1>5. AlertsInv'
  <2>1. ASSUME NEW x \in reacting'
        PROVE  x \in [about : Alerts, version : Versions] /\ x.version <= alert'[x.about]
    <3>1. CASE x \in reacting
      <4>1. x \in [about : Alerts, version : Versions] /\ x.version <= alert[x.about]
        BY <3>1 DEF TasksInv, AlertsInv
      <4>2. x.version \in Nat BY <4>1 DEF Versions
      <4> QED BY <1>4, <4>1, <4>2
    <3>2. CASE x = [about |-> a, version |-> v]
      BY <1>3, <1>4, <3>2
    <3> QED BY <1>1, <1>3, <3>1, <3>2
  <2>2. orders' \in [alerts : Nat, exports : Seq(Kinds \cup {Unknown})]
    <3> DEFINE X == Seq(Kinds \cup {Unknown})
    <3>1. orders \in [alerts : Nat, exports : X]
      BY DEF TasksInv, AlertsInv
    <3> HIDE DEF X
    <3>2. orders' \in [alerts : Nat, exports : X]
      BY <1>1, <3>1
    <3> QED BY <3>2 DEF X
  <2> QED BY <1>4, <2>1, <2>2 DEF AlertsInv
<1>6. LogsInv'
  BY <1>1 DEF TasksInv, LogsInv
<1>7. Grows
  BY <1>1, <1>4, LogsTyped DEF Grows, TasksInv
<1>8. ChildrenInv'
  <2>1. ASSUME NEW k \in Children PROVE ChildOK(k)'
    BY <1>1, <1>7, ChildKept DEF TasksInv, ChildrenInv
  <2> QED BY <1>1, <2>1 DEF TasksInv, ChildrenInv
<1>9. TimedInv'
  BY <1>1 DEF TasksInv, TimedInv, TimingsReleased, Held
<1>10. \A m \in queue' : MessageOK(m)'
  BY <1>1, <1>7, MessageKept DEF TasksInv
<1>11. ASSUME NEW n \in 1 .. Len(task) PROVE TaskOK(n)'
  BY <1>1, <1>7, TaskKept DEF TasksInv
<1> QED
  BY <1>1, <1>5, <1>6, <1>8, <1>9, <1>10, <1>11 DEF TasksInv

\* A task that is enqueued.
LEMMA EnqueueStep ==
  ASSUME TasksAssumption, TasksInv, AlertsInv', alert' = alert, NEW t \in Task,
         (t.kind = "email" => t.since \in Versions /\ t.since <= alert[t.about]),
         Enqueue(t), UNCHANGED <<child, timed>>, faults' = faults
  PROVE  TasksInv'
<1>1. /\ task' = Append(task, t) /\ result' = Append(result, Pending)
      /\ mails' = Append(mails, <<>>) /\ again' = Append(again, 0)
      /\ attempts' = Append(attempts, 0) /\ ended' = Append(ended, {})
  BY DEF Enqueue
<1>2. PICK N \in Nat : N = Len(task)
  BY LogsTyped DEF TasksInv
<1>3. /\ task' \in Seq(Task) /\ Len(task') = N + 1 /\ task'[N + 1] = t
      /\ \A n \in 1 .. N : task'[n] = task[n]
  <2> DEFINE T == Task
  <2>1. task \in Seq(T) /\ t \in T BY DEF TasksInv, LogsInv
  <2> HIDE DEF T
  <2>2. task' \in Seq(T) /\ Len(task') = N + 1 /\ task'[N + 1] = t
        /\ \A n \in 1 .. N : task'[n] = task[n]
    BY <1>1, <1>2, <2>1
  <2> QED BY <2>2 DEF T
<1>4. /\ mails' \in Seq(Seq(Nat)) /\ Len(mails') = N + 1 /\ mails'[N + 1] = <<>>
      /\ \A n \in 1 .. N : mails'[n] = mails[n]
  <2> DEFINE S == Seq(Nat)
  <2>1. mails \in Seq(S) /\ Len(mails) = N /\ <<>> \in S
    BY <1>2 DEF TasksInv, LogsInv
  <2> HIDE DEF S
  <2>2. mails' \in Seq(S) /\ Len(mails') = N + 1 /\ mails'[N + 1] = <<>>
        /\ \A n \in 1 .. N : mails'[n] = mails[n]
    BY <1>1, <1>2, <2>1
  <2> QED BY <2>2 DEF S
<1>5. /\ again' \in Seq(Nat) /\ Len(again') = N + 1
      /\ attempts' \in Seq(Nat) /\ Len(attempts') = N + 1 /\ attempts'[N + 1] = 0
      /\ \A n \in 1 .. N : attempts'[n] = attempts[n] /\ attempts[n] \in Nat
  <2>1. again \in Seq(Nat) /\ Len(again) = N /\ attempts \in Seq(Nat) /\ Len(attempts) = N
    BY <1>2 DEF TasksInv, LogsInv
  <2> QED BY <1>1, <1>2, <2>1
<1>6. /\ \E V : result' \in Seq([state : States, file : V])
      /\ Len(result') = N + 1 /\ result'[N + 1].state = "PENDING"
      /\ \A n \in 1 .. N : result'[n] = result[n]
  <2>1. PICK V : result \in Seq([state : States, file : V])
    BY DEF TasksInv, LogsInv
  <2> DEFINE R == [state : States, file : V \cup {None}]
             Q == [state : States, file : V]
  <2>2. Pending \in R /\ Q \subseteq R /\ Pending.state = "PENDING"
    BY DEF Pending, States
  <2>3. result \in Seq(Q) /\ Len(result) = N
    BY <1>2, <2>1 DEF TasksInv, LogsInv
  <2> HIDE DEF R, Q
  <2>4. result \in Seq(R)
    BY <2>2, <2>3
  <2>5. /\ result' \in Seq(R) /\ Len(result') = N + 1 /\ result'[N + 1] = Pending
        /\ \A n \in 1 .. N : result'[n] = result[n]
    BY <1>1, <1>2, <2>2, <2>3, <2>4
  <2> QED BY <2>2, <2>5 DEF R
<1>7. /\ ended' \in Seq(SUBSET Ways) /\ Len(ended') = N + 1 /\ ended'[N + 1] = {}
       /\ \A n \in 1 .. N : ended'[n] = ended[n]
  <2> DEFINE S == SUBSET Ways
  <2>1. ended \in Seq(S) /\ Len(ended) = N /\ {} \in S
    BY <1>2 DEF TasksInv, LogsInv
  <2> HIDE DEF S
  <2>2. ended' \in Seq(S) /\ Len(ended') = N + 1 /\ ended'[N + 1] = {}
        /\ \A n \in 1 .. N : ended'[n] = ended[n]
    BY <1>1, <1>2, <2>1
  <2> QED BY <2>2 DEF S
<1>8. LogsInv'
  BY <1>3, <1>4, <1>5, <1>6, <1>7 DEF LogsInv
<1>9. Grows
  <2>1. \A a \in Alerts : alert'[a] \in Nat /\ alert'[a] >= alert[a]
    BY DEF TasksInv, AlertsInv
  <2>2. \A n \in 1 .. N : task'[n] = task[n] /\ attempts'[n] \in Nat /\ attempts'[n] >= attempts[n]
    BY <1>3, <1>5
  <2>3. N <= Len(task') /\ Len(task') \in Nat
    BY <1>3
  <2> QED BY <1>2, <2>1, <2>2, <2>3 DEF Grows
<1>10. ChildrenInv'
  <2>1. ASSUME NEW k \in Children PROVE ChildOK(k)'
    BY <1>9, ChildKept DEF TasksInv, ChildrenInv
  <2> QED BY <2>1 DEF TasksInv, ChildrenInv
<1>11. TimedInv'
  BY DEF TasksInv, TimedInv, TimingsReleased, Held
<1>12. ASSUME NEW m \in queue' PROVE MessageOK(m)'
  <2>1. CASE m \in queue
    BY <1>9, <2>1, MessageKept DEF TasksInv
  <2>2. CASE m = [task |-> N + 1, retries |-> 0, delivery |-> 0]
    <3>1. m \in Message /\ m.task = N + 1 /\ m.retries = 0 /\ MaxRetries \in Nat
      BY <1>2, <2>2 DEF Message, TasksAssumption
    <3> QED BY <1>2, <1>3, <1>5, <3>1 DEF MessageOK
  <2> QED BY <1>2, <2>1, <2>2 DEF Enqueue
<1>13. ASSUME NEW n \in 1 .. Len(task') PROVE TaskOK(n)'
  <2>1. CASE n \in 1 .. N
    BY <1>2, <1>4, <1>9, <1>7, <2>1, TaskKept DEF TasksInv
  <2>2. CASE n = N + 1
    <3>1. task'[n] = t /\ ended'[n] = {} /\ mails'[n] = <<>>
      BY <1>3, <1>4, <1>7, <2>2
    <3> QED BY <3>1 DEF TaskOK, IsEmail
  <2> QED BY <1>2, <1>3, <2>1, <2>2
<1> QED
  BY <1>8, <1>10, <1>11, <1>12, <1>13 DEF TasksInv

LEMMA EnqueueSteps ==
  ASSUME TasksAssumption, TasksInv, Len(history) \in Nat,
         EnqueueExport \/ \E x \in reacting : EnqueueNotification(x)
  PROVE  TasksInv'
<1>1. ASSUME NEW x \in reacting, EnqueueNotification(x) PROVE TasksInv'
  <2>1. x \in [about : Alerts, version : Versions] /\ x.version <= alert[x.about]
        /\ x.version \in Nat
    BY DEF TasksInv, AlertsInv, Versions
  <2>2. PICK t \in Task : t = [kind |-> "email", about |-> x.about, since |-> x.version]
    BY <2>1 DEF Task
  <2>3. AlertsInv'
    BY <1>1 DEF EnqueueNotification, TasksInv, AlertsInv
  <2>4. /\ Enqueue(t) /\ UNCHANGED <<child, timed>> /\ alert' = alert /\ faults' = faults
    BY <1>1, <2>2 DEF EnqueueNotification
  <2>5. t.kind = "email" => t.since \in Versions /\ t.since <= alert[t.about]
    BY <2>1, <2>2
  <2> QED BY <2>3, <2>4, <2>5, EnqueueStep
<1>2. ASSUME EnqueueExport PROVE TasksInv'
  <2> DEFINE X == Kinds \cup {Unknown}
  <2>1. orders \in [alerts : Nat, exports : Seq(X)] /\ orders.exports # <<>>
    BY <1>2 DEF TasksInv, AlertsInv, EnqueueExport
  <2>2. Head(orders.exports) \in X /\ Tail(orders.exports) \in Seq(X)
    <3> HIDE DEF X
    <3> QED BY <2>1
  <2>3. PICK t \in Task : t = [kind |-> "export", about |-> Head(orders.exports),
                               since |-> Len(history)]
    BY <2>2 DEF Task
  <2>4. /\ Enqueue(t) /\ UNCHANGED <<child, timed>> /\ alert' = alert /\ faults' = faults
        /\ reacting' = reacting /\ orders' = [orders EXCEPT !.exports = Tail(@)]
    BY <1>2, <2>3 DEF EnqueueExport, alertVars
  <2>5. orders' \in [alerts : Nat, exports : Seq(X)]
    <3> DEFINE Y == Seq(X)
    <3>1. orders \in [alerts : Nat, exports : Y] /\ Tail(orders.exports) \in Y
      BY <2>1, <2>2
    <3> HIDE DEF Y
    <3>2. orders' \in [alerts : Nat, exports : Y]
      BY <2>4, <3>1
    <3> QED BY <3>2 DEF Y
  <2>6. AlertsInv'
    BY <2>4, <2>5 DEF TasksInv, AlertsInv
  <2>7. t.kind # "email"
    BY <2>3
  <2> QED BY <2>4, <2>6, <2>7, EnqueueStep
<1> QED
  BY <1>1, <1>2

LEMMA EnqueueFailsStep ==
  ASSUME TasksAssumption, TasksInv, NEW x \in reacting, EnqueueFails(x)
  PROVE  TasksInv'
<1>1. /\ UNCHANGED <<alert, orders, task, result, queue, child, timed, mails, again, attempts,
                     ended>>
      /\ reacting' = reacting \ {x} /\ faults' \in 0 .. MaxFaults
  BY DEF EnqueueFails, brokerVars, workVars, TasksInv, TasksAssumption
<1>2. AlertsInv'
  BY <1>1 DEF TasksInv, AlertsInv
<1>3. LogsInv' /\ ChildrenInv' /\ TimedInv'
  <2>1. LogsInv' BY <1>1 DEF TasksInv, LogsInv
  <2>2. ChildrenInv'
    BY <1>1 DEF TasksInv, ChildrenInv, ChildOK, MessageOK, Held, IsEmail
  <2>3. TimedInv' BY <1>1 DEF TasksInv, TimedInv, TimingsReleased, Held
  <2> QED BY <2>1, <2>2, <2>3
<1>4. \A m \in queue' : MessageOK(m)'
  BY <1>1 DEF TasksInv, MessageOK
<1>5. \A n \in 1 .. Len(task') : TaskOK(n)'
  BY <1>1 DEF TasksInv, TaskOK, IsEmail
<1> QED
  BY <1>1, <1>2, <1>3, <1>4, <1>5 DEF TasksInv

-----------------------------------------------------------------------------
(* Messages are taken, delivered again and acknowledged. *)

\* What is left to show of a step that commits and enqueues nothing.
LEMMA WorkerStep ==
  ASSUME TasksAssumption, TasksInv,
         UNCHANGED <<alert, reacting, orders, task, mails>>, Grows,
         LogsInv', ChildrenInv', TimedInv', faults' \in 0 .. MaxFaults,
         \A m \in queue' : MessageOK(m)',
         \A n \in 1 .. Len(task) :
            \/ "failed" \in ended'[n] => "failed" \in ended[n]
            \/ IsEmail(n) => attempts'[n] > MaxRetries
  PROVE  TasksInv'
<1>1. AlertsInv'
  BY DEF TasksInv, AlertsInv
<1>2. ASSUME NEW n \in 1 .. Len(task) PROVE TaskOK(n)'
  <2>1. CASE "failed" \in ended'[n] => "failed" \in ended[n]
    BY <2>1, TaskKept DEF TasksInv
  <2>2. CASE IsEmail(n) => attempts'[n] > MaxRetries
    <3>1. TaskOK(n) BY DEF TasksInv
    <3> QED BY <2>2, <3>1 DEF TaskOK, IsEmail
  <2> QED BY <2>1, <2>2
<1> QED
  BY <1>1, <1>2 DEF TasksInv

\* A child that is given another record; the others go on.
LEMMA ChildGiven ==
  ASSUME TasksInv, Grows, NEW k \in Children, NEW c, NEW W, c \in Child(W),
         child' = [child EXCEPT ![k] = c],
         c.phase # "idle" =>
            /\ MessageOK(c.message)'
            /\ c.phase \in Raised => c.message.retries < attempts'[c.message.task]
            /\ c.phase \notin {"loaded", "accepted", "failed"}
  PROVE  ChildrenInv'
<1>1. PICK V : child \in [Children -> Child(V)]
  BY DEF TasksInv, ChildrenInv
<1>2. child' \in [Children -> Child(V \cup W)] /\ child'[k] = c
  <2>1. c \in Child(V \cup W) /\ child \in [Children -> Child(V \cup W)]
    BY <1>1 DEF Child
  <2> HIDE DEF Child
  <2> QED BY <2>1
<1>3. ASSUME NEW q \in Children PROVE ChildOK(q)'
  <2>1. CASE q # k
    <3>1. child'[q] = child[q] BY <1>1, <2>1
    <3> QED BY <3>1, ChildKept DEF TasksInv, ChildrenInv
  <2>2. CASE q = k
    BY <1>2, <2>2 DEF ChildOK, Held
  <2> QED BY <2>1, <2>2
<1> QED
  BY <1>2, <1>3 DEF ChildrenInv

\* Its start times.
LEMMA TimedGiven ==
  ASSUME TasksInv, NEW k \in Children, NEW c, NEW S \in SUBSET Nat,
         child' = [child EXCEPT ![k] = c], timed' = [timed EXCEPT ![k] = S],
         S \subseteq (IF c.phase \in {"idle", "settled"} THEN {} ELSE {c.message.task})
  PROVE  TimedInv'
<1>1. timed' \in [Children -> SUBSET Nat] /\ timed'[k] = S
  BY DEF TasksInv, TimedInv
<1>2. k \in DOMAIN child /\ child'[k] = c
  BY ChildTyped
<1>3. ASSUME NEW q \in Children
      PROVE  timed'[q] \subseteq (IF child'[q].phase \in {"idle", "settled"} THEN {}
                                  ELSE {(Held(q))'})
  <2>1. CASE q # k
    <3>1. child'[q] = child[q] /\ timed'[q] = timed[q]
      BY <2>1, ChildTyped DEF TasksInv, TimedInv
    <3> QED BY <3>1 DEF TasksInv, TimedInv, TimingsReleased, Held
  <2>2. CASE q = k
    BY <1>1, <1>2, <2>2 DEF Held
  <2> QED BY <2>1, <2>2
<1> QED
  BY <1>1, <1>3 DEF TimedInv, TimingsReleased

LEMMA FreeTyped == Free \in Child({None}) /\ Free.phase = "idle" /\ Free.message = None
BY DEF Free, Child, ChildPhases

\* The result backend after something is stored.
LEMMA StoredTyped ==
  ASSUME TasksInv, NEW n \in 1 .. Len(task), NEW s \in States, NEW f,
         result' = Stored(n, [state |-> s, file |-> f])
  PROVE  /\ \E V : result' \in Seq([state : States, file : V])
         /\ Len(result') = Len(result)
         /\ \A q \in 1 .. Len(task) :
               result'[q] = result[q] \/ (q = n /\ result'[q].state = s)
<1>1. PICK V : result \in Seq([state : States, file : V])
  BY DEF TasksInv, LogsInv
<1> DEFINE R == [state : States, file : V \cup {f}]
           Q == [state : States, file : V]
<1>2. PICK r : r = IF result[n].state = "SUCCESS" THEN result[n] ELSE [state |-> s, file |-> f]
  OBVIOUS
<1>3. Q \subseteq R /\ [state |-> s, file |-> f] \in R
  OBVIOUS
<1>4. result \in Seq(Q) /\ Len(result) = Len(task) /\ Len(task) \in Nat
      /\ DOMAIN result = 1 .. Len(task)
  BY <1>1, LogsTyped DEF TasksInv, LogsInv
<1>5. result' = [result EXCEPT ![n] = r]
  BY <1>2 DEF Stored
<1>6. r = result[n] \/ (r.state = s /\ r = [state |-> s, file |-> f])
  BY <1>2
<1> HIDE DEF R, Q
<1>7. result \in Seq(R) /\ r \in R
  BY <1>3, <1>4, <1>6
<1>8. /\ result' \in Seq(R) /\ Len(result') = Len(result)
      /\ \A q \in 1 .. Len(task) : result'[q] = IF q = n THEN r ELSE result[q]
  BY <1>4, <1>5, <1>7
<1>9. \A q \in 1 .. Len(task) : result'[q] = result[q] \/ (q = n /\ result'[q].state = s)
  BY <1>6, <1>8
<1> QED
  BY <1>8, <1>9 DEF R

LEMMA TakeStep ==
  ASSUME TasksAssumption, TasksInv, NEW k \in Children, NEW m \in queue, Take(k, m)
  PROVE  TasksInv'
<1>1. MessageOK(m) /\ m \in Message /\ m.task \in 1 .. Len(task)
  BY DEF TasksInv, MessageOK
<1>2. PICK c : c = [[Free EXCEPT !.phase = "started"] EXCEPT !.message = m]
  OBVIOUS
<1>3. /\ UNCHANGED <<alert, reacting, orders, task, mails, again, attempts, ended, faults>>
      /\ child[k].phase = "idle" /\ queue' = queue \ {m}
      /\ child' = [child EXCEPT ![k] = c]
      /\ timed' = [timed EXCEPT ![k] = timed[k] \cup {m.task}]
      /\ result' = Stored(m.task, [state |-> "STARTED", file |-> None])
  BY <1>2 DEF Take, alertVars, workVars
<1>4. c \in Child({None}) /\ c.phase = "started" /\ c.message = m
  BY <1>1, <1>2, FreeTyped DEF Child, ChildPhases
<1>5. Grows
  BY <1>3, Still DEF TasksInv
<1>6. (\E V : result' \in Seq([state : States, file : V])) /\ Len(result') = Len(result)
  <2>1. PICK s \in States : s = "STARTED"
    BY DEF States
  <2> QED BY <1>1, <1>3, <2>1, StoredTyped
<1>7. LogsInv'
  BY <1>3, <1>6 DEF TasksInv, LogsInv
<1>8. MessageOK(m)'
  BY <1>1, <1>5, MessageKept DEF TasksInv
<1>9. ChildrenInv'
  BY <1>3, <1>4, <1>5, <1>8, ChildGiven DEF Raised
<1>10. TimedInv'
  <2>1. timed[k] = {}
    BY <1>3 DEF TasksInv, TimedInv, TimingsReleased
  <2>2. PICK S \in SUBSET Nat : S = {m.task}
    BY <1>1 DEF Message
  <2>3. timed' = [timed EXCEPT ![k] = S]
    BY <1>3, <2>1, <2>2
  <2>4. S \subseteq (IF c.phase \in {"idle", "settled"} THEN {} ELSE {c.message.task})
    BY <1>4, <2>2
  <2> QED BY <1>3, <2>3, <2>4, TimedGiven
<1>11. \A q \in queue' : MessageOK(q)'
  BY <1>3, <1>5, MessageKept DEF TasksInv
<1> QED
  BY <1>3, <1>5, <1>7, <1>9, <1>10, <1>11, WorkerStep DEF TasksInv

\* An attempt that raises counts, also one whose mail was accepted.
LEMMA RaisesStep ==
  ASSUME TasksAssumption, TasksInv, NEW k \in Children, Raises(k) \/ QuitRaises(k)
  PROVE  TasksInv'
<1>1. PICK m : m = child[k].message
  OBVIOUS
<1>2. PICK V : child[k] \in Child(V)
  BY ChildTyped
<1>3. child[k].phase \notin {"idle", "settled"}
  BY DEF Raises, QuitRaises, Running
<1>4. /\ m \in Message /\ MessageOK(m) /\ Held(k) = m.task /\ m.retries \in Nat
      /\ m.task \in 1 .. Len(task)
  BY <1>1, <1>3, ChildTyped DEF Held, Message, MessageOK
<1>5. PICK c : c = [child[k] EXCEPT !.phase = "raised"]
  OBVIOUS
<1>6. c \in Child(V) /\ c.phase = "raised" /\ c.message = m
  BY <1>1, <1>2, <1>5 DEF Child, ChildPhases
<1>7. /\ UNCHANGED <<alert, reacting, orders, task, result, queue, timed, mails, ended>>
      /\ child' = [child EXCEPT ![k] = c]
      /\ attempts' = [attempts EXCEPT ![m.task] = attempts[m.task] + 1]
  BY <1>4, <1>5, ChildTyped DEF Raises, QuitRaises, Moves, alertVars, brokerVars
<1>8. /\ again \in Seq(Nat) /\ Len(again) = Len(task) /\ Len(task) \in Nat
      /\ attempts \in Seq(Nat) /\ Len(attempts) = Len(task)
      /\ \A n \in 1 .. Len(task) : attempts[n] \in Nat /\ again[n] \in Nat
  BY LogsTyped DEF TasksInv, LogsInv
<1>9. again' \in Seq(Nat) /\ Len(again') = Len(again) /\ faults' \in 0 .. MaxFaults
  <2>1. CASE Raises(k)
    BY <1>8, <2>1 DEF Raises, TasksInv
  <2>2. CASE QuitRaises(k)
    <3>1. again' = [again EXCEPT ![m.task] = again[m.task] + 1]
      BY <1>4, <2>2 DEF QuitRaises
    <3>2. again[m.task] + 1 \in Nat
      BY <1>4, <1>8
    <3>3. faults' \in 0 .. MaxFaults
      BY <2>2 DEF QuitRaises, TasksInv, TasksAssumption
    <3> QED BY <1>4, <1>8, <3>1, <3>2, <3>3
  <2> QED BY <2>1, <2>2
<1>10. /\ attempts' \in Seq(Nat) /\ Len(attempts') = Len(attempts)
       /\ attempts'[m.task] = attempts[m.task] + 1
       /\ \A n \in 1 .. Len(task) : attempts'[n] \in Nat /\ attempts'[n] >= attempts[n]
  BY <1>4, <1>7, <1>8
<1>11. Grows
  <2>1. \A a \in Alerts : alert'[a] \in Nat /\ alert'[a] >= alert[a]
    BY <1>7 DEF TasksInv, AlertsInv
  <2> QED BY <1>7, <1>8, <1>10, <2>1 DEF Grows
<1>12. LogsInv'
  BY <1>7, <1>9, <1>10 DEF TasksInv, LogsInv
<1>13. MessageOK(m)' /\ m.retries < attempts'[m.task]
  <2>1. MessageOK(m)' BY <1>4, <1>11, MessageKept DEF TasksInv
  <2>2. m.retries <= attempts[m.task] /\ attempts[m.task] \in Nat
    BY <1>4, <1>8 DEF MessageOK
  <2> QED BY <1>4, <1>10, <2>1, <2>2
<1>14. ChildrenInv'
  BY <1>6, <1>7, <1>11, <1>13, ChildGiven
<1>15. TimedInv'
  <2>1. timed[k] \in SUBSET Nat /\ timed[k] \subseteq {m.task}
        /\ timed' = [timed EXCEPT ![k] = timed[k]]
    BY <1>3, <1>4, <1>7 DEF TasksInv, TimedInv, TimingsReleased
  <2> QED BY <1>6, <1>7, <2>1, TimedGiven
<1>16. \A q \in queue' : MessageOK(q)'
  BY <1>7, <1>11, MessageKept DEF TasksInv
<1> QED
  BY <1>7, <1>9, <1>11, <1>12, <1>14, <1>15, <1>16, WorkerStep

\* A message that goes back to the queue, for a retry or delivered again.
LEMMA RetryStep ==
  ASSUME TasksAssumption, TasksInv, NEW k \in Children, Retry(k)
  PROVE  TasksInv'
<1>1. PICK m : m = child[k].message
  OBVIOUS
<1>2. PICK V : child[k] \in Child(V)
  BY ChildTyped
<1>3. /\ m \in Message /\ MessageOK(m) /\ Held(k) = m.task /\ m.retries \in Nat
      /\ m.retries < attempts[m.task] /\ m.retries < MaxRetries /\ child[k].phase = "raised"
  BY <1>1, ChildTyped DEF Retry, TasksInv, ChildrenInv, ChildOK, Held, Message, Retriable, Raised
<1>4. PICK c : c = [child[k] EXCEPT !.phase = "retried"]
  OBVIOUS
<1>5. PICK r : r = [m EXCEPT !.retries = m.retries + 1]
  OBVIOUS
<1>6. /\ UNCHANGED <<alert, reacting, orders, task, result, timed, mails, again, attempts, ended,
                     faults>>
      /\ child' = [child EXCEPT ![k] = c] /\ queue' = queue \cup {r}
  BY <1>1, <1>4, <1>5, ChildTyped DEF Retry, Moves, alertVars, workVars
<1>7. c \in Child(V) /\ c.phase = "retried" /\ c.message = m
  BY <1>1, <1>2, <1>4 DEF Child, ChildPhases
<1>8. Grows /\ LogsInv'
  <2>1. Grows BY <1>6, Still DEF TasksInv
  <2>2. LogsInv' BY <1>6 DEF TasksInv, LogsInv
  <2> QED BY <2>1, <2>2
<1>9. MessageOK(m)' /\ m.retries < attempts'[m.task]
  BY <1>3, <1>6, <1>8, MessageKept DEF TasksInv
<1>10. ChildrenInv'
  BY <1>6, <1>7, <1>8, <1>9, ChildGiven
<1>11. TimedInv'
  <2>1. timed[k] \in SUBSET Nat /\ timed[k] \subseteq {m.task}
        /\ timed' = [timed EXCEPT ![k] = timed[k]]
    BY <1>3, <1>6 DEF TasksInv, TimedInv, TimingsReleased
  <2> QED BY <1>6, <1>7, <2>1, TimedGiven
<1>12. ASSUME NEW q \in queue' PROVE MessageOK(q)'
  <2>1. CASE q \in queue
    BY <1>8, <2>1, MessageKept DEF TasksInv
  <2>2. CASE q = r
    <3>1. r \in Message /\ r.task = m.task /\ r.retries = m.retries + 1
      BY <1>3, <1>5 DEF Message
    <3>2. m.task \in 1 .. Len(task) /\ MaxRetries \in Nat
      BY <1>3 DEF MessageOK, TasksAssumption
    <3>3. attempts[m.task] \in Nat
      BY <3>2, LogsTyped DEF TasksInv
    <3>4. r.retries <= MaxRetries /\ r.retries <= attempts[r.task]
      BY <1>3, <3>1, <3>2, <3>3
    <3> QED BY <1>6, <2>2, <3>1, <3>2, <3>4 DEF MessageOK
  <2> QED BY <1>6, <2>1, <2>2
<1> QED
  BY <1>6, <1>8, <1>10, <1>11, <1>12, WorkerStep DEF TasksInv

LEMMA SeqUpdated ==
  ASSUME NEW S, NEW s \in Seq(S), NEW n \in 1 .. Len(s), NEW v \in S
  PROVE  LET u == [s EXCEPT ![n] = v]
         IN  /\ u \in Seq(S) /\ Len(u) = Len(s)
             /\ \A q \in 1 .. Len(s) : u[q] = IF q = n THEN v ELSE s[q]
OBVIOUS

\* What is kept of the ways a task ended, after one more.
LEMMA EndedTyped ==
  ASSUME TasksInv, NEW n \in 1 .. Len(task), NEW w \in Ways,
         ended' = [ended EXCEPT ![n] = @ \cup {w}]
  PROVE  /\ ended' \in Seq(SUBSET Ways) /\ Len(ended') = Len(ended)
         /\ \A q \in 1 .. Len(task) :
               ended'[q] = IF q = n THEN ended[q] \cup {w} ELSE ended[q]
<1>1. PICK v : v = ended[n] \cup {w}
  OBVIOUS
<1>2. ended \in Seq(SUBSET Ways) /\ Len(ended) = Len(task) /\ v \in SUBSET Ways
  BY <1>1, LogsTyped DEF TasksInv, LogsInv
<1>3. ended' = [ended EXCEPT ![n] = v]
  BY <1>1
<1>4. /\ ended' \in Seq(SUBSET Ways) /\ Len(ended') = Len(ended)
      /\ \A q \in 1 .. Len(ended) : ended'[q] = IF q = n THEN v ELSE ended[q]
  BY ONLY <1>2, <1>3, SeqUpdated
<1> QED
  BY <1>1, <1>2, <1>4

LEMMA SettleStep ==
  ASSUME TasksAssumption, TasksInv, NEW k \in Children, Settle(k)
  PROVE  TasksInv'
<1>1. PICK m : m = child[k].message
  OBVIOUS
<1>2. PICK V : child[k] \in Child(V)
  BY ChildTyped
<1>3. PICK w \in {"succeeded", "failed", "retried", "rejected"} : w = child[k].phase
  BY DEF Settle, StateOf
<1>4. PICK c : c = [child[k] EXCEPT !.phase = "settled"]
  OBVIOUS
<1>5. /\ UNCHANGED <<alert, reacting, orders, task, queue, mails, again, attempts, faults>>
      /\ child' = [child EXCEPT ![k] = c]
      /\ timed' = [timed EXCEPT ![k] = timed[k] \ {Held(k)}]
  BY <1>4, ChildTyped DEF Settle, Moves, Released, alertVars
<1>6. /\ m \in Message /\ MessageOK(m) /\ Held(k) = m.task /\ m.retries \in Nat
      /\ m.task \in 1 .. Len(task) /\ attempts[m.task] \in Nat
      /\ w = "failed" /\ IsEmail(m.task) => m.retries >= MaxRetries
      /\ w = "failed" => m.retries < attempts[m.task]
  <2>1. ChildOK(k) BY DEF TasksInv, ChildrenInv
  <2> QED
    BY <1>1, <1>3, <2>1, ChildTyped, LogsTyped
       DEF ChildOK, Held, Message, MessageOK, TasksInv, Raised
<1>7. c \in Child(V) /\ c.phase = "settled" /\ c.message = m
  BY <1>1, <1>2, <1>4 DEF Child, ChildPhases
<1>8. (\E W : result' \in Seq([state : States, file : W])) /\ Len(result') = Len(result)
  <2>1. CASE w = "rejected"
    <3>1. result' = result
      BY <1>3, <2>1 DEF Settle, StateOf
    <3> QED BY <3>1 DEF TasksInv, LogsInv
  <2>2. CASE w # "rejected"
    <3>1. PICK s \in States : s = StateOf[w]
      BY <1>3, <2>2 DEF StateOf, States
    <3>2. PICK f : f = child[k].file
      OBVIOUS
    <3>3. result' = Stored(m.task, [state |-> s, file |-> f])
      BY <1>3, <1>6, <2>2, <3>1, <3>2 DEF Settle
    <3> QED BY <1>6, <3>3, StoredTyped
  <2> QED BY <2>1, <2>2
<1>9. /\ ended' \in Seq(SUBSET Ways) /\ Len(ended') = Len(ended)
      /\ \A q \in 1 .. Len(task) :
            \/ ended'[q] = ended[q]
            \/ q = m.task /\ w # "retried" /\ ended'[q] = ended[q] \cup {w}
  <2>1. CASE w = "retried"
    <3>1. ended' = ended
      BY <1>3, <2>1 DEF Settle
    <3> QED BY <3>1 DEF TasksInv, LogsInv
  <2>2. CASE w # "retried"
    <3>1. PICK p \in 1 .. Len(task) : p = m.task
      BY <1>6
    <3>2. w \in Ways /\ ended' = [ended EXCEPT ![p] = @ \cup {w}]
      BY <1>3, <1>6, <2>2, <3>1 DEF Settle, Ways
    <3>3. /\ ended' \in Seq(SUBSET Ways) /\ Len(ended') = Len(ended)
          /\ \A q \in 1 .. Len(task) :
                ended'[q] = IF q = p THEN ended[q] \cup {w} ELSE ended[q]
      BY <3>2, EndedTyped
    <3> QED BY <2>2, <3>1, <3>3
  <2> QED BY <2>1, <2>2
<1>10. Grows
  BY <1>5, Still DEF TasksInv
<1>11. LogsInv'
  BY <1>5, <1>8, <1>9 DEF TasksInv, LogsInv
<1>12. ChildrenInv'
  <2>1. MessageOK(m)'
    BY <1>6, <1>10, MessageKept DEF TasksInv
  <2> QED BY <1>5, <1>7, <1>10, <2>1, ChildGiven DEF Raised
<1>13. TimedInv'
  <2>1. timed[k] \ {Held(k)} \in SUBSET Nat /\ timed[k] \ {Held(k)} \subseteq {}
    BY <1>3 DEF TasksInv, TimedInv, TimingsReleased
  <2> QED BY <1>5, <1>7, <2>1, TimedGiven
<1>14. \A q \in queue' : MessageOK(q)'
  BY <1>5, <1>10, MessageKept DEF TasksInv
<1>15. ASSUME NEW n \in 1 .. Len(task)
       PROVE  \/ "failed" \in ended'[n] => "failed" \in ended[n]
              \/ IsEmail(n) => attempts'[n] > MaxRetries
  <2>1. CASE n = m.task /\ w = "failed"
    BY <1>5, <1>6, <2>1 DEF TasksAssumption
  <2>2. CASE ~(n = m.task /\ w = "failed")
    BY <1>9, <2>2
  <2> QED BY <2>1, <2>2
<1> QED
  BY <1>5, <1>10, <1>11, <1>12, <1>13, <1>14, <1>15, WorkerStep DEF TasksInv

LEMMA AcknowledgeStep ==
  ASSUME TasksAssumption, TasksInv, NEW k \in Children, Acknowledge(k)
  PROVE  TasksInv'
<1>1. /\ UNCHANGED <<alert, reacting, orders, task, result, queue, timed, mails, again,
                     attempts, ended, faults>>
      /\ child' = [child EXCEPT ![k] = Free] /\ child[k].phase = "settled"
  BY DEF Acknowledge, alertVars, brokerVars, workVars
<1>2. Grows /\ LogsInv'
  <2>1. Grows BY <1>1, Still DEF TasksInv
  <2>2. LogsInv' BY <1>1 DEF TasksInv, LogsInv
  <2> QED BY <2>1, <2>2
<1>3. ChildrenInv'
  BY <1>1, <1>2, FreeTyped, ChildGiven
<1>4. TimedInv'
  <2>1. timed[k] \in SUBSET Nat /\ timed[k] \subseteq {}
        /\ timed' = [timed EXCEPT ![k] = timed[k]]
    BY <1>1 DEF TasksInv, TimedInv, TimingsReleased
  <2> QED BY <1>1, <2>1, FreeTyped, TimedGiven
<1>5. \A m \in queue' : MessageOK(m)'
  BY <1>1, <1>2, MessageKept DEF TasksInv
<1> QED
  BY <1>1, <1>2, <1>3, <1>4, <1>5, WorkerStep DEF TasksInv

LEMMA KilledStep ==
  ASSUME TasksAssumption, TasksInv, NEW k \in Children, Killed(k)
  PROVE  TasksInv'
<1>1. PICK n \in 1 .. Len(task) : n = Held(k)
  BY ChildTyped DEF Killed
<1>2. /\ UNCHANGED <<alert, reacting, orders, task, queue, mails, again, attempts>>
      /\ ended' = [ended EXCEPT ![n] = @ \cup {"killed"}]
      /\ child' = [child EXCEPT ![k] = Free]
      /\ timed' = [timed EXCEPT ![k] = {}]
      /\ result' = Stored(n, [state |-> "FAILURE", file |-> None])
  BY <1>1 DEF Killed, alertVars
<1>3. faults' \in 0 .. MaxFaults
  BY DEF Killed, TasksInv, TasksAssumption
<1>4. /\ \E W : result' \in Seq([state : States, file : W])
      /\ Len(result') = Len(result)
      /\ ended' \in Seq(SUBSET Ways) /\ Len(ended') = Len(ended)
      /\ \A q \in 1 .. Len(task) : "failed" \in ended'[q] => "failed" \in ended[q]
  <2>1. PICK s \in States, w \in Ways : s = "FAILURE" /\ w = "killed"
    BY DEF States, Ways
  <2>2. /\ \E W : result' \in Seq([state : States, file : W])
        /\ Len(result') = Len(result)
    BY <1>2, <2>1, StoredTyped
  <2>3. /\ ended' \in Seq(SUBSET Ways) /\ Len(ended') = Len(ended)
        /\ \A q \in 1 .. Len(task) :
              ended'[q] = IF q = n THEN ended[q] \cup {w} ELSE ended[q]
    BY <1>2, <2>1, EndedTyped
  <2>4. ASSUME NEW q \in 1 .. Len(task), "failed" \in ended'[q] PROVE "failed" \in ended[q]
    <3>1. "failed" \notin {w}
      BY <2>1
    <3>2. ended'[q] \subseteq ended[q] \cup {w}
      BY <2>3
    <3> QED BY <2>4, <3>1, <3>2
  <2> QED BY <2>2, <2>3, <2>4
<1>5. Grows /\ LogsInv'
  <2>1. Grows BY <1>2, Still DEF TasksInv
  <2>2. LogsInv' BY <1>2, <1>4 DEF TasksInv, LogsInv
  <2> QED BY <2>1, <2>2
<1>6. ChildrenInv' /\ TimedInv'
  <2>1. ChildrenInv' BY <1>2, <1>5, FreeTyped, ChildGiven
  <2>2. TimedInv' BY <1>2, FreeTyped, TimedGiven
  <2> QED BY <2>1, <2>2
<1>7. \A m \in queue' : MessageOK(m)'
  BY <1>2, <1>5, MessageKept DEF TasksInv
<1> QED
  BY <1>2, <1>3, <1>4, <1>5, <1>6, <1>7, WorkerStep

\* A delivery more says nothing else of the task.
LEMMA RedeliveryOK ==
  ASSUME TasksInv, Grows, NEW k \in Children, child[k].phase # "idle",
         NEW r, r = Redelivery(k)
  PROVE  MessageOK(r)'
<1>1. PICK m : m = child[k].message
  OBVIOUS
<1>2. MessageOK(m) /\ m \in Message
  BY <1>1, ChildTyped
<1>3. r \in Message /\ r.task = m.task /\ r.retries = m.retries
  BY <1>1, <1>2 DEF Message, Redelivery
<1>4. MessageOK(r)
  BY <1>2, <1>3 DEF MessageOK
<1> QED
  BY <1>4, MessageKept DEF TasksInv

LEMMA RedeliverStep ==
  ASSUME TasksAssumption, TasksInv, NEW k \in Children, Redeliver(k)
  PROVE  TasksInv'
<1>1. PICK n \in 1 .. Len(task) : n = Held(k)
  BY ChildTyped DEF Redeliver
<1>2. PICK r : r = Redelivery(k)
  OBVIOUS
<1>3. /\ UNCHANGED <<alert, reacting, orders, task, result, child, timed, mails, attempts, ended>>
      /\ queue' = queue \cup {r} /\ child[k].phase # "idle"
      /\ again' = [again EXCEPT ![n] = again[n] + 1]
  BY <1>1, <1>2 DEF Redeliver, alertVars
<1>4. faults' \in 0 .. MaxFaults
  BY DEF Redeliver, TasksInv, TasksAssumption
<1>5. Grows
  BY <1>3, Still DEF TasksInv
<1>6. LogsInv'
  <2>1. again \in Seq(Nat) /\ Len(again) = Len(task)
    BY DEF TasksInv, LogsInv
  <2>2. again' \in Seq(Nat) /\ Len(again') = Len(task)
    BY <1>3, <2>1
  <2> QED BY <1>3, <2>2 DEF TasksInv, LogsInv
<1>7. ChildrenInv'
  <2>1. ASSUME NEW q \in Children PROVE ChildOK(q)'
    BY <1>3, <1>5, ChildKept DEF TasksInv, ChildrenInv
  <2> QED BY <1>3, <2>1 DEF TasksInv, ChildrenInv
<1>8. TimedInv'
  BY <1>3 DEF TasksInv, TimedInv, TimingsReleased, Held
<1>9. ASSUME NEW m \in queue' PROVE MessageOK(m)'
  <2>1. CASE m \in queue
    BY <1>5, <2>1, MessageKept DEF TasksInv
  <2>2. CASE m = r
    BY <1>2, <1>3, <1>5, <2>2, RedeliveryOK
  <2> QED BY <1>3, <2>1, <2>2
<1> QED
  BY <1>3, <1>4, <1>5, <1>6, <1>7, <1>8, <1>9, WorkerStep

LEMMA WorkerDiesStep ==
  ASSUME TasksAssumption, TasksInv, WorkerDies
  PROVE  TasksInv'
<1>1. PICK busy : busy = {k \in Children : child[k].phase # "idle"}
  OBVIOUS
<1>2. /\ UNCHANGED <<alert, reacting, orders, task, result, mails, attempts, ended>>
      /\ queue' = queue \cup {Redelivery(k) : k \in busy}
      /\ child' = [k \in Children |-> Free] /\ timed' = [k \in Children |-> {}]
      /\ again' = [n \in DOMAIN again |->
                      again[n] + Cardinality({k \in busy : Held(k) = n})]
  BY <1>1 DEF WorkerDies, alertVars
<1>3. faults' \in 0 .. MaxFaults
  BY DEF WorkerDies, TasksInv, TasksAssumption
<1>4. Grows
  BY <1>2, Still DEF TasksInv
<1>5. LogsInv'
  <2>1. ASSUME NEW n \in 1 .. Len(task)
        PROVE  Cardinality({k \in busy : Held(k) = n}) \in Nat
    <3>1. {k \in busy : Held(k) = n} \subseteq Children /\ IsFiniteSet(Children)
      BY <1>1 DEF TasksAssumption
    <3> QED BY <3>1, FS_Subset, FS_CardinalityType
  <2>2. /\ Len(task) \in Nat /\ DOMAIN again = 1 .. Len(task)
        /\ \A n \in 1 .. Len(task) : again[n] \in Nat
    BY LogsTyped DEF TasksInv
  <2>3. again' \in [1 .. Len(task) -> Nat]
    <3>1. ASSUME NEW n \in 1 .. Len(task)
          PROVE  again[n] + Cardinality({k \in busy : Held(k) = n}) \in Nat
      BY <2>1, <2>2
    <3> QED BY <1>2, <2>2, <3>1
  <2>4. again' \in Seq(Nat) /\ Len(again') = Len(task)
    BY <2>2, <2>3
  <2> QED BY <1>2, <2>4 DEF TasksInv, LogsInv
<1>6. ChildrenInv' /\ TimedInv'
  <2>1. child' \in [Children -> Child({None})]
    BY <1>2, FreeTyped
  <2>2. ASSUME NEW k \in Children PROVE ChildOK(k)'
    BY <1>2, FreeTyped DEF ChildOK
  <2>3. TimedInv'
    BY <1>2, FreeTyped DEF TimedInv, TimingsReleased
  <2> QED BY <2>1, <2>2, <2>3 DEF ChildrenInv
<1>7. ASSUME NEW m \in queue' PROVE MessageOK(m)'
  <2>1. CASE m \in queue
    BY <1>4, <2>1, MessageKept DEF TasksInv
  <2>2. ASSUME NEW k \in busy, m = Redelivery(k) PROVE MessageOK(m)'
    BY <1>1, <1>4, <2>2, RedeliveryOK
  <2> QED BY <1>2, <2>1, <2>2
<1> QED
  BY <1>2, <1>3, <1>4, <1>5, <1>6, <1>7, WorkerStep

-----------------------------------------------------------------------------
LEMMA TasksStart ==
  ASSUME TasksAssumption, TasksInit
  PROVE  TasksInv
<1>1. PICK load \in Loads : /\ orders = [alerts |-> load.alerts, exports |-> load.exports]
                            /\ faults = MaxFaults - load.faults
  BY DEF TasksInit
<1>2. faults \in 0 .. MaxFaults
  BY <1>1 DEF TasksAssumption
<1>3. AlertsInv
  <2>1. orders \in [alerts : Nat, exports : Seq(Kinds \cup {Unknown})]
    BY <1>1 DEF TasksAssumption
  <2>2. alert \in [Alerts -> 0 .. MaxVersions] /\ reacting = {}
    BY DEF TasksInit, TasksAssumption
  <2> QED BY <2>1, <2>2 DEF AlertsInv
<1>4. LogsInv
  <2>1. /\ task = <<>> /\ mails = <<>> /\ again = <<>> /\ attempts = <<>> /\ result = <<>>
        /\ ended = <<>>
    BY DEF TasksInit
  <2>2. <<>> \in Seq(Task)
    OBVIOUS
  <2>3. <<>> \in Seq(Seq(Nat)) /\ <<>> \in Seq(Nat) /\ <<>> \in Seq([state : States, file : {None}])
    OBVIOUS
  <2>4. <<>> \in Seq(SUBSET Ways)
    OBVIOUS
  <2> QED BY <2>1, <2>2, <2>3, <2>4 DEF LogsInv
<1>5. ChildrenInv /\ TimedInv
  <2>1. child = [k \in Children |-> Free] /\ timed = [k \in Children |-> {}]
    BY DEF TasksInit
  <2>2. child \in [Children -> Child({None})]
    BY <2>1, FreeTyped
  <2> QED BY <2>1, <2>2, FreeTyped DEF ChildrenInv, ChildOK, TimedInv, TimingsReleased
<1> QED
  BY <1>2, <1>3, <1>4, <1>5 DEF TasksInv, TasksInit

\* Every step of the tasks keeps the invariant; the history only has to have a length.
LEMMA TasksStep ==
  ASSUME TasksAssumption, TasksInv, Len(history) \in Nat, [TasksNext]_taskVars
  PROVE  TasksInv'
<1>1. CASE UNCHANGED taskVars
  <2>1. Grows BY <1>1, Still DEF TasksInv, taskVars
  <2>2. LogsInv' BY <1>1 DEF TasksInv, LogsInv, taskVars
  <2>3. ChildrenInv'
    <3>1. ASSUME NEW q \in Children PROVE ChildOK(q)'
      BY <1>1, <2>1, ChildKept DEF TasksInv, ChildrenInv, taskVars
    <3> QED BY <1>1, <3>1 DEF TasksInv, ChildrenInv, taskVars
  <2>4. TimedInv' BY <1>1 DEF TasksInv, TimedInv, TimingsReleased, Held, taskVars
  <2>5. \A m \in queue' : MessageOK(m)'
    BY <1>1, <2>1, MessageKept DEF TasksInv, taskVars
  <2>6. /\ UNCHANGED <<alert, reacting, orders, task, mails, result, ended>>
        /\ faults' \in 0 .. MaxFaults
    BY <1>1 DEF TasksInv, taskVars
  <2> QED BY <2>1, <2>2, <2>3, <2>4, <2>5, <2>6, WorkerStep
<1>2. ASSUME NEW a \in Alerts, CommitAlert(a) PROVE TasksInv'
  BY <1>2, CommitAlertStep
<1>3. ASSUME NEW x \in reacting, EnqueueFails(x) PROVE TasksInv'
  BY <1>3, EnqueueFailsStep
<1>4. CASE EnqueueExport \/ \E x \in reacting : EnqueueNotification(x)
  BY <1>4, EnqueueSteps
<1>5. ASSUME NEW k \in Children, NEW m \in queue, Take(k, m) PROVE TasksInv'
  BY <1>5, TakeStep
<1>6. ASSUME NEW k \in Children,
             \/ LoadContext(k) \/ SkipEmail(k) \/ SendEmail(k) \/ Quit(k)
             \/ ComputeReport(k) \/ OpenFile(k) \/ WriteRows(k)
             \/ Raises(k) \/ QuitRaises(k) \/ Retry(k) \/ RetryRefused(k) \/ GiveUp(k)
             \/ Settle(k) \/ Acknowledge(k) \/ Killed(k) \/ Redeliver(k)
      PROVE  TasksInv'
  BY <1>6, LoadContextStep, MovesStep, RaisesStep, SendEmailStep, RetryStep, SettleStep,
     AcknowledgeStep, KilledStep, RedeliverStep
<1>7. CASE WorkerDies
  BY <1>7, WorkerDiesStep
<1> QED
  BY <1>1, <1>2, <1>3, <1>4, <1>5, <1>6, <1>7 DEF TasksNext


-----------------------------------------------------------------------------
(* Counting the copies of a task that may still send its email. *)

Able == {"started", "loaded", "raised", "computed", "opened"}
Copies(n) == {m \in queue : m.task = n}
Holders(n) == {k \in Children : child[k].phase \in Able /\ Held(k) = n}

\* Each mail that was accepted, and each message or child that may come to send
\* one, is accounted for by the task's enqueueing or by a reason to run it again.
Accounted(n) ==
    Cardinality(Copies(n)) + Cardinality(Holders(n)) + Len(mails[n]) <= 1 + again[n]

CopiesInv == IsFiniteSet(queue) /\ \A n \in 1 .. Len(task) : Accounted(n)

LEMMA CardSame ==
  ASSUME NEW S, NEW T, IsFiniteSet(S), T \subseteq S
  PROVE  IsFiniteSet(T) /\ Cardinality(T) \in Nat /\ Cardinality(S) \in Nat
         /\ Cardinality(T) <= Cardinality(S)
BY FS_Subset, FS_CardinalityType

LEMMA CardLess ==
  ASSUME NEW S, NEW T, NEW x \in S, IsFiniteSet(S), T \subseteq S \ {x}
  PROVE  Cardinality(T) \in Nat /\ Cardinality(S) \in Nat
         /\ Cardinality(T) + 1 <= Cardinality(S)
<1>1. IsFiniteSet(S \ {x}) /\ Cardinality(S \ {x}) = Cardinality(S) - 1
  BY FS_RemoveElement
<1>2. Cardinality(T) \in Nat /\ Cardinality(T) <= Cardinality(S \ {x})
  BY <1>1, CardSame
<1>3. Cardinality(S) \in Nat
  BY FS_CardinalityType
<1> QED
  BY <1>1, <1>2, <1>3

LEMMA CardMore ==
  ASSUME NEW S, NEW T, NEW x, IsFiniteSet(S), T \subseteq S \cup {x}
  PROVE  IsFiniteSet(T) /\ Cardinality(T) \in Nat /\ Cardinality(S) \in Nat
         /\ Cardinality(T) <= Cardinality(S) + 1
<1>1. IsFiniteSet(S \cup {x}) /\ (Cardinality(S \cup {x}) = Cardinality(S)
                                  \/ Cardinality(S \cup {x}) = Cardinality(S) + 1)
  BY FS_AddElement
<1>2. IsFiniteSet(T) /\ Cardinality(T) \in Nat /\ Cardinality(T) <= Cardinality(S \cup {x})
  BY <1>1, CardSame
<1>3. Cardinality(S) \in Nat
  BY FS_CardinalityType
<1> QED
  BY <1>1, <1>2, <1>3

LEMMA CopiesTyped ==
  ASSUME TasksAssumption, TasksInv, CopiesInv, NEW n \in 1 .. Len(task)
  PROVE  /\ IsFiniteSet(Copies(n)) /\ IsFiniteSet(Holders(n))
         /\ Cardinality(Copies(n)) \in Nat /\ Cardinality(Holders(n)) \in Nat
         /\ Len(mails[n]) \in Nat /\ again[n] \in Nat
         /\ Cardinality(Copies(n)) + Cardinality(Holders(n)) + Len(mails[n]) <= 1 + again[n]
<1>1. Copies(n) \subseteq queue /\ IsFiniteSet(queue)
  BY DEF Copies, CopiesInv
<1>2. Holders(n) \subseteq Children /\ IsFiniteSet(Children)
  BY DEF Holders, TasksAssumption
<1>3. mails[n] \in Seq(Nat) /\ again[n] \in Nat
  BY LogsTyped DEF TasksInv
<1>4. Len(mails[n]) \in Nat
  BY <1>3
<1> QED
  BY <1>1, <1>2, <1>3, <1>4, CardSame DEF CopiesInv, Accounted

\* The counts of a task, named: what follows of them is plain arithmetic.
Counted(n, c, h, l, a) ==
    /\ Cardinality(Copies(n)) = c /\ Cardinality(Holders(n)) = h
    /\ Len(mails[n]) = l /\ again[n] = a

LEMMA Counts ==
  ASSUME TasksAssumption, TasksInv, CopiesInv, NEW n \in 1 .. Len(task)
  PROVE  \E c \in Nat, h \in Nat, l \in Nat, a \in Nat :
            Counted(n, c, h, l, a) /\ c + h + l <= 1 + a
BY CopiesTyped DEF Counted

LEMMA Recount ==
  ASSUME NEW n, NEW c, NEW h, NEW l, NEW a, Counted(n, c, h, l, a)', c + h + l <= 1 + a
  PROVE  Accounted(n)'
BY DEF Counted, Accounted

\* A step after which no more children can send, and the rest is as it was.
LEMMA FewerStep ==
  ASSUME TasksAssumption, TasksInv, CopiesInv,
         UNCHANGED <<task, queue, mails, again>>,
         \A k \in Children : child'[k].phase \in Able =>
            child[k].phase \in Able /\ child'[k].message = child[k].message
  PROVE  CopiesInv'
<1>1. ASSUME NEW n \in 1 .. Len(task) PROVE Accounted(n)'
  <2>0. PICK c \in Nat, h \in Nat, l \in Nat, a \in Nat :
           Counted(n, c, h, l, a) /\ c + h + l <= 1 + a
    BY Counts
  <2>1. PICK T : T = Holders(n)'
    OBVIOUS
  <2>2. T \subseteq Holders(n)
    BY <2>1 DEF Holders, Held
  <2>3. PICK t \in Nat : t = Cardinality(T) /\ t <= h
    BY <2>0, <2>2, CopiesTyped, CardSame DEF Counted
  <2>4. Copies(n)' = Copies(n)
    BY DEF Copies
  <2>5. Counted(n, c, t, l, a)'
    BY <2>0, <2>1, <2>3, <2>4 DEF Counted
  <2>6. c + t + l <= 1 + a
    BY <2>0, <2>3
  <2> QED BY <2>5, <2>6, Recount
<1> QED
  BY <1>1 DEF CopiesInv

LEMMA FewerSteps ==
  ASSUME TasksAssumption, TasksInv, CopiesInv, NEW k \in Children,
         \/ LoadContext(k) \/ SkipEmail(k) \/ Quit(k) \/ ComputeReport(k) \/ OpenFile(k)
         \/ WriteRows(k) \/ Raises(k) \/ RetryRefused(k) \/ GiveUp(k)
         \/ Settle(k) \/ Acknowledge(k) \/ Killed(k)
  PROVE  CopiesInv'
<1>1. UNCHANGED <<task, queue, mails, again>>
  BY DEF LoadContext, SkipEmail, Quit, ComputeReport, OpenFile, WriteRows, Raises, RetryRefused,
     GiveUp, Settle, Acknowledge, Killed, alertVars, brokerVars, workVars
<1>2. PICK V : child \in [Children -> Child(V)]
  BY DEF TasksInv, ChildrenInv
<1>3. /\ \A q \in Children \ {k} : child'[q] = child[q]
      /\ child'[k].phase \in Able =>
            child[k].phase \in Able /\ child'[k].message = child[k].message
  <2>1. CASE LoadContext(k) \/ SkipEmail(k) \/ ComputeReport(k) \/ OpenFile(k)
    BY <1>2, <2>1 DEF LoadContext, SkipEmail, ComputeReport, OpenFile, Able, Child
  <2>2. CASE Quit(k) \/ WriteRows(k) \/ RetryRefused(k) \/ GiveUp(k) \/ Settle(k)
    BY <1>2, <2>2 DEF Quit, WriteRows, RetryRefused, GiveUp, Settle, Moves, Able, Child
  <2>3. CASE Raises(k)
    BY <1>2, <2>3 DEF Raises, Running, Moves, Able, Child
  <2>4. CASE Acknowledge(k) \/ Killed(k)
    BY <1>2, <2>4, FreeTyped DEF Acknowledge, Killed, Able, Child
  <2> QED BY <2>1, <2>2, <2>3, <2>4
<1>4. \A q \in Children : child'[q].phase \in Able =>
            child[q].phase \in Able /\ child'[q].message = child[q].message
  BY <1>3
<1> QED
  BY <1>1, <1>4, FewerStep

\* The server accepts the mail: the child can send no other.
LEMMA SendEmailCounted ==
  ASSUME TasksAssumption, TasksInv, CopiesInv, NEW k \in Children, SendEmail(k)
  PROVE  CopiesInv'
<1>1. PICK p \in 1 .. Len(task) : p = Held(k)
  BY ChildTyped DEF SendEmail
<1>2. PICK v : v = child[k].version
  OBVIOUS
<1>3. /\ UNCHANGED <<task, queue, again>> /\ child[k].phase = "loaded"
      /\ mails' = [mails EXCEPT ![p] = Append(mails[p], v)]
      /\ child' = [child EXCEPT ![k].phase = "accepted"]
  BY <1>1, <1>2 DEF SendEmail, Moves, alertVars, brokerVars
<1>4. PICK V : child \in [Children -> Child(V)]
  BY DEF TasksInv, ChildrenInv
<1>5. child'[k].phase = "accepted" /\ \A q \in Children \ {k} : child'[q] = child[q]
  BY <1>3, <1>4 DEF Child
<1>6. ASSUME NEW n \in 1 .. Len(task) PROVE Accounted(n)'
  <2>0. PICK c \in Nat, h \in Nat, l \in Nat, a \in Nat :
           Counted(n, c, h, l, a) /\ c + h + l <= 1 + a
    BY Counts
  <2>1. PICK T : T = Holders(n)'
    OBVIOUS
  <2>2. T \subseteq Holders(n) \ {k}
    BY <1>5, <2>1 DEF Holders, Held, Able
  <2>3. Copies(n)' = Copies(n)
    BY <1>3 DEF Copies
  <2>4. CASE n # p
    <3>1. PICK t \in Nat : t = Cardinality(T) /\ t <= h
      BY <2>0, <2>2, CopiesTyped, CardSame DEF Counted
    <3>2. mails'[n] = mails[n] /\ again'[n] = again[n]
      BY <1>3, <2>4
    <3>3. Counted(n, c, t, l, a)'
      BY <2>0, <2>1, <2>3, <3>1, <3>2 DEF Counted
    <3>4. c + t + l <= 1 + a
      BY <2>0, <3>1
    <3> QED BY <3>3, <3>4, Recount
  <2>5. CASE n = p
    <3>1. k \in Holders(n)
      BY <1>1, <1>3, <2>5 DEF Holders, Able
    <3>2. PICK t \in Nat : t = Cardinality(T) /\ t + 1 <= h
      BY <2>0, <2>2, <3>1, CopiesTyped, CardLess DEF Counted
    <3>3. Len(mails'[n]) = Len(mails[n]) + 1
      <4>1. mails[n] \in Seq(Nat) /\ n \in DOMAIN mails
        BY LogsTyped DEF TasksInv
      <4>2. mails'[n] = Append(mails[n], v)
        BY <1>3, <2>5, <4>1
      <4> QED BY <4>1, <4>2
    <3>4. Counted(n, c, t, l + 1, a)'
      BY <1>3, <2>0, <2>1, <2>3, <3>2, <3>3 DEF Counted
    <3>5. c + t + (l + 1) <= 1 + a
      BY <2>0, <3>2
    <3> QED BY <3>4, <3>5, Recount
  <2> QED BY <2>4, <2>5
<1> QED
  BY <1>3, <1>6 DEF CopiesInv

\* Which the exception after it, a reason of its own, lets it do again.
LEMMA QuitRaisesCounted ==
  ASSUME TasksAssumption, TasksInv, CopiesInv, NEW k \in Children, QuitRaises(k)
  PROVE  CopiesInv'
<1>1. PICK p \in 1 .. Len(task) : p = Held(k)
  BY ChildTyped DEF QuitRaises
<1>3. /\ UNCHANGED <<task, queue, mails>> /\ child[k].phase = "accepted"
      /\ again' = [again EXCEPT ![p] = again[p] + 1]
      /\ child' = [child EXCEPT ![k].phase = "raised"]
  BY <1>1 DEF QuitRaises, Moves, alertVars, brokerVars
<1>4. PICK V : child \in [Children -> Child(V)]
  BY DEF TasksInv, ChildrenInv
<1>5. child'[k].message = child[k].message /\ \A q \in Children \ {k} : child'[q] = child[q]
  BY <1>3, <1>4 DEF Child
<1>6. ASSUME NEW n \in 1 .. Len(task) PROVE Accounted(n)'
  <2>0. PICK c \in Nat, h \in Nat, l \in Nat, a \in Nat :
           Counted(n, c, h, l, a) /\ c + h + l <= 1 + a
    BY Counts
  <2>1. PICK T : T = Holders(n)'
    OBVIOUS
  <2>3. Copies(n)' = Copies(n)
    BY <1>3 DEF Copies
  <2>4. CASE n # p
    <3>0. T \subseteq Holders(n)
      BY <1>1, <1>5, <2>1, <2>4 DEF Holders, Held
    <3>1. PICK t \in Nat : t = Cardinality(T) /\ t <= h
      BY <2>0, <3>0, CopiesTyped, CardSame DEF Counted
    <3>2. mails'[n] = mails[n] /\ again'[n] = again[n]
      BY <1>3, <2>4
    <3>3. Counted(n, c, t, l, a)'
      BY <2>0, <2>1, <2>3, <3>1, <3>2 DEF Counted
    <3>4. c + t + l <= 1 + a
      BY <2>0, <3>1
    <3> QED BY <3>3, <3>4, Recount
  <2>5. CASE n = p
    <3>0. T \subseteq Holders(n) \cup {k}
      BY <1>5, <2>1 DEF Holders, Held
    <3>2. PICK t \in Nat : t = Cardinality(T) /\ t <= h + 1
      BY <2>0, <3>0, CopiesTyped, CardMore DEF Counted
    <3>3. again'[n] = again[n] + 1
      BY <1>3, <2>5, LogsTyped DEF TasksInv
    <3>4. Counted(n, c, t, l, a + 1)'
      BY <1>3, <2>0, <2>1, <2>3, <3>2, <3>3 DEF Counted
    <3>5. c + t + l <= 1 + (a + 1)
      BY <2>0, <3>2
    <3> QED BY <3>4, <3>5, Recount
  <2> QED BY <2>4, <2>5
<1> QED
  BY <1>3, <1>6 DEF CopiesInv

\* A copy moves from the queue to a child, or back from the child to the queue.
LEMMA TakeCounted ==
  ASSUME TasksAssumption, TasksInv, CopiesInv, NEW k \in Children, NEW m \in queue, Take(k, m)
  PROVE  CopiesInv'
<1>1. PICK o : o = [[Free EXCEPT !.phase = "started"] EXCEPT !.message = m]
  OBVIOUS
<1>2. /\ UNCHANGED <<task, mails, again>> /\ child[k].phase = "idle"
      /\ queue' = queue \ {m} /\ child' = [child EXCEPT ![k] = o]
  BY <1>1 DEF Take, alertVars, workVars
<1>3. PICK V : child \in [Children -> Child(V)]
  BY DEF TasksInv, ChildrenInv
<1>4. child'[k].message = m /\ \A q \in Children \ {k} : child'[q] = child[q]
  <2>1. o.message = m
    BY <1>1, FreeTyped DEF Free
  <2> QED BY <1>2, <1>3, <2>1
<1>5. ASSUME NEW n \in 1 .. Len(task) PROVE Accounted(n)'
  <2>0. PICK c \in Nat, h \in Nat, l \in Nat, a \in Nat :
           Counted(n, c, h, l, a) /\ c + h + l <= 1 + a
    BY Counts
  <2>1. PICK T : T = Holders(n)'
    OBVIOUS
  <2>2. PICK Q : Q = Copies(n)'
    OBVIOUS
  <2>3. Q = Copies(n) \ {m}
    BY <1>2, <2>2 DEF Copies
  <2>4. CASE m.task # n
    <3>1. T \subseteq Holders(n) /\ Q \subseteq Copies(n)
      BY <1>4, <2>1, <2>3, <2>4 DEF Holders, Held
    <3>2. PICK t \in Nat : t = Cardinality(T) /\ t <= h
      BY <2>0, <3>1, CopiesTyped, CardSame DEF Counted
    <3>3. PICK q \in Nat : q = Cardinality(Q) /\ q <= c
      BY <2>0, <3>1, CopiesTyped, CardSame DEF Counted
    <3>4. Counted(n, q, t, l, a)'
      BY <1>2, <2>0, <2>1, <2>2, <3>2, <3>3 DEF Counted
    <3>5. q + t <= c + h
      BY <3>2, <3>3
    <3>6. q + t + l <= 1 + a
      BY <2>0, <3>5
    <3> QED BY <3>4, <3>6, Recount
  <2>5. CASE m.task = n
    <3>1. T \subseteq Holders(n) \cup {k} /\ m \in Copies(n)
      BY <1>4, <2>1, <2>5 DEF Holders, Held, Copies
    <3>2. PICK t \in Nat : t = Cardinality(T) /\ t <= h + 1
      BY <2>0, <3>1, CopiesTyped, CardMore DEF Counted
    <3>3. PICK q \in Nat : q = Cardinality(Q) /\ q + 1 <= c
      BY <2>0, <2>3, <3>1, CopiesTyped, CardLess DEF Counted
    <3>4. Counted(n, q, t, l, a)'
      BY <1>2, <2>0, <2>1, <2>2, <3>2, <3>3 DEF Counted
    <3>5. q + t <= c + h
      BY <3>2, <3>3
    <3>6. q + t + l <= 1 + a
      BY <2>0, <3>5
    <3> QED BY <3>4, <3>6, Recount
  <2> QED BY <2>4, <2>5
<1>6. IsFiniteSet(queue')
  BY <1>2, CardSame DEF CopiesInv
<1> QED
  BY <1>2, <1>5, <1>6 DEF CopiesInv

LEMMA RetryCounted ==
  ASSUME TasksAssumption, TasksInv, CopiesInv, NEW k \in Children, Retry(k)
  PROVE  CopiesInv'
<1>1. PICK r : r = [child[k].message EXCEPT !.retries = child[k].message.retries + 1]
  OBVIOUS
<1>2. /\ UNCHANGED <<task, mails, again>> /\ child[k].phase = "raised"
      /\ queue' = queue \cup {r} /\ child' = [child EXCEPT ![k].phase = "retried"]
  BY <1>1 DEF Retry, Moves, alertVars, workVars
<1>3. PICK V : child \in [Children -> Child(V)]
  BY DEF TasksInv, ChildrenInv
<1>4. child'[k].phase = "retried" /\ \A q \in Children \ {k} : child'[q] = child[q]
  BY <1>2, <1>3 DEF Child
<1>5. r.task = Held(k)
  BY <1>1, <1>2, ChildTyped DEF Message, Held
<1>6. ASSUME NEW n \in 1 .. Len(task) PROVE Accounted(n)'
  <2>0. PICK c \in Nat, h \in Nat, l \in Nat, a \in Nat :
           Counted(n, c, h, l, a) /\ c + h + l <= 1 + a
    BY Counts
  <2>1. PICK T : T = Holders(n)'
    OBVIOUS
  <2>2. PICK Q : Q = Copies(n)'
    OBVIOUS
  <2>3. T \subseteq Holders(n) \ {k}
    BY <1>4, <2>1 DEF Holders, Held, Able
  <2>4. CASE r.task # n
    <3>1. Q \subseteq Copies(n)
      BY <1>2, <2>2, <2>4 DEF Copies
    <3>2. PICK t \in Nat : t = Cardinality(T) /\ t <= h
      BY <2>0, <2>3, CopiesTyped, CardSame DEF Counted
    <3>3. PICK q \in Nat : q = Cardinality(Q) /\ q <= c
      BY <2>0, <3>1, CopiesTyped, CardSame DEF Counted
    <3>4. Counted(n, q, t, l, a)'
      BY <1>2, <2>0, <2>1, <2>2, <3>2, <3>3 DEF Counted
    <3>5. q + t <= c + h
      BY <3>2, <3>3
    <3>6. q + t + l <= 1 + a
      BY <2>0, <3>5
    <3> QED BY <3>4, <3>6, Recount
  <2>5. CASE r.task = n
    <3>1. k \in Holders(n) /\ Q \subseteq Copies(n) \cup {r}
      BY <1>2, <1>5, <2>2, <2>5 DEF Holders, Able, Copies
    <3>2. PICK t \in Nat : t = Cardinality(T) /\ t + 1 <= h
      BY <2>0, <2>3, <3>1, CopiesTyped, CardLess DEF Counted
    <3>3. PICK q \in Nat : q = Cardinality(Q) /\ q <= c + 1
      BY <2>0, <3>1, CopiesTyped, CardMore DEF Counted
    <3>4. Counted(n, q, t, l, a)'
      BY <1>2, <2>0, <2>1, <2>2, <3>2, <3>3 DEF Counted
    <3>5. q + t <= c + h
      BY <3>2, <3>3
    <3>6. q + t + l <= 1 + a
      BY <2>0, <3>5
    <3> QED BY <3>4, <3>6, Recount
  <2> QED BY <2>4, <2>5
<1>7. IsFiniteSet(queue')
  BY <1>2, CardMore DEF CopiesInv
<1> QED
  BY <1>2, <1>6, <1>7 DEF CopiesInv

LEMMA RedeliverCounted ==
  ASSUME TasksAssumption, TasksInv, CopiesInv, NEW k \in Children, Redeliver(k)
  PROVE  CopiesInv'
<1>1. PICK r : r = Redelivery(k)
  OBVIOUS
<1>2. PICK p \in 1 .. Len(task) : p = Held(k)
  BY ChildTyped DEF Redeliver
<1>3. /\ UNCHANGED <<task, mails, child>> /\ queue' = queue \cup {r}
      /\ again' = [again EXCEPT ![p] = again[p] + 1]
  BY <1>1, <1>2 DEF Redeliver, alertVars
<1>4. r.task = p
  BY <1>1, <1>2, ChildTyped DEF Redelivery, Held, Message, Redeliver
<1>5. ASSUME NEW n \in 1 .. Len(task) PROVE Accounted(n)'
  <2>0. PICK c \in Nat, h \in Nat, l \in Nat, a \in Nat :
           Counted(n, c, h, l, a) /\ c + h + l <= 1 + a
    BY Counts
  <2>1. Holders(n)' = Holders(n)
    BY <1>3 DEF Holders, Held
  <2>2. PICK Q : Q = Copies(n)'
    OBVIOUS
  <2>3. CASE n # p
    <3>1. Q \subseteq Copies(n) /\ again'[n] = again[n]
      BY <1>3, <1>4, <2>2, <2>3 DEF Copies
    <3>2. PICK q \in Nat : q = Cardinality(Q) /\ q <= c
      BY <2>0, <3>1, CopiesTyped, CardSame DEF Counted
    <3>3. Counted(n, q, h, l, a)'
      BY <1>3, <2>0, <2>1, <2>2, <3>1, <3>2 DEF Counted
    <3>4. q + h + l <= 1 + a
      BY <2>0, <3>2
    <3> QED BY <3>3, <3>4, Recount
  <2>4. CASE n = p
    <3>1. Q \subseteq Copies(n) \cup {r}
      BY <1>3, <1>4, <2>2 DEF Copies
    <3>2. PICK q \in Nat : q = Cardinality(Q) /\ q <= c + 1
      BY <2>0, <3>1, CopiesTyped, CardMore DEF Counted
    <3>3. again'[n] = again[n] + 1
      BY <1>3, <2>4, LogsTyped DEF TasksInv
    <3>4. Counted(n, q, h, l, a + 1)'
      BY <1>3, <2>0, <2>1, <2>2, <3>2, <3>3 DEF Counted
    <3>5. q + h + l <= 1 + (a + 1)
      BY <2>0, <3>2
    <3> QED BY <3>4, <3>5, Recount
  <2> QED BY <2>3, <2>4
<1>6. IsFiniteSet(queue')
  BY <1>3, CardMore DEF CopiesInv
<1> QED
  BY <1>3, <1>5, <1>6 DEF CopiesInv

\* What a bound allows once both sides have grown, the left one by less.
LEMMA AddBound ==
  ASSUME NEW a \in Nat, NEW b \in Nat, NEW c \in Nat, NEW d \in Nat,
         NEW h \in Nat, NEW l \in Nat, NEW q \in Nat,
         c + h + l <= 1 + a, d <= b, q <= c + d
  PROVE  q + 0 + l <= 1 + (a + b)
OBVIOUS

\* The deliveries again are no more than the children that held the task.
LEMMA WorkerDiesCounted ==
  ASSUME TasksAssumption, TasksInv, CopiesInv, WorkerDies
  PROVE  CopiesInv'
<1>1. PICK busy : busy = {k \in Children : child[k].phase # "idle"}
  OBVIOUS
<1>2. /\ UNCHANGED <<task, mails>>
      /\ queue' = queue \cup {Redelivery(k) : k \in busy}
      /\ child' = [k \in Children |-> Free]
      /\ again' = [n \in DOMAIN again |->
                      again[n] + Cardinality({k \in busy : Held(k) = n})]
  BY <1>1 DEF WorkerDies, alertVars
<1>3. \A k \in busy : Redelivery(k).task = Held(k)
  BY <1>1, ChildTyped DEF Redelivery, Held, Message
<1>4. IsFiniteSet(busy) /\ IsFiniteSet(queue)
  <2>1. busy \subseteq Children /\ IsFiniteSet(Children)
    BY <1>1 DEF TasksAssumption
  <2> QED BY <2>1, CardSame DEF CopiesInv
<1>5. ASSUME NEW n \in 1 .. Len(task) PROVE Accounted(n)'
  <2>0. PICK c \in Nat, h \in Nat, l \in Nat, a \in Nat :
           Counted(n, c, h, l, a) /\ c + h + l <= 1 + a
    BY Counts
  <2>1. PICK B : B = {k \in busy : Held(k) = n}
    OBVIOUS
  <2>2. PICK Q : Q = Copies(n)'
    OBVIOUS
  <2>3. PICK D : D = {Redelivery(k) : k \in B}
    OBVIOUS
  <2>4. Holders(n)' = {}
    BY <1>2, FreeTyped DEF Holders, Able
  <2>5. Q = Copies(n) \cup D
    BY <1>2, <1>3, <2>1, <2>2, <2>3 DEF Copies
  <2>6. IsFiniteSet(B) /\ Cardinality(B) \in Nat
    BY <1>4, <2>1, CardSame
  <2>7. IsFiniteSet(D) /\ Cardinality(D) \in Nat /\ Cardinality(D) <= Cardinality(B)
    <3> DEFINE f == [k \in B |-> Redelivery(k)]
    <3>1. f \in Surjection(B, D)
      BY <2>3 DEF Surjection
    <3> QED BY <2>6, <3>1, FS_Surjection, FS_CardinalityType
  <2>8. Cardinality(Q) \in Nat /\ Cardinality(Q) <= Cardinality(Copies(n)) + Cardinality(D)
    <3>1. IsFiniteSet(Copies(n)) /\ Cardinality(Copies(n)) \in Nat
      BY CopiesTyped
    <3>2. /\ IsFiniteSet(Copies(n) \cup D) /\ IsFiniteSet(Copies(n) \cap D)
          /\ Cardinality(Copies(n) \cup D) =
                 Cardinality(Copies(n)) + Cardinality(D) - Cardinality(Copies(n) \cap D)
      BY <2>7, <3>1, FS_Union, FS_Intersection
    <3>3. Cardinality(Copies(n) \cap D) \in Nat /\ Cardinality(Copies(n) \cup D) \in Nat
      BY <3>2, FS_CardinalityType
    <3> QED BY <2>5, <2>7, <3>1, <3>2, <3>3
  <2>9. again'[n] = again[n] + Cardinality(B)
    BY <1>2, <2>1, LogsTyped DEF TasksInv
  <2>10. Cardinality({}) = 0
    BY FS_EmptySet
  <2>11. PICK b \in Nat, d \in Nat, q \in Nat :
            /\ b = Cardinality(B) /\ d = Cardinality(D) /\ q = Cardinality(Q)
            /\ d <= b /\ q <= c + d
    BY <2>0, <2>6, <2>7, <2>8 DEF Counted
  <2>12. Counted(n, q, 0, l, a + b)'
    <3>1. Cardinality(Copies(n))' = q
      BY <2>2, <2>11
    <3>2. Cardinality(Holders(n))' = 0
      BY <2>4, <2>10
    <3>3. mails'[n] = mails[n] /\ Len(mails[n]) = l
      BY <1>2, <2>0 DEF Counted
    <3>4. again'[n] = a + b
      BY <2>0, <2>9, <2>11 DEF Counted
    <3> QED BY <3>1, <3>2, <3>3, <3>4 DEF Counted
  <2>13. q + 0 + l <= 1 + (a + b)
    <3>1. c + h + l <= 1 + a /\ d <= b /\ q <= c + d
      BY <2>0, <2>11
    <3> QED BY <3>1, AddBound
  <2> QED BY <2>12, <2>13, Recount
<1>6. IsFiniteSet(queue')
  <2>1. IsFiniteSet({Redelivery(k) : k \in busy})
    <3> DEFINE D == {Redelivery(k) : k \in busy}
               f == [k \in busy |-> Redelivery(k)]
    <3>1. f \in Surjection(busy, D)
      BY DEF Surjection
    <3> QED BY <1>4, <3>1, FS_Surjection
  <2> QED BY <1>2, <1>4, <2>1, FS_Union
<1> QED
  BY <1>2, <1>5, <1>6 DEF CopiesInv

\* A new task has one message and nothing else.
LEMMA EnqueueCounted ==
  ASSUME TasksAssumption, TasksInv, CopiesInv, NEW t, Enqueue(t), child' = child
  PROVE  CopiesInv'
<1>1. PICK N \in Nat : N = Len(task)
  BY LogsTyped DEF TasksInv
<1>2. PICK m : m = [task |-> N + 1, retries |-> 0, delivery |-> 0]
  OBVIOUS
<1>3. queue' = queue \cup {m} /\ m.task = N + 1
  BY <1>1, <1>2 DEF Enqueue
<1>4. Len(task') = N + 1
  <2> DEFINE T == Task
  <2>1. task \in Seq(T) BY DEF TasksInv, LogsInv
  <2> HIDE DEF T
  <2> QED BY <1>1, <2>1 DEF Enqueue
<1>5. /\ \A n \in 1 .. N : mails'[n] = mails[n] /\ again'[n] = again[n]
      /\ mails'[N + 1] = <<>> /\ again'[N + 1] = 0
  <2> DEFINE S == Seq(Nat)
  <2>1. mails \in Seq(S) /\ Len(mails) = N /\ again \in Seq(Nat) /\ Len(again) = N
    BY <1>1 DEF TasksInv, LogsInv
  <2>2. mails' = Append(mails, <<>>) /\ again' = Append(again, 0)
    BY DEF Enqueue
  <2> HIDE DEF S
  <2> QED BY <1>1, <2>1, <2>2
<1>6. ASSUME NEW n \in 1 .. Len(task') PROVE Accounted(n)'
  <2>1. Holders(n)' = Holders(n)
    BY DEF Holders, Held
  <2>2. PICK Q : Q = Copies(n)'
    OBVIOUS
  <2>3. CASE n \in 1 .. N
    <3>1. Q = Copies(n)
      BY <1>1, <1>3, <2>2, <2>3 DEF Copies
    <3>2. Accounted(n) BY <1>1, <2>3 DEF CopiesInv
    <3> QED BY <1>5, <2>1, <2>2, <2>3, <3>1, <3>2 DEF Accounted
  <2>4. CASE n = N + 1
    <3>1. Q = {m}
      <4>1. \A q \in queue : q.task # n
        BY <1>1, <2>4 DEF TasksInv, MessageOK
      <4> QED BY <1>3, <2>2, <2>4, <4>1 DEF Copies
    <3>2. Holders(n) = {}
      <4>1. ASSUME NEW k \in Children, child[k].phase \in Able PROVE Held(k) # n
        <5>1. Held(k) \in 1 .. Len(task) BY <4>1, ChildTyped DEF Able
        <5> QED BY <1>1, <2>4, <5>1
      <4> QED BY <4>1 DEF Holders
    <3>3. Cardinality({m}) = 1 /\ Cardinality({}) = 0
      BY FS_EmptySet, FS_Singleton
    <3>4. Len(mails'[n]) = 0 /\ again'[n] = 0
      BY <1>5, <2>4
    <3> QED BY <2>1, <2>2, <3>1, <3>2, <3>3, <3>4 DEF Accounted
  <2> QED BY <1>1, <1>4, <2>3, <2>4
<1>7. IsFiniteSet(queue')
  BY <1>3, CardMore DEF CopiesInv
<1> QED
  BY <1>6, <1>7 DEF CopiesInv

LEMMA CopiesStep ==
  ASSUME TasksAssumption, TasksInv, CopiesInv, [TasksNext]_taskVars
  PROVE  CopiesInv'
<1>1. CASE UNCHANGED <<task, queue, mails, again, child>>
  BY <1>1, FewerStep
<1>2. ASSUME NEW a \in Alerts, CommitAlert(a) PROVE CopiesInv'
  BY <1>1, <1>2 DEF CommitAlert, brokerVars, workVars
<1>3. ASSUME NEW x \in reacting, EnqueueFails(x) PROVE CopiesInv'
  BY <1>1, <1>3 DEF EnqueueFails, brokerVars, workVars
<1>4. ASSUME NEW x \in reacting, EnqueueNotification(x) PROVE CopiesInv'
  BY <1>4, EnqueueCounted DEF EnqueueNotification
<1>5. CASE EnqueueExport
  BY <1>5, EnqueueCounted DEF EnqueueExport
<1>6. ASSUME NEW k \in Children, NEW m \in queue, Take(k, m) PROVE CopiesInv'
  BY <1>6, TakeCounted
<1>7. ASSUME NEW k \in Children,
             \/ LoadContext(k) \/ SkipEmail(k) \/ SendEmail(k) \/ Quit(k)
             \/ ComputeReport(k) \/ OpenFile(k) \/ WriteRows(k)
             \/ Raises(k) \/ QuitRaises(k) \/ Retry(k) \/ RetryRefused(k) \/ GiveUp(k)
             \/ Settle(k) \/ Acknowledge(k) \/ Killed(k) \/ Redeliver(k)
      PROVE  CopiesInv'
  BY <1>7, FewerSteps, SendEmailCounted, QuitRaisesCounted, RetryCounted, RedeliverCounted
<1>8. CASE WorkerDies
  BY <1>8, WorkerDiesCounted
<1>9. CASE UNCHANGED taskVars
  BY <1>1, <1>9 DEF taskVars
<1> QED
  BY <1>2, <1>3, <1>4, <1>5, <1>6, <1>7, <1>8, <1>9 DEF TasksNext

LEMMA CopiesStart ==
  ASSUME TasksInit
  PROVE  CopiesInv
<1>1. queue = {} /\ Len(task) = 0
  BY DEF TasksInit
<1>2. IsFiniteSet({})
  BY FS_EmptySet
<1> QED
  BY <1>1, <1>2 DEF CopiesInv

-----------------------------------------------------------------------------
(* A task that has not come to an end has somebody to go on with it. *)

\* The phases from which a child still brings about an end.  One that has
\* enqueued its retry does not: that is for the message to do.
Unended == {"started", "loaded", "accepted", "computed", "opened", "raised",
            "succeeded", "failed", "rejected"}
Alive(n) ==
    \/ ended[n] # {}
    \/ \E m \in queue : m.task = n
    \/ \E k \in Children : child[k].phase \in Unended /\ Held(k) = n

AliveInv == \A n \in 1 .. Len(task) : Alive(n)

LEMMA AliveRests ==
  ASSUME TasksInv, AliveInv
  PROVE  NothingLost
<1>1. ASSUME NEW n \in 1 .. Len(task), AtRest(n) PROVE ended[n] # {}
  BY <1>1 DEF AliveInv, Alive, AtRest, Unended
<1> QED
  BY <1>1, LogsTyped DEF NothingLost, TasksInv

\* Whatever is in the queue stays there, and no child changes.
LEMMA AliveQueued ==
  ASSUME NEW n, Alive(n), child' = child, queue \subseteq queue', ended'[n] = ended[n]
  PROVE  Alive(n)'
BY DEF Alive, Held

\* One child changes: it goes on with its message, or has brought about an end or
\* a message that will, or had nothing left to bring about.
LEMMA AliveChild ==
  ASSUME NEW n, Alive(n), NEW k \in Children, NEW c, child' = [child EXCEPT ![k] = c],
         k \in DOMAIN child,
         \A m \in queue \ queue' : m.task = n => Alive(n)',
         ended[n] # {} => ended'[n] # {},
         child[k].phase \in Unended /\ Held(k) = n =>
            \/ c.phase \in Unended /\ c.message = child[k].message
            \/ ended'[n] # {}
            \/ \E m \in queue' : m.task = n
  PROVE  Alive(n)'
<1>1. CASE ended[n] # {}
  BY <1>1 DEF Alive
<1>2. ASSUME NEW m \in queue, m.task = n PROVE Alive(n)'
  BY <1>2 DEF Alive
<1>3. ASSUME NEW q \in Children, child[q].phase \in Unended, Held(q) = n PROVE Alive(n)'
  <2>1. CASE q # k
    <3>1. child'[q] = child[q] BY <2>1
    <3> QED BY <1>3, <3>1 DEF Alive, Held
  <2>2. CASE q = k
    <3>1. q \in DOMAIN child => child'[q] = c
      BY <2>2
    <3> QED BY <1>3, <2>2, <3>1 DEF Alive, Held
  <2> QED BY <2>1, <2>2
<1> QED
  BY <1>1, <1>2, <1>3 DEF Alive

\* The steps that take a child on with its message, or away from one it is done with.
LEMMA MovesAlive ==
  ASSUME TasksInv, NEW n \in 1 .. Len(task), Alive(n), NEW k \in Children,
         \/ LoadContext(k) \/ SkipEmail(k) \/ SendEmail(k) \/ Quit(k)
         \/ ComputeReport(k) \/ OpenFile(k) \/ WriteRows(k)
         \/ Raises(k) \/ QuitRaises(k) \/ RetryRefused(k) \/ GiveUp(k) \/ Acknowledge(k)
  PROVE  Alive(n)'
<1>1. PICK V : child[k] \in Child(V)
  BY ChildTyped
<1>2. queue' = queue /\ ended' = ended
  BY DEF LoadContext, SkipEmail, SendEmail, Quit, ComputeReport, OpenFile, WriteRows, Raises,
         QuitRaises, RetryRefused, GiveUp, Acknowledge, brokerVars, workVars
<1>3. CASE \/ SkipEmail(k) \/ SendEmail(k) \/ Quit(k) \/ WriteRows(k) \/ Raises(k)
           \/ QuitRaises(k) \/ RetryRefused(k) \/ GiveUp(k)
  <2>1. PICK p \in Unended : \/ child' = [child EXCEPT ![k].phase = p]
                             \/ child' = [child EXCEPT ![k].phase = p, ![k].version = 0]
    BY <1>3 DEF SkipEmail, SendEmail, Quit, WriteRows, Raises, QuitRaises, RetryRefused,
                GiveUp, Moves, Unended
  <2>2. PICK c : /\ c = [child[k] EXCEPT !.phase = p]
                    \/ c = [[child[k] EXCEPT !.phase = p] EXCEPT !.version = 0]
                 /\ child' = [child EXCEPT ![k] = c]
    BY <2>1, ChildTyped
  <2>3. c.phase \in Unended /\ c.message = child[k].message
    BY <1>1, <2>2 DEF Child
  <2> QED BY <1>2, <2>2, <2>3, ChildTyped, AliveChild
<1>4. CASE LoadContext(k)
  <2>1. PICK v : v = alert[task[Held(k)].about]
    OBVIOUS
  <2>2. PICK c : c = [[child[k] EXCEPT !.phase = "loaded"] EXCEPT !.version = v]
    OBVIOUS
  <2>3. child' = [child EXCEPT ![k] = c]
    BY <1>4, <2>1, <2>2, ChildTyped DEF LoadContext
  <2>4. c.phase \in Unended /\ c.message = child[k].message
    BY <1>1, <2>2 DEF Child, Unended
  <2> QED BY <1>2, <2>3, <2>4, ChildTyped, AliveChild
<1>5. CASE ComputeReport(k)
  <2>1. PICK v : v = Figures(task[Held(k)].about, Stock)
    OBVIOUS
  <2>2. PICK c : c = [[child[k] EXCEPT !.phase = "computed"] EXCEPT !.figures = v]
    OBVIOUS
  <2>3. child' = [child EXCEPT ![k] = c]
    BY <1>5, <2>1, <2>2, ChildTyped DEF ComputeReport
  <2>4. c.phase \in Unended /\ c.message = child[k].message
    BY <1>1, <2>2 DEF Child, Unended
  <2> QED BY <1>2, <2>3, <2>4, ChildTyped, AliveChild
<1>6. CASE OpenFile(k)
  <2>1. PICK v : v = FileName(k)
    OBVIOUS
  <2>2. PICK c : c = [[child[k] EXCEPT !.phase = "opened"] EXCEPT !.file = v]
    OBVIOUS
  <2>3. child' = [child EXCEPT ![k] = c]
    BY <1>6, <2>1, <2>2, ChildTyped DEF OpenFile
  <2>4. c.phase \in Unended /\ c.message = child[k].message
    BY <1>1, <2>2 DEF Child, Unended
  <2> QED BY <1>2, <2>3, <2>4, ChildTyped, AliveChild
<1>7. CASE Acknowledge(k)
  <2>1. child' = [child EXCEPT ![k] = Free] /\ child[k].phase \notin Unended
    BY <1>7 DEF Acknowledge, Unended
  <2> QED BY <1>2, <2>1, ChildTyped, AliveChild
<1> QED
  BY <1>3, <1>4, <1>5, <1>6, <1>7

LEMMA TakeAlive ==
  ASSUME TasksInv, NEW n \in 1 .. Len(task), Alive(n),
         NEW k \in Children, NEW m \in queue, Take(k, m)
  PROVE  Alive(n)'
<1>1. PICK c : c = [[Free EXCEPT !.phase = "started"] EXCEPT !.message = m]
  OBVIOUS
<1>2. /\ child' = [child EXCEPT ![k] = c] /\ queue' = queue \ {m} /\ ended' = ended
      /\ child[k].phase \notin Unended
  BY <1>1 DEF Take, workVars, Unended
<1>3. c.phase \in Unended /\ c.message = m
  BY <1>1, FreeTyped DEF Free, Unended
<1>4. m.task = n => Alive(n)'
  <2>1. child'[k] = c
    BY <1>2, ChildTyped
  <2> QED BY <1>3, <2>1 DEF Alive, Held
<1>5. \A q \in queue \ queue' : q.task = n => Alive(n)'
  BY <1>2, <1>4
<1> QED
  BY <1>2, <1>5, ChildTyped, AliveChild

LEMMA RetryAlive ==
  ASSUME TasksInv, NEW n \in 1 .. Len(task), Alive(n), NEW k \in Children, Retry(k)
  PROVE  Alive(n)'
<1>1. PICK m : m = child[k].message
  OBVIOUS
<1>2. PICK r : r = [m EXCEPT !.retries = m.retries + 1]
  OBVIOUS
<1>3. PICK c : c = [child[k] EXCEPT !.phase = "retried"]
  OBVIOUS
<1>4. child' = [child EXCEPT ![k] = c] /\ queue' = queue \cup {r} /\ ended' = ended
  BY <1>1, <1>2, <1>3, ChildTyped DEF Retry, Moves, workVars
<1>5. r.task = m.task /\ Held(k) = m.task
  BY <1>1, <1>2, ChildTyped DEF Retry, Message, Held
<1> QED
  BY <1>4, <1>5, ChildTyped, AliveChild

LEMMA SettleAlive ==
  ASSUME TasksInv, NEW n \in 1 .. Len(task), Alive(n), NEW k \in Children, Settle(k)
  PROVE  Alive(n)'
<1>1. PICK w : w = child[k].phase
  OBVIOUS
<1>2. PICK c : c = [child[k] EXCEPT !.phase = "settled"]
  OBVIOUS
<1>3. child' = [child EXCEPT ![k] = c] /\ queue' = queue
  BY <1>2, ChildTyped DEF Settle, Moves
<1>4. CASE w = "retried"
  <2>1. ended' = ended /\ child[k].phase \notin Unended
    BY <1>1, <1>4 DEF Settle, Unended
  <2> QED BY <1>3, <2>1, ChildTyped, AliveChild
<1>5. CASE w # "retried"
  <2>1. PICK p \in 1 .. Len(task) : p = Held(k)
    BY ChildTyped DEF Settle, StateOf
  <2>2. w \in Ways /\ ended' = [ended EXCEPT ![p] = @ \cup {w}]
    BY <1>1, <1>5, <2>1 DEF Settle, StateOf, Ways
  <2>3. \A q \in 1 .. Len(task) :
           ended'[q] = IF q = p THEN ended[q] \cup {w} ELSE ended[q]
    BY <2>2, EndedTyped
  <2>4. ended[n] # {} => ended'[n] # {}
    BY <2>3
  <2>5. Held(k) = n => ended'[n] # {}
    BY <2>1, <2>3
  <2> QED BY <1>3, <2>4, <2>5, ChildTyped, AliveChild
<1> QED
  BY <1>4, <1>5

LEMMA KilledAlive ==
  ASSUME TasksInv, NEW n \in 1 .. Len(task), Alive(n), NEW k \in Children, Killed(k)
  PROVE  Alive(n)'
<1>1. PICK p \in 1 .. Len(task) : p = Held(k)
  BY ChildTyped DEF Killed
<1>2. PICK w \in Ways : w = "killed"
  BY DEF Ways
<1>3. /\ child' = [child EXCEPT ![k] = Free] /\ queue' = queue
      /\ ended' = [ended EXCEPT ![p] = @ \cup {w}]
  BY <1>1, <1>2 DEF Killed
<1>4. \A q \in 1 .. Len(task) : ended'[q] = IF q = p THEN ended[q] \cup {w} ELSE ended[q]
  BY <1>3, EndedTyped
<1>5. ended[n] # {} => ended'[n] # {}
  BY <1>4
<1>6. Held(k) = n => ended'[n] # {}
  BY <1>1, <1>4
<1> QED
  BY <1>3, <1>5, <1>6, ChildTyped, AliveChild

LEMMA WorkerDiesAlive ==
  ASSUME TasksInv, NEW n \in 1 .. Len(task), Alive(n), WorkerDies
  PROVE  Alive(n)'
<1>1. PICK busy : busy = {k \in Children : child[k].phase # "idle"}
  OBVIOUS
<1>2. queue' = queue \cup {Redelivery(k) : k \in busy} /\ ended' = ended
  BY <1>1 DEF WorkerDies
<1>3. ASSUME NEW k \in Children, child[k].phase \in Unended, Held(k) = n PROVE Alive(n)'
  <2>1. k \in busy
    BY <1>1, <1>3 DEF Unended
  <2>2. Redelivery(k).task = n
    BY <1>1, <1>3, <2>1, ChildTyped DEF Redelivery, Held, Message
  <2> QED BY <1>2, <2>1, <2>2 DEF Alive
<1> QED
  BY <1>2, <1>3 DEF Alive

LEMMA EnqueueAlive ==
  ASSUME TasksInv, AliveInv, NEW t, Enqueue(t), child' = child
  PROVE  AliveInv'
<1>1. PICK N \in Nat : N = Len(task)
  BY LogsTyped DEF TasksInv
<1>2. PICK m : m = [task |-> N + 1, retries |-> 0, delivery |-> 0]
  OBVIOUS
<1>3. queue' = queue \cup {m} /\ m.task = N + 1
  BY <1>1, <1>2 DEF Enqueue
<1>4. Len(task') = N + 1
  <2> DEFINE T == Task
  <2>1. task \in Seq(T) BY DEF TasksInv, LogsInv
  <2> HIDE DEF T
  <2> QED BY <1>1, <2>1 DEF Enqueue
<1>5. \A n \in 1 .. N : ended'[n] = ended[n]
  <2> DEFINE S == SUBSET Ways
  <2>1. ended \in Seq(S) /\ Len(ended) = N /\ {} \in S
    BY <1>1 DEF TasksInv, LogsInv
  <2>2. ended' = Append(ended, {})
    BY DEF Enqueue
  <2> HIDE DEF S
  <2> QED BY <1>1, <2>1, <2>2
<1>6. ASSUME NEW n \in 1 .. N PROVE Alive(n)'
  BY <1>1, <1>3, <1>5, AliveQueued DEF AliveInv
<1>7. Alive(N + 1)'
  BY <1>3 DEF Alive
<1>8. \A n \in 1 .. Len(task') : n \in 1 .. N \/ n = N + 1
  BY <1>1, <1>4
<1> QED
  BY <1>6, <1>7, <1>8 DEF AliveInv

LEMMA AliveStep ==
  ASSUME TasksInv, AliveInv, [TasksNext]_taskVars
  PROVE  AliveInv'
<1>1. CASE UNCHANGED <<task, queue, child, ended>>
  BY <1>1, AliveQueued DEF AliveInv
<1>2. ASSUME NEW a \in Alerts, CommitAlert(a) PROVE AliveInv'
  BY <1>1, <1>2 DEF CommitAlert, brokerVars, workVars
<1>3. ASSUME NEW x \in reacting, EnqueueFails(x) PROVE AliveInv'
  BY <1>1, <1>3 DEF EnqueueFails, brokerVars, workVars
<1>4. ASSUME NEW x \in reacting, EnqueueNotification(x) PROVE AliveInv'
  BY <1>4, EnqueueAlive DEF EnqueueNotification
<1>5. CASE EnqueueExport
  BY <1>5, EnqueueAlive DEF EnqueueExport
<1>6. ASSUME NEW k \in Children, NEW m \in queue, Take(k, m) PROVE AliveInv'
  <2>1. task' = task
    BY <1>6 DEF Take
  <2> QED BY <1>6, <2>1, TakeAlive DEF AliveInv
<1>7. ASSUME NEW k \in Children,
             \/ LoadContext(k) \/ SkipEmail(k) \/ SendEmail(k) \/ Quit(k)
             \/ ComputeReport(k) \/ OpenFile(k) \/ WriteRows(k)
             \/ Raises(k) \/ QuitRaises(k) \/ RetryRefused(k) \/ GiveUp(k) \/ Acknowledge(k)
      PROVE  AliveInv'
  <2>1. task' = task
    BY <1>7 DEF LoadContext, SkipEmail, SendEmail, Quit, ComputeReport, OpenFile, WriteRows,
                Raises, QuitRaises, RetryRefused, GiveUp, Acknowledge, brokerVars
  <2> QED BY <1>7, <2>1, MovesAlive DEF AliveInv
<1>8. ASSUME NEW k \in Children, Retry(k) \/ Settle(k) \/ Killed(k) PROVE AliveInv'
  <2>1. task' = task
    BY <1>8 DEF Retry, Settle, Killed
  <2> QED BY <1>8, <2>1, RetryAlive, SettleAlive, KilledAlive DEF AliveInv
<1>9. ASSUME NEW k \in Children, Redeliver(k) PROVE AliveInv'
  <2>1. task' = task /\ child' = child /\ ended' = ended /\ queue \subseteq queue'
    BY <1>9 DEF Redeliver
  <2> QED BY <2>1, AliveQueued DEF AliveInv
<1>10. CASE WorkerDies
  <2>1. task' = task
    BY <1>10 DEF WorkerDies
  <2> QED BY <1>10, <2>1, WorkerDiesAlive DEF AliveInv
<1>11. CASE UNCHANGED taskVars
  BY <1>1, <1>11 DEF taskVars
<1> QED
  BY <1>2, <1>3, <1>4, <1>5, <1>6, <1>7, <1>8, <1>9, <1>10, <1>11 DEF TasksNext

LEMMA AliveStart ==
  ASSUME TasksInit
  PROVE  AliveInv
BY DEF TasksInit, AliveInv
=============================================================================
