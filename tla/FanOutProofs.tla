---------------------------- MODULE FanOutProofs ----------------------------
(***************************************************************************)
(* Proofs about FanOut, for any number of processes, clients, channels and *)
(* events: the registry of connections, the order and the scope of what    *)
(* each client is sent, and the refinement of OrderedFeed.                 *)
(***************************************************************************)
EXTENDS FanOut, TLAPS

-----------------------------------------------------------------------------
(* Sequences. *)

In(x, s) == \E k \in DOMAIN s : s[k] = x
Increasing(s) == \A j, k \in DOMAIN s : j < k => s[j] < s[k]

\* What Redis appends to an inbox, and what a send appends to a history.
LEMMA AppendElements ==
    ASSUME NEW s \in Seq(Nat), NEW n \in Nat
    PROVE  \A x : In(x, Append(s, n)) <=> In(x, s) \/ x = n
<1>1. /\ Append(s, n) \in Seq(Nat) /\ DOMAIN Append(s, n) = 1 .. (Len(s) + 1)
      /\ DOMAIN s = 1 .. Len(s) /\ Len(s) \in Nat
    OBVIOUS
<1>2. \A k \in 1 .. Len(s) : Append(s, n)[k] = s[k]
    OBVIOUS
<1>3. Append(s, n)[Len(s) + 1] = n
    OBVIOUS
<1> QED
    BY <1>1, <1>2, <1>3 DEF In

\* A message newer than all before it keeps a sequence in order.
LEMMA AppendIncreasing ==
    ASSUME NEW s \in Seq(Nat), NEW n \in Nat, Increasing(s),
           \A x \in Nat : In(x, s) => x < n
    PROVE  Increasing(Append(s, n))
<1>1. /\ DOMAIN Append(s, n) = 1 .. (Len(s) + 1)
      /\ DOMAIN s = 1 .. Len(s) /\ Len(s) \in Nat
    OBVIOUS
<1>2. \A k \in 1 .. Len(s) : Append(s, n)[k] = s[k] /\ s[k] \in Nat /\ s[k] < n
    BY <1>1 DEF In
<1>3. Append(s, n)[Len(s) + 1] = n
    OBVIOUS
<1> QED
    BY <1>1, <1>2, <1>3 DEF Increasing

\* The relay takes the head of its inbox.
LEMMA TailElements ==
    ASSUME NEW s \in Seq(Nat), s # <<>>, Increasing(s)
    PROVE  /\ Tail(s) \in Seq(Nat) /\ Increasing(Tail(s))
           /\ Head(s) \in Nat /\ In(Head(s), s)
           /\ \A x : In(x, Tail(s)) => In(x, s) /\ Head(s) < x
<1>1. /\ Len(s) \in Nat /\ Len(s) >= 1 /\ DOMAIN s = 1 .. Len(s)
      /\ DOMAIN Tail(s) = 1 .. (Len(s) - 1) /\ Tail(s) \in Seq(Nat)
      /\ Head(s) = s[1] /\ Head(s) \in Nat
    OBVIOUS
<1>2. \A k \in 1 .. (Len(s) - 1) : Tail(s)[k] = s[k + 1]
    OBVIOUS
<1>3. Increasing(Tail(s))
    BY <1>1, <1>2 DEF Increasing
<1>4. In(Head(s), s)
    BY <1>1 DEF In
<1>5. \A x : In(x, Tail(s)) => In(x, s) /\ Head(s) < x
    <2> SUFFICES ASSUME NEW k \in 1 .. (Len(s) - 1)
                 PROVE  In(Tail(s)[k], s) /\ s[1] < Tail(s)[k]
        BY <1>1 DEF In
    <2>1. k + 1 \in DOMAIN s /\ 1 \in DOMAIN s /\ 1 < k + 1
        BY <1>1
    <2> QED
        BY <2>1, <1>2 DEF In, Increasing
<1> QED
    BY <1>1, <1>3, <1>4, <1>5

LEMMA EmptySequence == Increasing(<<>>) /\ \A x : ~In(x, <<>>)
    BY DEF Increasing, In

-----------------------------------------------------------------------------
(* Types. *)

LEMMA IdleIsJob == Idle \in Job
    BY DEF Idle, Job

\* What Continue does to the broadcast and to the registry.
LEMMA Continued ==
    ASSUME TypeOK, NEW p \in Processes, NEW b \in Broadcasters, NEW j \in Job,
           Continue(p, b, j)
    PROVE  /\ job' \in [Processes -> [Broadcasters -> Job]]
           /\ subs' \in [Processes -> SUBSET (Channels \X Clients)]
           /\ \A q \in Processes, d \in Broadcasters :
                 q # p \/ d # b => job'[q][d] = job[q][d]
           /\ \A q \in Processes : q # p => subs'[q] = subs[q]
           /\ \/ /\ job'[p][b].current \in j.targets
                 /\ job'[p][b].targets = j.targets \ {job'[p][b].current}
                 /\ job'[p][b].about = j.about /\ job'[p][b].channels = j.channels
                 /\ job'[p][b].stale = j.stale
                 /\ subs' = subs
              \/ /\ job'[p][b] = Idle
                 /\ subs'[p] = subs[p] \ (j.channels \X j.stale)
<1>1. CASE \E c \in j.targets :
              /\ job' = [job EXCEPT ![p][b] = [j EXCEPT !.current = c, !.targets = @ \ {c}]]
              /\ UNCHANGED subs
    <2>1. PICK c \in j.targets :
              /\ job' = [job EXCEPT ![p][b] = [j EXCEPT !.current = c, !.targets = @ \ {c}]]
              /\ UNCHANGED subs
        BY <1>1
    <2> DEFINE k == [j EXCEPT !.current = c, !.targets = @ \ {c}]
    <2>2. /\ k \in Job /\ k.current = c /\ k.targets = j.targets \ {c}
          /\ k.about = j.about /\ k.channels = j.channels /\ k.stale = j.stale
        BY DEF Job
    <2>3. job' = [job EXCEPT ![p][b] = k]
        BY <2>1
    <2> HIDE DEF k
    <2>4. <<p, b>> \in Processes \X Broadcasters
        OBVIOUS
    <2>5. job'[p][b] = k /\ job' \in [Processes -> [Broadcasters -> Job]]
        BY <2>2, <2>3, <2>4 DEF TypeOK
    <2>6. \A q \in Processes, d \in Broadcasters : q # p \/ d # b => job'[q][d] = job[q][d]
        BY <2>3 DEF TypeOK
    <2> QED
        BY <2>1, <2>2, <2>5, <2>6 DEF TypeOK
<1>2. CASE /\ job' = [job EXCEPT ![p][b] = Idle]
           /\ subs' = [subs EXCEPT ![p] = @ \ (j.channels \X j.stale)]
    <2>1. <<p, b>> \in Processes \X Broadcasters
        OBVIOUS
    <2>2. job'[p][b] = Idle /\ job' \in [Processes -> [Broadcasters -> Job]]
        BY <1>2, <2>1, IdleIsJob DEF TypeOK
    <2>3. \A q \in Processes, d \in Broadcasters : q # p \/ d # b => job'[q][d] = job[q][d]
        BY <1>2 DEF TypeOK
    <2>4. /\ subs'[p] = subs[p] \ (j.channels \X j.stale)
          /\ subs' \in [Processes -> SUBSET (Channels \X Clients)]
          /\ \A q \in Processes : q # p => subs'[q] = subs[q]
        BY <1>2 DEF TypeOK
    <2> QED
        BY <2>2, <2>3, <2>4
<1> QED
    BY <1>1, <1>2 DEF Continue

\* A broadcast as it begins.
LEMMA BroadcastIsJob ==
    ASSUME TypeOK, NEW p \in Processes, NEW i \in Nat, NEW chs \in SUBSET Warehouses
    PROVE  /\ Broadcast(p, i, chs) \in Job /\ Broadcast(p, i, chs).about = i
           /\ Broadcast(p, i, chs).channels = chs \cup {Global}
           /\ Broadcast(p, i, chs).stale = {}
           /\ \A c \in Broadcast(p, i, chs).targets :
                 \E ch \in chs \cup {Global} : <<ch, c>> \in subs[p]
    BY DEF Broadcast, Job, Subscribed, Channels

\* The broadcast a failed send leaves.
LEMMA StaleIsJob ==
    ASSUME NEW j \in Job, j.current \in Clients
    PROVE  LET k == [j EXCEPT !.stale = @ \cup {j.current}]
           IN  /\ k \in Job /\ k.about = j.about /\ k.channels = j.channels
               /\ k.targets = j.targets /\ k.stale = j.stale \cup {j.current}
    BY DEF Job

-----------------------------------------------------------------------------
(* The inductive invariant. *)

\* A connection that was not made has no process, no channel and no message.
Connections ==
    \A c \in Clients :
        /\ endpoint[c] = "new" => /\ home[c] = NoProcess /\ channel[c] = NoChannel
                                  /\ sent[c] = <<>>
        /\ endpoint[c] # "new" => home[c] \in Processes /\ channel[c] \in Channels

\* A process that is down has no relay and no connection.
Lives ==
    /\ \A p \in Processes : life[p] = "down" => relay[p] = "none"
    /\ \A c \in Clients : endpoint[c] \in {"accepted", "open"} => life[home[c]] # "down"

\* Redis sends in order, and only what was published.
Inboxes ==
    \A p \in Processes :
        /\ Increasing(inbox[p])
        /\ \A i \in Nat : In(i, inbox[p]) => i \in 1 .. Len(bus)

\* Whom a broadcast is about to send to, is sending to or failed to send to.
Aims(j) == j.targets \cup j.stale \cup (Clients \cap {j.current})
Jobs ==
    \A p \in Processes, b \in Broadcasters :
        /\ \A c \in Aims(job[p][b]) :
              home[c] = p /\ channel[c] \in job[p][b].channels /\ endpoint[c] # "new"
        /\ \A c \in job[p][b].stale : endpoint[c] = "gone" \/ link[c] = "down"
        /\ job[p][b].current \notin job[p][b].targets
        /\ job[p][b].current = NoClient => job[p][b] = Idle

\* The relay broadcasts one published message, older than those in its inbox.
RelayJobs ==
    \A p \in Processes : Busy(p, "relay") =>
        /\ job[p]["relay"].about \in 1 .. Len(bus)
        /\ job[p]["relay"].channels = bus[job[p]["relay"].about].channels \cup {Global}
        /\ \A i \in Nat : In(i, inbox[p]) => job[p]["relay"].about < i

\* What a client was sent is behind what its process is about to send it.
Behind(c, i) ==
    /\ i \in 1 .. Len(bus) /\ channel[c] \in bus[i].channels \cup {Global}
    /\ \A k \in Nat : In(k, inbox[home[c]]) => i < k
    /\ Busy(home[c], "relay") =>
          /\ i <= job[home[c]]["relay"].about
          /\ c \in job[home[c]]["relay"].targets \cup {job[home[c]]["relay"].current}
                => i < job[home[c]]["relay"].about
Histories ==
    \A c \in Clients :
        /\ Increasing(sent[c])
        /\ \A i \in Nat : In(i, sent[c]) => Behind(c, i)

\* A process that is down has no connection, message or broadcast.
NoMemory ==
    \A p \in Processes : life[p] = "down" =>
        /\ subs[p] = {} /\ inbox[p] = <<>>
        /\ \A b \in Broadcasters : ~Busy(p, b)

IndInv ==
    /\ TypeOK /\ Connections /\ Lives /\ RegistryExact /\ NoMemory
    /\ Inboxes /\ Jobs /\ RelayJobs /\ Histories

-----------------------------------------------------------------------------
(* One step keeps the types. *)

LEMMA EventChannelsScoped == \A chs \in EventChannels : chs \in SUBSET Warehouses
    BY EventsAssumption

\* What the relay takes from its inbox is a published message.
LEMMA NextMessage ==
    ASSUME IndInv, NEW p \in Processes, Relay(p)
    PROVE  LET i == Head(inbox[p])
               j == Broadcast(p, i, bus[i].channels)
           IN  /\ i \in 1 .. Len(bus) /\ bus[i].channels \in SUBSET Warehouses
               /\ In(i, inbox[p])
               /\ j \in Job /\ j.about = i /\ j.channels = bus[i].channels \cup {Global}
               /\ j.stale = {}
               /\ \A c \in j.targets : \E ch \in j.channels : <<ch, c>> \in subs[p]
               /\ Continue(p, "relay", j)
               /\ inbox' = [inbox EXCEPT ![p] = Tail(@)]
               /\ Tail(inbox[p]) \in Seq(Nat) /\ Increasing(Tail(inbox[p]))
               /\ \A x : In(x, Tail(inbox[p])) => In(x, inbox[p]) /\ i < x
<1>1. inbox[p] \in Seq(Nat) /\ inbox[p] # <<>> /\ Increasing(inbox[p])
    BY DEF IndInv, TypeOK, Inboxes, Relay
<1>2. PICK i \in Nat : i = Head(inbox[p])
    BY <1>1, TailElements
<1>3. /\ Tail(inbox[p]) \in Seq(Nat) /\ Increasing(Tail(inbox[p])) /\ In(i, inbox[p])
      /\ \A x : In(x, Tail(inbox[p])) => In(x, inbox[p]) /\ i < x
    BY <1>1, <1>2, TailElements
<1>4. i \in 1 .. Len(bus)
    BY <1>3 DEF IndInv, Inboxes
<1>5. PICK chs \in SUBSET Warehouses : chs = bus[i].channels
    <2> DEFINE Message == [event : Nat, channels : SUBSET Warehouses]
    <2>0. bus \in Seq(Message)
        BY DEF IndInv, TypeOK
    <2> HIDE DEF Message
    <2>1. bus[i] \in Message
        BY <1>4, <2>0
    <2> QED
        BY <2>1 DEF Message
<1>6. TypeOK
    BY DEF IndInv
<1>7. LET j == Broadcast(p, i, chs)
      IN  /\ j \in Job /\ j.about = i /\ j.channels = chs \cup {Global}
          /\ j.stale = {}
          /\ \A c \in j.targets : \E ch \in chs \cup {Global} : <<ch, c>> \in subs[p]
    BY <1>6, BroadcastIsJob
<1>8. /\ Continue(p, "relay", Broadcast(p, i, chs))
      /\ inbox' = [inbox EXCEPT ![p] = Tail(@)]
    BY <1>2, <1>5 DEF Relay
<1> QED
    BY <1>2, <1>3, <1>4, <1>5, <1>7, <1>8

\* The heartbeat's broadcast, which every global client is a target of.
LEMMA NextHeartbeat ==
    ASSUME TypeOK, NEW p \in Processes, Heartbeat(p)
    PROVE  LET j == Broadcast(p, 0, {})
           IN  /\ j \in Job /\ j.about = 0 /\ j.channels = {Global} /\ j.stale = {}
               /\ \A c \in j.targets : \E ch \in j.channels : <<ch, c>> \in subs[p]
               /\ Continue(p, "heartbeat", j)
<1>1. Continue(p, "heartbeat", Broadcast(p, 0, {}))
    BY DEF Heartbeat
<1>2. {} \in SUBSET Warehouses /\ 0 \in Nat /\ {} \cup {Global} = {Global}
    OBVIOUS
<1> QED
    BY <1>1, <1>2, BroadcastIsJob

\* A send that returned or raised, and what the broadcast goes on with.
LEMMA NextSend ==
    ASSUME TypeOK, NEW p \in Processes, NEW b \in Broadcasters,
           SendReturns(p, b) \/ SendRaises(p, b)
    PROVE  /\ job[p][b] \in Job /\ job[p][b].current \in Clients
           /\ UNCHANGED <<processVars, busVars, clientVars, faults>>
           /\ \E k \in Job :
                 /\ Continue(p, b, k)
                 /\ k.about = job[p][b].about /\ k.channels = job[p][b].channels
                 /\ k.targets = job[p][b].targets
                 /\ \/ k.stale = job[p][b].stale
                    \/ /\ k.stale = job[p][b].stale \cup {job[p][b].current}
                       /\ \/ endpoint[job[p][b].current] = "gone"
                          \/ link[job[p][b].current] = "down"
<1>1. job[p][b] \in Job
    BY DEF TypeOK
<1>2. job[p][b].current \in Clients
    BY <1>1 DEF Job, SendReturns, SendRaises, Busy
<1>3. CASE SendReturns(p, b)
    BY <1>1, <1>2, <1>3 DEF SendReturns
<1>4. CASE SendRaises(p, b)
    <2> DEFINE k == [job[p][b] EXCEPT !.stale = @ \cup {job[p][b].current}]
    <2>1. /\ k \in Job /\ k.about = job[p][b].about /\ k.channels = job[p][b].channels
          /\ k.targets = job[p][b].targets
          /\ k.stale = job[p][b].stale \cup {job[p][b].current}
        BY <1>1, <1>2, StaleIsJob
    <2>2. /\ Continue(p, b, k)
          /\ endpoint[job[p][b].current] = "gone" \/ link[job[p][b].current] = "down"
          /\ UNCHANGED <<processVars, busVars, clientVars, faults>>
        BY <1>4 DEF SendRaises
    <2> HIDE DEF k
    <2> QED
        BY <1>1, <1>2, <2>1, <2>2
<1> QED
    BY <1>3, <1>4

LEMMA TypeKept ==
    ASSUME IndInv, [Next]_vars
    PROVE  TypeOK'
<1> USE DEF processVars, busVars, clientVars
<1>0. TypeOK
    BY DEF IndInv
<1>1. ASSUME NEW p \in Processes, Start(p) PROVE TypeOK'
    BY <1>0, <1>1 DEF TypeOK, Start
<1>2. ASSUME NEW p \in Processes, Stop(p) PROVE TypeOK'
    BY <1>0, <1>2 DEF TypeOK, Stop
<1>3. ASSUME NEW p \in Processes, Exit(p) PROVE TypeOK'
    <2>1. AllIdle \in [Broadcasters -> Job]
        BY IdleIsJob DEF AllIdle
    <2> QED
        BY <1>0, <1>3, <2>1 DEF TypeOK, Exit
<1>4. ASSUME NEW p \in Processes, Crash(p) PROVE TypeOK'
    <2>1. AllIdle \in [Broadcasters -> Job]
        BY IdleIsJob DEF AllIdle
    <2> QED
        BY <1>0, <1>4, <2>1 DEF TypeOK, Crash
<1>5. ASSUME NEW p \in Processes, Subscribe(p) \/ SubscribeFails(p) \/ LoseSubscription(p)
      PROVE  TypeOK'
    <2>1. CASE Subscribe(p)
        BY <1>0, <2>1 DEF TypeOK, Subscribe
    <2>2. CASE SubscribeFails(p)
        BY <1>0, <2>2 DEF TypeOK, SubscribeFails
    <2>3. CASE LoseSubscription(p)
        BY <1>0, <2>3 DEF TypeOK, LoseSubscription
    <2> QED
        BY <1>5, <2>1, <2>2, <2>3
<1>6. ASSUME NEW p \in Processes, RelayEnds(p) PROVE TypeOK'
    BY <1>0, <1>6 DEF TypeOK, RelayEnds
<1>7. ASSUME NEW p \in Processes, Relay(p) PROVE TypeOK'
    <2> DEFINE j == Broadcast(p, Head(inbox[p]), bus[Head(inbox[p])].channels)
    <2>1. /\ j \in Job /\ Continue(p, "relay", j) /\ Tail(inbox[p]) \in Seq(Nat)
          /\ inbox' = [inbox EXCEPT ![p] = Tail(@)]
        BY <1>7, NextMessage
    <2> HIDE DEF j
    <2>2. /\ job' \in [Processes -> [Broadcasters -> Job]]
          /\ subs' \in [Processes -> SUBSET (Channels \X Clients)]
        BY <1>0, <2>1, Continued DEF Broadcasters
    <2>3. inbox' \in [Processes -> Seq(Nat)]
        BY <1>0, <2>1 DEF TypeOK
    <2>4. UNCHANGED <<life, relay, busVars, clientVars, sent, faults>>
        BY <1>7 DEF Relay
    <2> QED
        BY <1>0, <2>2, <2>3, <2>4 DEF TypeOK
<1>8. ASSUME NEW p \in Processes, Heartbeat(p) PROVE TypeOK'
    <2> DEFINE j == Broadcast(p, 0, {})
    <2>1. j \in Job /\ Continue(p, "heartbeat", j)
        BY <1>0, <1>8, NextHeartbeat
    <2> HIDE DEF j
    <2>2. /\ job' \in [Processes -> [Broadcasters -> Job]]
          /\ subs' \in [Processes -> SUBSET (Channels \X Clients)]
        BY <1>0, <2>1, Continued DEF Broadcasters
    <2> QED
        BY <1>0, <1>8, <2>2 DEF TypeOK, Heartbeat
<1>9. ASSUME NEW p \in Processes, NEW b \in Broadcasters,
             SendReturns(p, b) \/ SendRaises(p, b)
      PROVE  TypeOK'
    <2>1. PICK k \in Job : Continue(p, b, k)
        BY <1>0, <1>9, NextSend
    <2>2. /\ job' \in [Processes -> [Broadcasters -> Job]]
          /\ subs' \in [Processes -> SUBSET (Channels \X Clients)]
        BY <1>0, <2>1, Continued
    <2>3. UNCHANGED <<processVars, busVars, clientVars, faults>>
        BY <1>0, <1>9, NextSend
    <2>4. sent' \in [Clients -> Seq(Nat)]
        <3>1. job[p][b] \in Job /\ job[p][b].current \in Clients /\ job[p][b].about \in Nat
            BY <1>0, <1>9, NextSend DEF Job
        <3>2. CASE SendReturns(p, b)
            BY <1>0, <3>1, <3>2 DEF TypeOK, SendReturns
        <3>3. CASE SendRaises(p, b)
            BY <1>0, <3>3 DEF TypeOK, SendRaises
        <3> QED
            BY <1>9, <3>2, <3>3
    <2> QED
        BY <1>0, <2>2, <2>3, <2>4 DEF TypeOK
<1>10. ASSUME NEW p \in Processes \cup {Worker}, NEW chs \in EventChannels, Raise(p, chs)
       PROVE  TypeOK'
    <2>1. chs \in SUBSET Warehouses /\ raised \in Nat
        BY <1>0, EventChannelsScoped DEF TypeOK
    <2>2. \A l \in Listeners(p) :
             [event |-> raised + 1, channels |-> chs, by |-> p, handler |-> l] \in Outgoing
        BY <2>1 DEF Outgoing, Listeners
    <2>3. outgoing' \subseteq Outgoing /\ raised' \in Nat
        BY <1>0, <1>10, <2>1, <2>2 DEF TypeOK, Raise
    <2> QED
        BY <1>0, <1>10, <2>3 DEF TypeOK, Raise
<1>11. ASSUME NEW o \in outgoing, Publish(o) PROVE TypeOK'
    <2>1. o \in Outgoing
        BY <1>0 DEF TypeOK
    <2>2. [event |-> o.event, channels |-> o.channels] \in [event : Nat, channels : SUBSET Warehouses]
        BY <2>1 DEF Outgoing
    <2>3. bus' \in Seq([event : Nat, channels : SUBSET Warehouses])
        BY <1>0, <1>11, <2>2 DEF TypeOK, Publish
    <2>4. inbox' \in [Processes -> Seq(Nat)]
        <3>1. Len(bus) + 1 \in Nat
            BY <1>0 DEF TypeOK
        <3> QED
            BY <1>0, <1>11, <3>1 DEF TypeOK, Publish
    <2> QED
        BY <1>0, <1>11, <2>3, <2>4 DEF TypeOK, Publish
<1>12. ASSUME NEW o \in outgoing, PublishFails(o) PROVE TypeOK'
    BY <1>0, <1>12 DEF TypeOK, PublishFails
<1>13. ASSUME NEW c \in Clients, NEW p \in Processes, NEW ch \in Channels, Accept(c, p, ch)
       PROVE  TypeOK'
    BY <1>0, <1>13 DEF TypeOK, Accept
<1>14. ASSUME NEW c \in Clients, AcceptRaises(c) PROVE TypeOK'
    BY <1>0, <1>14 DEF TypeOK, AcceptRaises
<1>15. ASSUME NEW c \in Clients, Register(c) PROVE TypeOK'
    <2>1. channel[c] \in Channels /\ home[c] \in Processes
        BY <1>15 DEF IndInv, Connections, Register
    <2> QED
        BY <1>0, <1>15, <2>1 DEF TypeOK, Register
<1>16. ASSUME NEW c \in Clients, Disconnect(c) PROVE TypeOK'
    BY <1>0, <1>16 DEF TypeOK, Disconnect
<1>17. ASSUME NEW c \in Clients, Drop(c) PROVE TypeOK'
    BY <1>0, <1>17 DEF TypeOK, Drop
<1>18. CASE UNCHANGED vars
    BY <1>0, <1>18 DEF TypeOK, vars
<1> QED
    BY <1>1, <1>2, <1>3, <1>4, <1>5, <1>6, <1>7, <1>8, <1>9, <1>10, <1>11, <1>12, <1>13,
       <1>14, <1>15, <1>16, <1>17, <1>18 DEF Next, Leave, BadFrame

-----------------------------------------------------------------------------
(* One step of a broadcast, whoever runs it. *)

Advances(p, b) ==
    \/ b = "relay" /\ Relay(p)
    \/ b = "heartbeat" /\ Heartbeat(p)
    \/ SendReturns(p, b) \/ SendRaises(p, b)

\* Whom it still aims at are connections of its own process and channels.
Aimed(p, k) ==
    /\ \A c \in k.targets \cup k.stale :
          home[c] = p /\ channel[c] \in k.channels /\ endpoint[c] # "new"
    /\ \A c \in k.stale : endpoint[c] = "gone" \/ link[c] = "down"

LEMMA TargetsAimed ==
    ASSUME IndInv, NEW p \in Processes, NEW j \in Job, j.stale = {},
           \A c \in j.targets : \E ch \in j.channels : <<ch, c>> \in subs[p]
    PROVE  Aimed(p, j)
<1> SUFFICES ASSUME NEW c \in j.targets
             PROVE  home[c] = p /\ channel[c] \in j.channels /\ endpoint[c] # "new"
    BY DEF Aimed
<1>1. PICK ch \in j.channels : <<ch, c>> \in subs[p]
    OBVIOUS
<1>2. LET s == <<ch, c>> IN home[s[2]] = p /\ channel[s[2]] = s[1] /\ endpoint[s[2]] = "open"
    BY <1>1 DEF IndInv, RegistryExact
<1> QED
    BY <1>2

LEMMA Advance ==
    ASSUME IndInv, NEW p \in Processes, NEW b \in Broadcasters, Advances(p, b)
    PROVE  /\ life[p] # "down" /\ UNCHANGED <<life, relay, clientVars, busVars, faults>>
           /\ \E k \in Job : Continue(p, b, k) /\ Aimed(p, k)
<1>0. TypeOK
    BY DEF IndInv
<1>1. CASE b = "relay" /\ Relay(p)
    <2>1. PICK j \in Job :
              /\ Continue(p, "relay", j) /\ j.stale = {}
              /\ \A c \in j.targets : \E ch \in j.channels : <<ch, c>> \in subs[p]
        BY <1>1, NextMessage
    <2>2. Aimed(p, j)
        BY <2>1, TargetsAimed
    <2>3. life[p] # "down" /\ UNCHANGED <<life, relay, clientVars, busVars, faults>>
        BY <1>1 DEF Relay, IndInv, Lives
    <2> QED
        BY <1>1, <2>1, <2>2, <2>3
<1>2. CASE b = "heartbeat" /\ Heartbeat(p)
    <2>1. PICK j \in Job :
              /\ Continue(p, "heartbeat", j) /\ j.stale = {}
              /\ \A c \in j.targets : \E ch \in j.channels : <<ch, c>> \in subs[p]
        BY <1>0, <1>2, NextHeartbeat
    <2>2. Aimed(p, j)
        BY <2>1, TargetsAimed
    <2>3. life[p] # "down" /\ UNCHANGED <<life, relay, clientVars, busVars, faults>>
        BY <1>2 DEF Heartbeat, processVars
    <2> QED
        BY <1>2, <2>1, <2>2, <2>3
<1>3. CASE SendReturns(p, b) \/ SendRaises(p, b)
    <2> DEFINE j == job[p][b]
    <2>1. /\ j \in Job /\ j.current \in Clients
          /\ UNCHANGED <<processVars, busVars, clientVars, faults>>
        BY <1>0, <1>3, NextSend
    <2>2. PICK k \in Job :
              /\ Continue(p, b, k) /\ k.channels = j.channels /\ k.targets = j.targets
              /\ \/ k.stale = j.stale
                 \/ /\ k.stale = j.stale \cup {j.current}
                    /\ endpoint[j.current] = "gone" \/ link[j.current] = "down"
        BY <1>0, <1>3, NextSend
    <2>3. /\ \A c \in Aims(j) : home[c] = p /\ channel[c] \in j.channels /\ endpoint[c] # "new"
          /\ \A c \in j.stale : endpoint[c] = "gone" \/ link[c] = "down"
        BY DEF IndInv, Jobs
    <2>4. life[p] # "down"
        BY <1>3 DEF IndInv, NoMemory, SendReturns, SendRaises
    <2> HIDE DEF j
    <2>5. Aimed(p, k)
        BY <2>1, <2>2, <2>3 DEF Aimed, Aims
    <2> QED
        BY <2>1, <2>2, <2>4, <2>5 DEF processVars
<1> QED
    BY <1>1, <1>2, <1>3 DEF Advances

\* ... and it leaves the jobs, the registry and who is down as they should be.
LEMMA AdvanceKeeps ==
    ASSUME IndInv, NEW p \in Processes, NEW b \in Broadcasters, Advances(p, b)
    PROVE  Jobs' /\ RegistryExact' /\ \A q \in Processes : life[q] = "down" =>
               subs'[q] = subs[q] /\ job'[q] = job[q]
<1>0. TypeOK
    BY DEF IndInv
<1>1. life[p] # "down" /\ UNCHANGED <<life, endpoint, home, channel, link>>
    BY Advance DEF clientVars
<1>2. PICK k \in Job : Continue(p, b, k) /\ Aimed(p, k)
    BY Advance
<1>3. /\ job' \in [Processes -> [Broadcasters -> Job]]
      /\ subs' \in [Processes -> SUBSET (Channels \X Clients)]
      /\ \A q \in Processes, d \in Broadcasters : q # p \/ d # b => job'[q][d] = job[q][d]
      /\ \A q \in Processes : q # p => subs'[q] = subs[q]
    BY <1>0, <1>2, Continued
<1>4. \/ /\ job'[p][b].current \in k.targets
         /\ job'[p][b].targets = k.targets \ {job'[p][b].current}
         /\ job'[p][b].channels = k.channels
         /\ job'[p][b].stale = k.stale
         /\ subs' = subs
      \/ /\ job'[p][b] = Idle
         /\ subs'[p] = subs[p] \ (k.channels \X k.stale)
    BY <1>0, <1>2, Continued
<1>5. Jobs'
    <2> SUFFICES ASSUME NEW q \in Processes, NEW d \in Broadcasters
                 PROVE  /\ \A c \in Aims(job'[q][d]) :
                              /\ home[c] = q /\ channel[c] \in job'[q][d].channels
                              /\ endpoint[c] # "new"
                        /\ \A c \in job'[q][d].stale : endpoint[c] = "gone" \/ link[c] = "down"
                        /\ job'[q][d].current \notin job'[q][d].targets
                        /\ job'[q][d].current = NoClient => job'[q][d] = Idle
        BY <1>1 DEF Jobs, Aims
    <2>1. CASE q # p \/ d # b
        BY <1>3, <2>1 DEF IndInv, Jobs
    <2>2. CASE q = p /\ d = b
        <3>1. CASE job'[p][b] = Idle
            BY <2>2, <3>1, ClientsAssumption DEF Aims, Idle
        <3>2. CASE /\ job'[p][b].current \in k.targets
                   /\ job'[p][b].targets = k.targets \ {job'[p][b].current}
                   /\ job'[p][b].channels = k.channels
                   /\ job'[p][b].stale = k.stale
            <4>1. k.targets \subseteq Clients
                BY DEF Job
            <4> QED
                BY <1>2, <2>2, <3>2, <4>1, ClientsAssumption DEF Aims, Aimed
        <3> QED
            BY <1>4, <3>1, <3>2
    <2> QED
        BY <2>1, <2>2
<1>6. RegistryExact'
    <2>1. \A q \in Processes : subs'[q] \subseteq subs[q]
        BY <1>3, <1>4
    <2>2. \A c \in Clients : endpoint[c] = "open" /\ link[c] = "up" =>
              <<channel[c], c>> \in subs'[home[c]]
        <3> SUFFICES ASSUME NEW c \in Clients, endpoint[c] = "open", link[c] = "up"
                     PROVE  <<channel[c], c>> \in subs'[home[c]]
            OBVIOUS
        <3>1. <<channel[c], c>> \in subs[home[c]] /\ home[c] \in Processes
            BY DEF IndInv, RegistryExact, Connections
        <3>2. c \notin k.stale
            BY <1>2 DEF Aimed
        <3> QED
            BY <1>3, <1>4, <3>1, <3>2
    <2>3. \A q \in Processes : \A s \in subs'[q] :
              home[s[2]] = q /\ channel[s[2]] = s[1] /\ endpoint[s[2]] = "open"
        BY <2>1 DEF IndInv, RegistryExact
    <2> QED
        BY <1>1, <2>2, <2>3 DEF RegistryExact
<1>7. \A q \in Processes : life[q] = "down" => subs'[q] = subs[q] /\ job'[q] = job[q]
    <2> SUFFICES ASSUME NEW q \in Processes, life[q] = "down"
                 PROVE  subs'[q] = subs[q] /\ job'[q] = job[q]
        OBVIOUS
    <2>1. q # p
        BY <1>1
    <2>2. job'[q] \in [Broadcasters -> Job] /\ job[q] \in [Broadcasters -> Job]
        BY <1>0, <1>3 DEF TypeOK
    <2> QED
        BY <1>3, <2>1, <2>2
<1> QED
    BY <1>5, <1>6, <1>7

-----------------------------------------------------------------------------
(* The steps there are. *)

Subscribes(p) == Subscribe(p) \/ SubscribeFails(p) \/ LoseSubscription(p)

LEMMA Steps ==
    ASSUME [Next]_vars
    PROVE  \/ \E p \in Processes, b \in Broadcasters : Advances(p, b)
           \/ \E p \in Processes :
                 Start(p) \/ Stop(p) \/ Exit(p) \/ Crash(p) \/ Subscribes(p) \/ RelayEnds(p)
           \/ \E p \in Processes \cup {Worker}, chs \in EventChannels : Raise(p, chs)
           \/ \E o \in outgoing : Publish(o) \/ PublishFails(o)
           \/ \E c \in Clients, p \in Processes, ch \in Channels : Accept(c, p, ch)
           \/ \E c \in Clients : AcceptRaises(c) \/ Register(c) \/ Disconnect(c) \/ Drop(c)
           \/ UNCHANGED vars
    BY DEF Next, Advances, Subscribes, Leave, BadFrame, Broadcasters

\* Messages reach connections that are open.
LEMMA SentGrows ==
    ASSUME IndInv, NEW p \in Processes, NEW b \in Broadcasters, Advances(p, b)
    PROVE  \/ sent' = sent
           \/ /\ b = "relay" /\ SendReturns(p, b)
              /\ job[p][b].current \in Clients /\ job[p][b].about \in Nat
              /\ endpoint[job[p][b].current] = "open"
              /\ sent' = [sent EXCEPT ![job[p][b].current] = Append(@, job[p][b].about)]
<1>0. TypeOK
    BY DEF IndInv
<1>1. CASE SendReturns(p, b)
    <2>1. job[p][b] \in Job /\ job[p][b].current \in Clients
        BY <1>0, <1>1, NextSend
    <2>2. job[p][b].about \in Nat
        BY <2>1 DEF Job
    <2>3. b = "relay" \/ b # "relay"
        OBVIOUS
    <2> QED
        BY <1>1, <2>1, <2>2, <2>3 DEF SendReturns
<1>2. CASE ~SendReturns(p, b)
    BY <1>2 DEF Advances, Relay, Heartbeat, SendRaises
<1> QED
    BY <1>1, <1>2

LEMMA ConnectionsKept ==
    ASSUME IndInv, [Next]_vars
    PROVE  Connections'
<1> USE DEF clientVars
<1>0. TypeOK /\ Connections
    BY DEF IndInv
<1>1. ASSUME NEW p \in Processes, NEW b \in Broadcasters, Advances(p, b)
      PROVE  Connections'
    <2>1. UNCHANGED <<endpoint, home, channel>>
        BY <1>1, Advance
    <2>2. sent \in [Clients -> Seq(Nat)]
        BY <1>0 DEF TypeOK
    <2>3. \/ sent' = sent
          \/ \E d \in Clients, i \in Nat : /\ endpoint[d] = "open"
                                        /\ sent' = [sent EXCEPT ![d] = Append(@, i)]
        BY <1>1, SentGrows
    <2>4. \A c \in Clients : endpoint[c] = "new" => sent'[c] = sent[c]
        BY <2>2, <2>3
    <2> QED
        BY <1>0, <2>1, <2>4 DEF Connections
<1>2. ASSUME NEW p \in Processes,
             Start(p) \/ Stop(p) \/ Exit(p) \/ Subscribes(p) \/ RelayEnds(p)
      PROVE  Connections'
    <2>1. UNCHANGED <<endpoint, home, channel, sent>>
        BY <1>2 DEF Start, Stop, Exit, Subscribes, Subscribe, SubscribeFails,
                    LoseSubscription, RelayEnds
    <2> QED
        BY <1>0, <2>1 DEF Connections
<1>3. ASSUME NEW p \in Processes, Crash(p) PROVE Connections'
    BY <1>0, <1>3, ProcessesAssumption DEF Connections, Crash, TypeOK
<1>4. ASSUME NEW p \in Processes \cup {Worker}, NEW chs \in EventChannels, Raise(p, chs)
      PROVE  Connections'
    BY <1>0, <1>4 DEF Connections, Raise
<1>5. ASSUME NEW o \in outgoing, Publish(o) \/ PublishFails(o) PROVE Connections'
    BY <1>0, <1>5 DEF Connections, Publish, PublishFails
<1>6. ASSUME NEW c \in Clients, NEW p \in Processes, NEW ch \in Channels, Accept(c, p, ch)
      PROVE  Connections'
    BY <1>0, <1>6 DEF Connections, Accept, TypeOK
<1>7. ASSUME NEW c \in Clients, AcceptRaises(c) \/ Register(c) \/ Disconnect(c) \/ Drop(c)
      PROVE  Connections'
    <2>1. /\ UNCHANGED <<home, channel, sent>>
          /\ \A d \in Clients : \/ endpoint'[d] = endpoint[d]
                                  \/ (endpoint[d] # "new" /\ endpoint'[d] # "new")
        BY <1>0, <1>7 DEF AcceptRaises, Register, Disconnect, Drop, TypeOK
    <2> QED
        BY <1>0, <2>1 DEF Connections
<1>8. CASE UNCHANGED vars
    BY <1>0, <1>8 DEF Connections, vars
<1> QED
    BY <1>1, <1>2, <1>3, <1>4, <1>5, <1>6, <1>7, <1>8, Steps

LEMMA LivesKept ==
    ASSUME IndInv, [Next]_vars
    PROVE  Lives'
<1> USE DEF clientVars, processVars
<1>0. TypeOK /\ Lives /\ Connections
    BY DEF IndInv
<1>1. ASSUME NEW p \in Processes, NEW b \in Broadcasters, Advances(p, b)
      PROVE  Lives'
    BY <1>0, <1>1, Advance DEF Lives
<1>2. ASSUME NEW p \in Processes, Start(p) \/ Stop(p) PROVE Lives'
    <2>1. /\ UNCHANGED <<endpoint, home>> /\ life'[p] # "down"
          /\ \A q \in Processes : q # p => life'[q] = life[q] /\ relay'[q] = relay[q]
        BY <1>0, <1>2 DEF Start, Stop, TypeOK
    <2> QED
        BY <1>0, <2>1 DEF Lives, Connections
<1>3. ASSUME NEW p \in Processes, Exit(p) PROVE Lives'
    <2>1. /\ UNCHANGED <<endpoint, home>> /\ relay'[p] = "none"
          /\ \A q \in Processes : q # p => life'[q] = life[q] /\ relay'[q] = relay[q]
          /\ \A c \in Clients : home[c] = p => endpoint[c] = "gone"
        BY <1>0, <1>3 DEF Exit, TypeOK
    <2> QED
        BY <1>0, <2>1 DEF Lives, Connections
<1>4. ASSUME NEW p \in Processes, Crash(p) PROVE Lives'
    <2>1. /\ UNCHANGED home /\ relay'[p] = "none"
          /\ \A q \in Processes : q # p => life'[q] = life[q] /\ relay'[q] = relay[q]
          /\ \A c \in Clients : endpoint'[c] = IF home[c] = p THEN "gone" ELSE endpoint[c]
        BY <1>0, <1>4 DEF Crash, TypeOK
    <2> QED
        BY <1>0, <2>1 DEF Lives, Connections
<1>5. ASSUME NEW p \in Processes, Subscribes(p) \/ RelayEnds(p) PROVE Lives'
    <2>1. /\ UNCHANGED <<life, endpoint, home>>
          /\ relay[p] # "none" /\ \A q \in Processes : q # p => relay'[q] = relay[q]
        BY <1>0, <1>5 DEF Subscribes, Subscribe, SubscribeFails, LoseSubscription,
                          RelayEnds, TypeOK
    <2> QED
        BY <1>0, <2>1 DEF Lives
<1>6. ASSUME NEW p \in Processes \cup {Worker}, NEW chs \in EventChannels, Raise(p, chs)
      PROVE  Lives'
    BY <1>0, <1>6 DEF Lives, Raise
<1>7. ASSUME NEW o \in outgoing, Publish(o) \/ PublishFails(o) PROVE Lives'
    BY <1>0, <1>7 DEF Lives, Publish, PublishFails
<1>8. ASSUME NEW c \in Clients, NEW p \in Processes, NEW ch \in Channels, Accept(c, p, ch)
      PROVE  Lives'
    BY <1>0, <1>8 DEF Lives, Accept, TypeOK
<1>9. ASSUME NEW c \in Clients, AcceptRaises(c) \/ Register(c) \/ Disconnect(c) \/ Drop(c)
      PROVE  Lives'
    <2>1. /\ UNCHANGED <<life, relay, home>>
          /\ \A d \in Clients : endpoint'[d] \in {"accepted", "open"}
                => endpoint[d] \in {"accepted", "open"}
        BY <1>0, <1>9 DEF AcceptRaises, Register, Disconnect, Drop, TypeOK
    <2> QED
        BY <1>0, <2>1 DEF Lives
<1>10. CASE UNCHANGED vars
    BY <1>0, <1>10 DEF Lives, vars
<1> QED
    BY <1>1, <1>2, <1>3, <1>4, <1>5, <1>6, <1>7, <1>8, <1>9, <1>10, Steps

\* The registry: who is connected where.
LEMMA RegistryKept ==
    ASSUME IndInv, [Next]_vars
    PROVE  RegistryExact'
<1> USE DEF clientVars
<1>0. TypeOK /\ Connections /\ RegistryExact
    BY DEF IndInv
<1>1. ASSUME NEW p \in Processes, NEW b \in Broadcasters, Advances(p, b)
      PROVE  RegistryExact'
    BY <1>1, AdvanceKeeps
<1>2. ASSUME NEW p \in Processes, Start(p) \/ Exit(p) \/ Subscribes(p) \/ RelayEnds(p)
      PROVE  RegistryExact'
    <2>1. UNCHANGED <<endpoint, home, channel, link, subs>>
        BY <1>2 DEF Start, Exit, Subscribes, Subscribe, SubscribeFails, LoseSubscription,
                    RelayEnds
    <2> QED
        BY <1>0, <2>1 DEF RegistryExact
<1>3. ASSUME NEW p \in Processes, Stop(p) PROVE RegistryExact'
    <2>1. /\ UNCHANGED <<endpoint, home, channel, subs>>
          /\ \A c \in Clients : link'[c] = "up" => link[c] = "up"
        BY <1>3 DEF Stop
    <2> QED
        BY <1>0, <2>1 DEF RegistryExact
<1>4. ASSUME NEW p \in Processes, Crash(p) PROVE RegistryExact'
    <2>1. /\ UNCHANGED <<home, channel>>
          /\ \A q \in Processes : subs'[q] = IF q = p THEN {} ELSE subs[q]
          /\ \A c \in Clients : endpoint'[c] = IF home[c] = p THEN "gone" ELSE endpoint[c]
          /\ \A c \in Clients : link'[c] = "up" => link[c] = "up"
        BY <1>0, <1>4 DEF Crash, TypeOK
    <2>2. \A q \in Processes, s \in Channels \X Clients : s \in subs'[q] =>
              /\ home'[s[2]] = q /\ channel'[s[2]] = s[1] /\ endpoint'[s[2]] = "open"
        BY <1>0, <2>1 DEF RegistryExact
    <2>3. \A q \in Processes : subs'[q] \subseteq Channels \X Clients
        BY <1>0, <2>1 DEF TypeOK
    <2>4. \A c \in Clients : endpoint'[c] = "open" /\ link'[c] = "up" =>
              <<channel'[c], c>> \in subs'[home'[c]]
        BY <1>0, <2>1 DEF RegistryExact, Connections
    <2> QED
        BY <2>2, <2>3, <2>4 DEF RegistryExact
<1>5. ASSUME NEW p \in Processes \cup {Worker}, NEW chs \in EventChannels, Raise(p, chs)
      PROVE  RegistryExact'
    BY <1>0, <1>5 DEF RegistryExact, Raise
<1>6. ASSUME NEW o \in outgoing, Publish(o) \/ PublishFails(o) PROVE RegistryExact'
    BY <1>0, <1>6 DEF RegistryExact, Publish, PublishFails
<1>7. ASSUME NEW c \in Clients, NEW p \in Processes, NEW ch \in Channels, Accept(c, p, ch)
      PROVE  RegistryExact'
    <2>1. /\ UNCHANGED <<subs, link>>
          /\ endpoint[c] = "new" /\ endpoint'[c] = "accepted"
          /\ \A d \in Clients : d # c => /\ endpoint'[d] = endpoint[d]
                                         /\ home'[d] = home[d] /\ channel'[d] = channel[d]
        BY <1>0, <1>7 DEF Accept, TypeOK
    <2>2. \A q \in Processes, s \in Channels \X Clients : s \in subs'[q] =>
              /\ home'[s[2]] = q /\ channel'[s[2]] = s[1] /\ endpoint'[s[2]] = "open"
        BY <1>0, <2>1 DEF RegistryExact
    <2>3. \A q \in Processes : subs'[q] \subseteq Channels \X Clients
        BY <1>0, <2>1 DEF TypeOK
    <2>4. \A d \in Clients : endpoint'[d] = "open" /\ link'[d] = "up" =>
              <<channel'[d], d>> \in subs'[home'[d]]
        BY <1>0, <2>1 DEF RegistryExact
    <2> QED
        BY <2>2, <2>3, <2>4 DEF RegistryExact
<1>8. ASSUME NEW c \in Clients, AcceptRaises(c) \/ Drop(c) PROVE RegistryExact'
    <2>1. /\ UNCHANGED <<home, channel, subs>>
          /\ \A d \in Clients : \/ endpoint'[d] = endpoint[d]
                                  \/ (endpoint[d] = "accepted" /\ endpoint'[d] = "gone")
          /\ \A d \in Clients : link'[d] = "up" => link[d] = "up"
        BY <1>0, <1>8 DEF AcceptRaises, Drop, TypeOK
    <2>2. \A q \in Processes, s \in Channels \X Clients : s \in subs'[q] =>
              /\ home'[s[2]] = q /\ channel'[s[2]] = s[1] /\ endpoint'[s[2]] = "open"
        BY <1>0, <2>1 DEF RegistryExact
    <2>3. \A q \in Processes : subs'[q] \subseteq Channels \X Clients
        BY <1>0, <2>1 DEF TypeOK
    <2>4. \A d \in Clients : endpoint'[d] = "open" /\ link'[d] = "up" =>
              <<channel'[d], d>> \in subs'[home'[d]]
        BY <1>0, <2>1 DEF RegistryExact
    <2> QED
        BY <2>2, <2>3, <2>4 DEF RegistryExact
<1>9. ASSUME NEW c \in Clients, Register(c) \/ Disconnect(c) PROVE RegistryExact'
    <2>1. home[c] \in Processes /\ channel[c] \in Channels
        BY <1>0, <1>9 DEF Register, Disconnect, Connections
    <2>2. /\ UNCHANGED <<home, channel>>
          /\ \A d \in Clients : d # c => endpoint'[d] = endpoint[d] /\ link'[d] = link[d]
          /\ \A q \in Processes : q # home[c] => subs'[q] = subs[q]
        BY <1>0, <1>9 DEF Register, Disconnect, TypeOK
    <2>3. \/ /\ endpoint'[c] = "open"
             /\ subs'[home[c]] = subs[home[c]] \cup {<<channel[c], c>>}
          \/ /\ endpoint'[c] = "gone"
             /\ subs'[home[c]] = subs[home[c]] \ {<<channel[c], c>>}
        BY <1>0, <1>9, <2>1 DEF Register, Disconnect, TypeOK
    <2>4. \A q \in Processes, s \in Channels \X Clients : s \in subs'[q] =>
              /\ home'[s[2]] = q /\ channel'[s[2]] = s[1] /\ endpoint'[s[2]] = "open"
        <3> SUFFICES ASSUME NEW q \in Processes, NEW ch \in Channels, NEW d \in Clients,
                            <<ch, d>> \in subs'[q]
                     PROVE  home[d] = q /\ channel[d] = ch /\ endpoint'[d] = "open"
            BY <2>2
        <3>1. <<ch, d>> \in subs[q] =>
                  home[d] = q /\ channel[d] = ch /\ endpoint[d] = "open"
            <4> SUFFICES ASSUME <<ch, d>> \in subs[q]
                         PROVE  home[d] = q /\ channel[d] = ch /\ endpoint[d] = "open"
                OBVIOUS
            <4>1. LET s == <<ch, d>>
                  IN  home[s[2]] = q /\ channel[s[2]] = s[1] /\ endpoint[s[2]] = "open"
                BY <1>0 DEF RegistryExact
            <4> QED
                BY <4>1
        <3> QED
            BY <2>1, <2>2, <2>3, <3>1
    <2>5. \A q \in Processes : subs'[q] \subseteq Channels \X Clients
        <3>1. /\ \A q \in Processes : subs[q] \subseteq Channels \X Clients
              /\ <<channel[c], c>> \in Channels \X Clients
            BY <1>0, <2>1 DEF TypeOK
        <3> QED
            BY <2>1, <2>2, <2>3, <3>1
    <2>6. \A d \in Clients : endpoint'[d] = "open" /\ link'[d] = "up" =>
              <<channel'[d], d>> \in subs'[home'[d]]
        <3> SUFFICES ASSUME NEW d \in Clients, endpoint'[d] = "open", link'[d] = "up"
                     PROVE  <<channel[d], d>> \in subs'[home[d]]
            BY <2>2
        <3>1. CASE d = c
            BY <2>1, <2>3, <3>1
        <3>2. CASE d # c
            <4>1. <<channel[d], d>> \in subs[home[d]] /\ home[d] \in Processes
                BY <1>0, <2>2, <3>2 DEF RegistryExact, Connections
            <4>2. <<channel[d], d>> # <<channel[c], c>>
                BY <3>2
            <4> QED
                BY <2>2, <2>3, <4>1, <4>2
        <3> QED
            BY <3>1, <3>2
    <2> QED
        BY <2>4, <2>5, <2>6 DEF RegistryExact
<1>10. CASE UNCHANGED vars
    BY <1>0, <1>10 DEF RegistryExact, vars
<1> QED
    BY <1>1, <1>2, <1>3, <1>4, <1>5, <1>6, <1>7, <1>8, <1>9, <1>10, Steps

\* A process that is down.
LEMMA CleanKept ==
    ASSUME IndInv, [Next]_vars
    PROVE  NoMemory'
<1> USE DEF clientVars, processVars
<1>0. TypeOK /\ Lives /\ Connections /\ RegistryExact /\ NoMemory
    BY DEF IndInv
<1>1. ASSUME NEW p \in Processes, NEW b \in Broadcasters, Advances(p, b)
      PROVE  NoMemory'
    <2>1. /\ UNCHANGED <<life, relay>> /\ life[p] # "down"
          /\ \A q \in Processes : life[q] = "down" => subs'[q] = subs[q] /\ job'[q] = job[q]
        BY <1>1, Advance, AdvanceKeeps
    <2>2. \A q \in Processes : q # p => inbox'[q] = inbox[q]
        BY <1>0, <1>1 DEF Advances, Relay, Heartbeat, SendReturns, SendRaises, TypeOK
    <2> QED
        BY <1>0, <2>1, <2>2 DEF NoMemory, Busy
<1>2. ASSUME NEW p \in Processes, Start(p) \/ Stop(p) PROVE NoMemory'
    <2>1. /\ UNCHANGED <<inbox, subs, job>>
          /\ \A q \in Processes : life'[q] = "down" => life[q] = "down"
        BY <1>0, <1>2 DEF Start, Stop, TypeOK
    <2> QED
        BY <1>0, <2>1 DEF NoMemory, Busy
<1>3. ASSUME NEW p \in Processes, Exit(p) \/ Crash(p) PROVE NoMemory'
    <2>1. \A q \in Processes : q # p =>
              life'[q] = life[q] /\ inbox'[q] = inbox[q] /\ subs'[q] = subs[q] /\ job'[q] = job[q]
        BY <1>0, <1>3 DEF Exit, Crash, TypeOK
    <2>2. inbox'[p] = <<>> /\ job'[p] = AllIdle
        BY <1>0, <1>3 DEF Exit, Crash, TypeOK
    <2>3. \A b \in Broadcasters : ~Busy(p, b)'
        BY <2>2 DEF AllIdle, Idle, Busy
    <2>4. subs'[p] = {}
        <3>1. CASE Exit(p)
            <4>1. \A s \in subs[p] : s[2] \in Clients /\ home[s[2]] = p /\ endpoint[s[2]] = "open"
                BY <1>0 DEF RegistryExact, TypeOK
            <4> QED
                BY <3>1, <4>1 DEF Exit
        <3>2. CASE Crash(p)
            BY <1>0, <3>2 DEF Crash, TypeOK
        <3> QED
            BY <1>3, <3>1, <3>2
    <2> QED
        BY <1>0, <2>1, <2>2, <2>3, <2>4 DEF NoMemory, Busy
<1>4. ASSUME NEW p \in Processes, Subscribes(p) \/ RelayEnds(p) PROVE NoMemory'
    <2>1. /\ UNCHANGED <<life, subs, job>>
          /\ \A q \in Processes : inbox'[q] = inbox[q] \/ inbox'[q] = <<>>
        BY <1>0, <1>4 DEF Subscribes, Subscribe, SubscribeFails, LoseSubscription,
                          RelayEnds, TypeOK
    <2> QED
        BY <1>0, <2>1 DEF NoMemory, Busy
<1>5. ASSUME NEW p \in Processes \cup {Worker}, NEW chs \in EventChannels, Raise(p, chs)
      PROVE  NoMemory'
    BY <1>0, <1>5 DEF NoMemory, Busy, Raise
<1>6. ASSUME NEW o \in outgoing, Publish(o) \/ PublishFails(o) PROVE NoMemory'
    <2>1. /\ UNCHANGED <<life, subs, job>>
          /\ \A q \in Processes : relay[q] = "none" => inbox'[q] = inbox[q]
        BY <1>0, <1>6 DEF Publish, PublishFails, TypeOK
    <2> QED
        BY <1>0, <2>1 DEF NoMemory, Busy, Lives
<1>7. ASSUME NEW c \in Clients, NEW p \in Processes, NEW ch \in Channels, Accept(c, p, ch)
      PROVE  NoMemory'
    BY <1>0, <1>7 DEF NoMemory, Busy, Accept
<1>8. ASSUME NEW c \in Clients, AcceptRaises(c) \/ Drop(c) PROVE NoMemory'
    BY <1>0, <1>8 DEF NoMemory, Busy, AcceptRaises, Drop
<1>9. ASSUME NEW c \in Clients, Register(c) \/ Disconnect(c) PROVE NoMemory'
    <2>1. endpoint[c] \in {"accepted", "open"} /\ life[home[c]] # "down"
        BY <1>0, <1>9 DEF Register, Disconnect, Lives
    <2>2. /\ UNCHANGED <<life, inbox, job>>
          /\ \A q \in Processes : q # home[c] => subs'[q] = subs[q]
        BY <1>0, <1>9 DEF Register, Disconnect, TypeOK
    <2> QED
        BY <1>0, <2>1, <2>2 DEF NoMemory, Busy
<1>10. CASE UNCHANGED vars
    BY <1>0, <1>10 DEF NoMemory, Busy, vars
<1> QED
    BY <1>1, <1>2, <1>3, <1>4, <1>5, <1>6, <1>7, <1>8, <1>9, <1>10, Steps

LEMMA JobsKept ==
    ASSUME IndInv, [Next]_vars
    PROVE  Jobs'
<1> USE DEF clientVars
<1>0. TypeOK /\ Connections /\ Jobs
    BY DEF IndInv
<1>1. ASSUME NEW p \in Processes, NEW b \in Broadcasters, Advances(p, b)
      PROVE  Jobs'
    BY <1>1, AdvanceKeeps
<1>2. ASSUME NEW p \in Processes, Start(p) \/ Subscribes(p) \/ RelayEnds(p) PROVE Jobs'
    <2>1. UNCHANGED <<endpoint, home, channel, link, job>>
        BY <1>2 DEF Start, Subscribes, Subscribe, SubscribeFails, LoseSubscription, RelayEnds
    <2> QED
        BY <1>0, <2>1 DEF Jobs, Aims
<1>3. ASSUME NEW p \in Processes, Stop(p) \/ Exit(p) \/ Crash(p) PROVE Jobs'
    <2>1. /\ UNCHANGED <<home, channel>>
          /\ \A c \in Clients : /\ endpoint[c] # "new" => endpoint'[c] # "new"
                                /\ endpoint[c] = "gone" => endpoint'[c] = "gone"
                                /\ link[c] = "down" => link'[c] = "down"
          /\ \A q \in Processes : job'[q] = job[q] \/ job'[q] = AllIdle
        BY <1>0, <1>3 DEF Stop, Exit, Crash, TypeOK
    <2> SUFFICES ASSUME NEW q \in Processes, NEW d \in Broadcasters
                 PROVE  /\ \A c \in Aims(job'[q][d]) :
                              /\ home[c] = q /\ channel[c] \in job'[q][d].channels
                              /\ endpoint'[c] # "new"
                        /\ \A c \in job'[q][d].stale : endpoint'[c] = "gone" \/ link'[c] = "down"
                        /\ job'[q][d].current \notin job'[q][d].targets
                        /\ job'[q][d].current = NoClient => job'[q][d] = Idle
        BY <2>1 DEF Jobs, Aims
    <2>2. CASE job'[q] = job[q]
        <3>1. job[q][d] \in Job
            BY <1>0 DEF TypeOK
        <3>2. Aims(job[q][d]) \subseteq Clients /\ job[q][d].stale \subseteq Clients
            BY <3>1 DEF Job, Aims
        <3> QED
            BY <1>0, <2>1, <2>2, <3>2 DEF Jobs
    <2>3. CASE job'[q] = AllIdle
        BY <2>3, ClientsAssumption DEF AllIdle, Idle, Aims
    <2> QED
        BY <2>1, <2>2, <2>3
<1>4. ASSUME NEW p \in Processes \cup {Worker}, NEW chs \in EventChannels, Raise(p, chs)
      PROVE  Jobs'
    BY <1>0, <1>4 DEF Jobs, Aims, Raise
<1>5. ASSUME NEW o \in outgoing, Publish(o) \/ PublishFails(o) PROVE Jobs'
    BY <1>0, <1>5 DEF Jobs, Aims, Publish, PublishFails
<1>6. ASSUME NEW c \in Clients, NEW p \in Processes, NEW ch \in Channels, Accept(c, p, ch)
      PROVE  Jobs'
    <2>1. /\ UNCHANGED <<job, link>> /\ endpoint[c] = "new"
          /\ \A d \in Clients : d # c => /\ endpoint'[d] = endpoint[d]
                                         /\ home'[d] = home[d] /\ channel'[d] = channel[d]
        BY <1>0, <1>6 DEF Accept, TypeOK
    <2>2. \A q \in Processes, b \in Broadcasters :
              Aims(job[q][b]) \subseteq Clients /\ job[q][b].stale \subseteq Aims(job[q][b])
        BY <1>0 DEF TypeOK, Job, Aims
    <2>3. \A q \in Processes, b \in Broadcasters : c \notin Aims(job[q][b])
        BY <1>0, <2>1 DEF Jobs
    <2> SUFFICES ASSUME NEW q \in Processes, NEW b \in Broadcasters
                 PROVE  /\ \A d \in Aims(job[q][b]) :
                              /\ home'[d] = q /\ channel'[d] \in job[q][b].channels
                              /\ endpoint'[d] # "new"
                        /\ \A d \in job[q][b].stale : endpoint'[d] = "gone" \/ link[d] = "down"
                        /\ job[q][b].current \notin job[q][b].targets
                        /\ job[q][b].current = NoClient => job[q][b] = Idle
        BY <2>1 DEF Jobs, Aims
    <2> QED
        BY <1>0, <2>1, <2>2, <2>3 DEF Jobs
<1>7. ASSUME NEW c \in Clients, AcceptRaises(c) \/ Register(c) \/ Disconnect(c) \/ Drop(c)
      PROVE  Jobs'
    <2>1. /\ UNCHANGED <<home, channel, job>>
          /\ \A d \in Clients : /\ endpoint[d] # "new" => endpoint'[d] # "new"
                                /\ endpoint[d] = "gone" => endpoint'[d] = "gone"
                                /\ link[d] = "down" => link'[d] = "down"
        BY <1>0, <1>7 DEF AcceptRaises, Register, Disconnect, Drop, TypeOK
    <2>2. \A q \in Processes, b \in Broadcasters :
              Aims(job[q][b]) \subseteq Clients /\ job[q][b].stale \subseteq Clients
        BY <1>0 DEF TypeOK, Job, Aims
    <2> SUFFICES ASSUME NEW q \in Processes, NEW b \in Broadcasters
                 PROVE  /\ \A d \in Aims(job[q][b]) :
                              /\ home[d] = q /\ channel[d] \in job[q][b].channels
                              /\ endpoint'[d] # "new"
                        /\ \A d \in job[q][b].stale : endpoint'[d] = "gone" \/ link'[d] = "down"
                        /\ job[q][b].current \notin job[q][b].targets
                        /\ job[q][b].current = NoClient => job[q][b] = Idle
        BY <2>1 DEF Jobs, Aims
    <2> QED
        BY <1>0, <2>1, <2>2 DEF Jobs
<1>8. CASE UNCHANGED vars
    BY <1>0, <1>8 DEF Jobs, Aims, vars
<1> QED
    BY <1>1, <1>2, <1>3, <1>4, <1>5, <1>6, <1>7, <1>8, Steps

\* Redis appends to the inboxes, the relay takes from them.
LEMMA InboxesKept ==
    ASSUME IndInv, [Next]_vars
    PROVE  Inboxes'
<1> USE DEF busVars, processVars
<1>0. TypeOK /\ Inboxes
    BY DEF IndInv
<1>a. Len(bus) \in Nat
    BY <1>0 DEF TypeOK
<1>1. ASSUME bus' = bus,
             \A q \in Processes : \/ inbox'[q] = inbox[q] \/ inbox'[q] = <<>>
                                  \/ /\ Increasing(inbox'[q])
                                     /\ \A x : In(x, inbox'[q]) => In(x, inbox[q])
      PROVE  Inboxes'
    BY <1>0, <1>1, EmptySequence DEF Inboxes
<1>2. ASSUME NEW p \in Processes, NEW b \in Broadcasters, Advances(p, b)
      PROVE  Inboxes'
    <2>1. bus' = bus
        BY <1>2, Advance
    <2>2. CASE Relay(p)
        <3>1. /\ inbox' = [inbox EXCEPT ![p] = Tail(@)] /\ Increasing(Tail(inbox[p]))
              /\ \A x : In(x, Tail(inbox[p])) => In(x, inbox[p])
            BY <2>2, NextMessage
        <3>2. \A q \in Processes : inbox'[q] = IF q = p THEN Tail(inbox[p]) ELSE inbox[q]
            BY <1>0, <3>1 DEF TypeOK
        <3> QED
            BY <1>1, <2>1, <3>1, <3>2
    <2>3. CASE ~Relay(p)
        <3>1. inbox' = inbox
            BY <1>2, <2>3 DEF Advances, Heartbeat, SendReturns, SendRaises
        <3> QED
            BY <1>1, <2>1, <3>1
    <2> QED
        BY <2>2, <2>3
<1>3. ASSUME NEW p \in Processes,
             Start(p) \/ Stop(p) \/ Exit(p) \/ Crash(p) \/ Subscribes(p) \/ RelayEnds(p)
      PROVE  Inboxes'
    <2>1. bus' = bus /\ \A q \in Processes : inbox'[q] = inbox[q] \/ inbox'[q] = <<>>
        BY <1>0, <1>3 DEF Start, Stop, Exit, Crash, Subscribes, Subscribe, SubscribeFails,
                          LoseSubscription, RelayEnds, TypeOK
    <2> QED
        BY <1>1, <2>1
<1>4. ASSUME NEW p \in Processes \cup {Worker}, NEW chs \in EventChannels, Raise(p, chs)
      PROVE  Inboxes'
    BY <1>1, <1>4 DEF Raise
<1>5. ASSUME NEW o \in outgoing, PublishFails(o) PROVE Inboxes'
    BY <1>1, <1>5 DEF PublishFails
<1>6. ASSUME NEW o \in outgoing, Publish(o) PROVE Inboxes'
    <2>1. /\ bus' = Append(bus, [event |-> o.event, channels |-> o.channels])
          /\ Len(bus') = Len(bus) + 1
        BY <1>0, <1>6 DEF Publish, TypeOK
    <2> SUFFICES ASSUME NEW q \in Processes
                 PROVE  /\ Increasing(inbox'[q])
                        /\ \A i \in Nat : In(i, inbox'[q]) => i \in 1 .. Len(bus')
        BY DEF Inboxes
    <2>2. PICK n \in Nat : n = Len(bus) + 1
        BY <1>a
    <2>3. /\ inbox[q] \in Seq(Nat) /\ Increasing(inbox[q])
          /\ \A i \in Nat : In(i, inbox[q]) => i \in 1 .. Len(bus)
        BY <1>0 DEF TypeOK, Inboxes
    <2>4. /\ Increasing(Append(inbox[q], n))
          /\ \A x : In(x, Append(inbox[q], n)) <=> In(x, inbox[q]) \/ x = n
        BY <1>a, <2>2, <2>3, AppendIncreasing, AppendElements
    <2>5. inbox'[q] = inbox[q] \/ inbox'[q] = Append(inbox[q], n)
        BY <1>6, <2>2 DEF Publish
    <2>6. CASE inbox'[q] = inbox[q]
        BY <1>a, <2>1, <2>3, <2>6
    <2>7. CASE inbox'[q] = Append(inbox[q], n)
        BY <1>a, <2>1, <2>2, <2>3, <2>4, <2>7
    <2> QED
        BY <2>5, <2>6, <2>7
<1>7. ASSUME NEW c \in Clients, NEW p \in Processes, NEW ch \in Channels, Accept(c, p, ch)
      PROVE  Inboxes'
    BY <1>1, <1>7 DEF Accept
<1>8. ASSUME NEW c \in Clients, AcceptRaises(c) \/ Register(c) \/ Disconnect(c) \/ Drop(c)
      PROVE  Inboxes'
    BY <1>1, <1>8 DEF AcceptRaises, Register, Disconnect, Drop
<1>9. CASE UNCHANGED vars
    BY <1>1, <1>9 DEF vars
<1> QED
    BY <1>2, <1>3, <1>4, <1>5, <1>6, <1>7, <1>8, <1>9, Steps

\* A publication leaves what was published before as it was.
LEMMA BusGrows ==
    ASSUME TypeOK, NEW o \in outgoing, Publish(o)
    PROVE  /\ Len(bus') = Len(bus) + 1 /\ Len(bus) \in Nat
           /\ \A i \in 1 .. Len(bus) : bus'[i] = bus[i]
           /\ bus'[Len(bus) + 1] = [event |-> o.event, channels |-> o.channels]
           /\ o.channels \in SUBSET Warehouses
           /\ \A q \in Processes : /\ inbox[q] \in Seq(Nat)
                                   /\ inbox'[q] = inbox[q] \/ inbox'[q] = Append(inbox[q], Len(bus) + 1)
<1>1. o \in Outgoing
    BY DEF TypeOK
<1>2. o.channels \in SUBSET Warehouses
    BY <1>1 DEF Outgoing
<1> DEFINE Message == [event : Nat, channels : SUBSET Warehouses]
           m == [event |-> o.event, channels |-> o.channels]
<1>3. bus \in Seq(Message) /\ m \in Message /\ bus' = Append(bus, m)
    BY <1>1 DEF Publish, TypeOK, Outgoing
<1> HIDE DEF Message, m
<1>4. /\ Len(bus') = Len(bus) + 1 /\ Len(bus) \in Nat
      /\ \A i \in 1 .. Len(bus) : bus'[i] = bus[i]
      /\ bus'[Len(bus) + 1] = m
    BY <1>3
<1>5. \A q \in Processes : /\ inbox[q] \in Seq(Nat)
                           /\ inbox'[q] = inbox[q] \/ inbox'[q] = Append(inbox[q], Len(bus) + 1)
    BY DEF Publish, TypeOK
<1> QED
    BY <1>2, <1>4, <1>5 DEF m

\* What a new message in an inbox means for the ones before it.
LEMMA InboxGrows ==
    ASSUME TypeOK, NEW o \in outgoing, Publish(o), NEW q \in Processes
    PROVE  \A x \in Nat : In(x, inbox'[q]) => In(x, inbox[q]) \/ x = Len(bus) + 1
<1>1. PICK n \in Nat : n = Len(bus) + 1
    BY BusGrows
<1>2. inbox[q] \in Seq(Nat) /\ (inbox'[q] = inbox[q] \/ inbox'[q] = Append(inbox[q], n))
    BY <1>1, BusGrows
<1>3. \A x : In(x, Append(inbox[q], n)) <=> In(x, inbox[q]) \/ x = n
    BY <1>2, AppendElements
<1> QED
    BY <1>1, <1>2, <1>3

LEMMA RelayJobsKept ==
    ASSUME IndInv, [Next]_vars
    PROVE  RelayJobs'
<1> USE DEF busVars, processVars, clientVars
<1>0. TypeOK /\ RelayJobs /\ Inboxes
    BY DEF IndInv
<1>1. ASSUME bus' = bus,
             \A q \in Processes :
                \/ ~Busy(q, "relay")'
                \/ /\ Busy(q, "relay") /\ (inbox'[q] = inbox[q] \/ inbox'[q] = <<>>)
                   /\ job'[q]["relay"].about = job[q]["relay"].about
                   /\ job'[q]["relay"].channels = job[q]["relay"].channels
      PROVE  RelayJobs'
    BY <1>0, <1>1, EmptySequence DEF RelayJobs
<1>2. ASSUME NEW p \in Processes, NEW b \in Broadcasters, Advances(p, b)
      PROVE  RelayJobs'
    <2>1. bus' = bus
        BY <1>2, Advance
    <2>2. CASE b = "relay" /\ Relay(p)
        <3> DEFINE j == Broadcast(p, Head(inbox[p]), bus[Head(inbox[p])].channels)
        <3>1. PICK i \in Nat : i = Head(inbox[p])
            BY <1>0, <2>2, TailElements DEF TypeOK, Relay, Inboxes
        <3>2. /\ i \in 1 .. Len(bus) /\ j \in Job /\ j.about = i
              /\ j.channels = bus[i].channels \cup {Global} /\ Continue(p, "relay", j)
              /\ inbox' = [inbox EXCEPT ![p] = Tail(@)]
              /\ \A x : In(x, Tail(inbox[p])) => i < x
            BY <2>2, <3>1, NextMessage
        <3> HIDE DEF j
        <3>3. /\ \A q \in Processes, d \in Broadcasters :
                     q # p \/ d # "relay" => job'[q][d] = job[q][d]
              /\ \/ job'[p]["relay"].about = j.about /\ job'[p]["relay"].channels = j.channels
                 \/ job'[p]["relay"] = Idle
            BY <1>0, <3>2, Continued DEF Broadcasters
        <3>4. \A q \in Processes : inbox'[q] = IF q = p THEN Tail(inbox[p]) ELSE inbox[q]
            BY <1>0, <3>2 DEF TypeOK
        <3> SUFFICES ASSUME NEW q \in Processes, Busy(q, "relay")'
                     PROVE  /\ job'[q]["relay"].about \in 1 .. Len(bus)
                            /\ job'[q]["relay"].channels =
                                   bus[job'[q]["relay"].about].channels \cup {Global}
                            /\ \A x \in Nat : In(x, inbox'[q]) => job'[q]["relay"].about < x
            BY <2>1 DEF RelayJobs
        <3>5. CASE q # p
            <4>1. job'[q]["relay"] = job[q]["relay"] /\ inbox'[q] = inbox[q]
                BY <3>3, <3>4, <3>5 DEF Broadcasters
            <4> QED
                BY <1>0, <4>1 DEF RelayJobs, Busy
        <3>6. CASE q = p
            BY <3>2, <3>3, <3>4, <3>6 DEF Busy, Idle
        <3> QED
            BY <3>5, <3>6
    <2>3. CASE ~(b = "relay" /\ Relay(p))
        <3>1. inbox' = inbox
            BY <1>2, <2>3 DEF Advances, Heartbeat, SendReturns, SendRaises
        <3>2. CASE b = "heartbeat"
            <4>1. PICK k \in Job : Continue(p, "heartbeat", k)
                BY <1>2, <3>2, Advance
            <4>2. \A q \in Processes : job'[q]["relay"] = job[q]["relay"]
                BY <1>0, <4>1, Continued DEF Broadcasters
            <4> QED
                BY <1>1, <2>1, <3>1, <4>2 DEF Busy
        <3>3. CASE b = "relay"
            <4>1. SendReturns(p, b) \/ SendRaises(p, b)
                BY <1>2, <2>3, <3>3 DEF Advances
            <4>2. PICK k \in Job :
                      /\ Continue(p, b, k) /\ k.about = job[p][b].about
                      /\ k.channels = job[p][b].channels
                BY <1>0, <4>1, NextSend
            <4>3. /\ \A q \in Processes : q # p => job'[q]["relay"] = job[q]["relay"]
                  /\ \/ job'[p][b].about = k.about /\ job'[p][b].channels = k.channels
                     \/ job'[p][b] = Idle
                BY <1>0, <4>2, Continued DEF Broadcasters
            <4>4. Busy(p, b)
                BY <4>1 DEF SendReturns, SendRaises
            <4> QED
                BY <1>1, <2>1, <3>1, <3>3, <4>2, <4>3, <4>4 DEF Busy, Idle
        <3> QED
            BY <3>2, <3>3 DEF Broadcasters
    <2> QED
        BY <2>2, <2>3
<1>3. ASSUME NEW p \in Processes,
             Start(p) \/ Stop(p) \/ Subscribes(p) \/ RelayEnds(p)
      PROVE  RelayJobs'
    <2>1. UNCHANGED <<bus, job>> /\ \A q \in Processes : inbox'[q] = inbox[q] \/ inbox'[q] = <<>>
        BY <1>0, <1>3 DEF Start, Stop, Subscribes, Subscribe, SubscribeFails,
                          LoseSubscription, RelayEnds, TypeOK
    <2> QED
        BY <1>1, <2>1 DEF Busy
<1>4. ASSUME NEW p \in Processes, Exit(p) \/ Crash(p) PROVE RelayJobs'
    <2>1. /\ bus' = bus /\ job'[p] = AllIdle
          /\ \A q \in Processes : q # p => inbox'[q] = inbox[q] /\ job'[q] = job[q]
        BY <1>0, <1>4 DEF Exit, Crash, TypeOK
    <2>2. ~Busy(p, "relay")'
        BY <2>1 DEF AllIdle, Busy, Idle, Broadcasters
    <2> QED
        BY <1>1, <2>1, <2>2 DEF Busy
<1>5. ASSUME NEW p \in Processes \cup {Worker}, NEW chs \in EventChannels, Raise(p, chs)
      PROVE  RelayJobs'
    BY <1>1, <1>5 DEF Raise, Busy
<1>6. ASSUME NEW o \in outgoing, PublishFails(o) PROVE RelayJobs'
    BY <1>1, <1>6 DEF PublishFails, Busy
<1>7. ASSUME NEW o \in outgoing, Publish(o) PROVE RelayJobs'
    <2>1. /\ Len(bus') = Len(bus) + 1 /\ Len(bus) \in Nat
          /\ \A i \in 1 .. Len(bus) : bus'[i] = bus[i]
        BY <1>0, <1>7, BusGrows
    <2>2. job' = job
        BY <1>7 DEF Publish
    <2> SUFFICES ASSUME NEW q \in Processes, Busy(q, "relay")
                 PROVE  /\ job[q]["relay"].about \in 1 .. Len(bus')
                        /\ job[q]["relay"].channels =
                               bus'[job[q]["relay"].about].channels \cup {Global}
                        /\ \A x \in Nat : In(x, inbox'[q]) => job[q]["relay"].about < x
        BY <2>2 DEF RelayJobs, Busy
    <2>3. PICK i \in Nat : i = job[q]["relay"].about
        <3>1. job[q]["relay"] \in Job
            BY <1>0 DEF TypeOK, Broadcasters
        <3> QED
            BY <3>1 DEF Job
    <2>4. /\ i \in 1 .. Len(bus) /\ job[q]["relay"].channels = bus[i].channels \cup {Global}
          /\ \A x \in Nat : In(x, inbox[q]) => i < x
        BY <1>0, <2>3 DEF RelayJobs
    <2>5. \A x \in Nat : In(x, inbox'[q]) => In(x, inbox[q]) \/ x = Len(bus) + 1
        BY <1>0, <1>7, InboxGrows
    <2> QED
        BY <2>1, <2>3, <2>4, <2>5
<1>8. ASSUME NEW c \in Clients, NEW p \in Processes, NEW ch \in Channels, Accept(c, p, ch)
      PROVE  RelayJobs'
    BY <1>1, <1>8 DEF Accept, Busy
<1>9. ASSUME NEW c \in Clients, AcceptRaises(c) \/ Register(c) \/ Disconnect(c) \/ Drop(c)
      PROVE  RelayJobs'
    BY <1>1, <1>9 DEF AcceptRaises, Register, Disconnect, Drop, Busy
<1>10. CASE UNCHANGED vars
    BY <1>1, <1>10 DEF vars, Busy
<1> QED
    BY <1>2, <1>3, <1>4, <1>5, <1>6, <1>7, <1>8, <1>9, <1>10, Steps

-----------------------------------------------------------------------------
(* What the clients were sent. *)

\* The steps that send nothing to a client and start no broadcast.
LEMMA HistoriesQuiet ==
    ASSUME IndInv, TypeOK', sent' = sent,
           \A c \in Clients : sent[c] # <<>> => home'[c] = home[c] /\ channel'[c] = channel[c],
           Len(bus') \in Nat, Len(bus') >= Len(bus),
           \A i \in 1 .. Len(bus) : bus'[i] = bus[i],
           \A q \in Processes : \A x \in Nat :
               In(x, inbox'[q]) => In(x, inbox[q]) \/ x = Len(bus) + 1,
           \A q \in Processes :
               \/ ~Busy(q, "relay")'
               \/ /\ Busy(q, "relay")
                  /\ job'[q]["relay"].about = job[q]["relay"].about
                  /\ job'[q]["relay"].targets \cup {job'[q]["relay"].current}
                        \subseteq job[q]["relay"].targets \cup {job[q]["relay"].current}
    PROVE  Histories'
<1>1. Histories /\ Connections /\ TypeOK /\ Len(bus) \in Nat
    BY DEF IndInv, TypeOK
<1> SUFFICES ASSUME NEW c \in Clients, NEW i \in Nat, In(i, sent[c])
             PROVE  Behind(c, i)'
    BY <1>1 DEF Histories
<1>2. sent[c] # <<>>
    BY EmptySequence
<1>3. endpoint[c] # "new" /\ home[c] \in Processes
    BY <1>1, <1>2 DEF Connections, TypeOK
<1>4. home'[c] = home[c] /\ channel'[c] = channel[c]
    BY <1>2
<1>5. Behind(c, i)
    BY <1>1 DEF Histories
<1>6. i \in 1 .. Len(bus') /\ channel'[c] \in bus'[i].channels \cup {Global}
    BY <1>1, <1>4, <1>5 DEF Behind
<1>7. \A k \in Nat : In(k, inbox'[home[c]]) => i < k
    BY <1>1, <1>3, <1>5 DEF Behind
<1>8. ASSUME Busy(home[c], "relay")'
      PROVE  /\ i <= job'[home[c]]["relay"].about
             /\ c \in job'[home[c]]["relay"].targets \cup {job'[home[c]]["relay"].current}
                   => i < job'[home[c]]["relay"].about
    BY <1>3, <1>4, <1>5, <1>8 DEF Behind, Busy
<1> QED
    BY <1>4, <1>6, <1>7, <1>8 DEF Behind, Busy

\* The relay begins a broadcast of a message newer than all it sent.
LEMMA HistoriesRelayed ==
    ASSUME IndInv, TypeOK', NEW p \in Processes, Relay(p)
    PROVE  Histories'
<1>1. Histories /\ Connections /\ TypeOK
    BY DEF IndInv
<1>2. PICK n \in Nat : n = Head(inbox[p])
    BY <1>1, TailElements DEF TypeOK, Relay, IndInv, Inboxes
<1> DEFINE j == Broadcast(p, n, bus[n].channels)
<1>3. /\ n \in 1 .. Len(bus) /\ In(n, inbox[p]) /\ j \in Job /\ j.about = n
      /\ Continue(p, "relay", j)
      /\ inbox' = [inbox EXCEPT ![p] = Tail(@)]
      /\ \A x : In(x, Tail(inbox[p])) => In(x, inbox[p]) /\ n < x
    BY <1>2, NextMessage
<1> HIDE DEF j
<1>4. \A q \in Processes : inbox'[q] = IF q = p THEN Tail(inbox[p]) ELSE inbox[q]
    BY <1>1, <1>3 DEF TypeOK
<1>5. /\ \A q \in Processes : q # p => job'[q]["relay"] = job[q]["relay"]
      /\ job'[p]["relay"].about = n \/ ~Busy(p, "relay")'
    BY <1>1, <1>3, Continued DEF Broadcasters, Busy, Idle
<1>6. UNCHANGED <<sent, bus, home, channel>>
    BY DEF Relay, busVars, clientVars
<1> SUFFICES ASSUME NEW c \in Clients, NEW i \in Nat, In(i, sent[c])
             PROVE  Behind(c, i)'
    BY <1>1, <1>6 DEF Histories
<1>7. Behind(c, i)
    BY <1>1 DEF Histories
<1>8. home[c] \in Processes
    BY <1>1, EmptySequence DEF Connections, TypeOK
<1>9. CASE home[c] = p
    <2>1. i < n
        BY <1>2, <1>3, <1>7, <1>9 DEF Behind
    <2> QED
        BY <1>3, <1>4, <1>5, <1>6, <1>7, <1>9, <2>1 DEF Behind, Busy
<1>10. CASE home[c] # p
    BY <1>4, <1>5, <1>6, <1>7, <1>8, <1>10 DEF Behind, Busy
<1> QED
    BY <1>9, <1>10

\* A client takes the message its process is broadcasting, and is aimed at no more.
LEMMA HistoriesSent ==
    ASSUME IndInv, TypeOK', NEW p \in Processes, SendReturns(p, "relay")
    PROVE  Histories'
<1>1. Histories /\ Connections /\ TypeOK /\ Jobs /\ RelayJobs
    BY DEF IndInv
<1>2. "relay" \in Broadcasters
    BY DEF Broadcasters
<1>3. PICK d \in Clients, n \in Nat :
          /\ d = job[p]["relay"].current /\ n = job[p]["relay"].about
          /\ job[p]["relay"] \in Job
          /\ UNCHANGED <<bus, home, channel, inbox>>
          /\ sent' = [sent EXCEPT ![d] = Append(@, n)]
    <2>1. job[p]["relay"] \in Job /\ job[p]["relay"].current \in Clients
        BY <1>1, <1>2, NextSend
    <2>2. job[p]["relay"].about \in Nat
        BY <2>1 DEF Job
    <2> QED
        BY <2>1, <2>2 DEF SendReturns, processVars, busVars, clientVars
<1>4. /\ home[d] = p /\ channel[d] \in job[p]["relay"].channels /\ d \notin job[p]["relay"].targets
    BY <1>1, <1>2, <1>3 DEF Jobs, Aims
<1>5. /\ n \in 1 .. Len(bus) /\ channel[d] \in bus[n].channels \cup {Global}
      /\ \A k \in Nat : In(k, inbox[p]) => n < k
    BY <1>1, <1>3, <1>4 DEF RelayJobs, SendReturns
<1>6. Continue(p, "relay", job[p]["relay"])
    BY DEF SendReturns
<1>7. /\ \A q \in Processes : q # p => job'[q]["relay"] = job[q]["relay"]
      /\ \/ /\ job'[p]["relay"].about = n
            /\ job'[p]["relay"].targets \cup {job'[p]["relay"].current} \subseteq job[p]["relay"].targets
         \/ ~Busy(p, "relay")'
    BY <1>1, <1>2, <1>3, <1>6, Continued DEF Busy, Idle
<1>8. Busy(p, "relay")
    BY DEF SendReturns
<1>a. /\ \A c \in Clients : c # d => sent'[c] = sent[c]
      /\ sent'[d] = Append(sent[d], n) /\ sent[d] \in Seq(Nat)
    BY <1>1, <1>3 DEF TypeOK
<1>b. \A i \in Nat : In(i, sent[d]) => i < n
    BY <1>1, <1>3, <1>4, <1>8 DEF Histories, Behind
<1>c. Increasing(sent'[d])
    BY <1>1, <1>3, <1>a, <1>b, AppendIncreasing DEF Histories
<1>d. \A x : In(x, sent'[d]) <=> In(x, sent[d]) \/ x = n
    BY <1>3, <1>a, AppendElements
<1>e. ASSUME NEW c \in Clients, NEW i \in Nat, In(i, sent[c]) PROVE Behind(c, i)'
    <2>1. Behind(c, i)
        BY <1>1, <1>e DEF Histories
    <2>2. home[c] \in Processes
        BY <1>1, <1>e, EmptySequence DEF Connections, TypeOK
    <2>3. CASE home[c] = p
        <3>1. i <= n /\ (c \in job[p]["relay"].targets => i < n)
            BY <1>8, <1>3, <2>1, <2>3 DEF Behind
        <3> QED
            BY <1>3, <1>7, <2>1, <2>3, <3>1 DEF Behind, Busy
    <2>4. CASE home[c] # p
        BY <1>3, <1>7, <2>1, <2>2, <2>4 DEF Behind, Busy
    <2> QED
        BY <2>3, <2>4
<1>f. Behind(d, n)'
    BY <1>3, <1>4, <1>5, <1>7 DEF Behind, Busy
<1> QED
    BY <1>1, <1>3, <1>a, <1>c, <1>d, <1>e, <1>f DEF Histories

LEMMA HistoriesKept ==
    ASSUME IndInv, [Next]_vars
    PROVE  Histories'
<1> USE DEF busVars, processVars, clientVars
<1>0. TypeOK /\ TypeOK' /\ Connections /\ Len(bus) \in Nat
    BY TypeKept DEF IndInv, TypeOK
<1>1. ASSUME sent' = sent, UNCHANGED <<bus, home, channel>>,
             \A q \in Processes : inbox'[q] = inbox[q] \/ inbox'[q] = <<>>,
             \A q \in Processes :
                 \/ ~Busy(q, "relay")'
                 \/ /\ Busy(q, "relay")
                    /\ job'[q]["relay"].about = job[q]["relay"].about
                    /\ job'[q]["relay"].targets \cup {job'[q]["relay"].current}
                          \subseteq job[q]["relay"].targets \cup {job[q]["relay"].current}
      PROVE  Histories'
    BY <1>0, <1>1, EmptySequence, HistoriesQuiet
<1>2. ASSUME NEW p \in Processes, NEW b \in Broadcasters, Advances(p, b)
      PROVE  Histories'
    <2>1. CASE Relay(p)
        BY <1>0, <2>1, HistoriesRelayed
    <2>2. CASE b = "relay" /\ SendReturns(p, b)
        BY <1>0, <2>2, HistoriesSent
    <2>3. CASE b = "relay" /\ SendRaises(p, b)
        <3>1. PICK k \in Job :
                  /\ Continue(p, b, k) /\ k.about = job[p][b].about
                  /\ k.targets = job[p][b].targets
            BY <1>0, <2>3, NextSend
        <3>2. /\ \A q \in Processes : q # p => job'[q]["relay"] = job[q]["relay"]
              /\ \/ /\ job'[p][b].about = k.about
                    /\ job'[p][b].targets \cup {job'[p][b].current} \subseteq k.targets
                 \/ job'[p][b] = Idle
            BY <1>0, <3>1, Continued DEF Broadcasters
        <3>3. Busy(p, b) /\ UNCHANGED <<sent, bus, home, channel, inbox>>
            BY <2>3 DEF SendRaises
        <3> QED
            BY <1>1, <2>3, <3>1, <3>2, <3>3 DEF Busy, Idle
    <2>4. CASE b = "heartbeat" /\ ~Relay(p)
        <3>1. PICK k \in Job : Continue(p, "heartbeat", k)
            BY <1>2, <2>4, Advance
        <3>2. \A q \in Processes : job'[q]["relay"] = job[q]["relay"]
            BY <1>0, <3>1, Continued DEF Broadcasters
        <3>3. UNCHANGED <<sent, bus, home, channel, inbox>>
            BY <1>2, <2>4 DEF Advances, Heartbeat, SendReturns, SendRaises
        <3> QED
            BY <1>1, <3>2, <3>3 DEF Busy
    <2> QED
        BY <1>2, <2>1, <2>2, <2>3, <2>4 DEF Advances, Broadcasters
<1>3. ASSUME NEW p \in Processes,
             Start(p) \/ Stop(p) \/ Subscribes(p) \/ RelayEnds(p)
      PROVE  Histories'
    <2>1. /\ UNCHANGED <<bus, job, home, channel, sent>>
          /\ \A q \in Processes : inbox'[q] = inbox[q] \/ inbox'[q] = <<>>
        BY <1>0, <1>3 DEF Start, Stop, Subscribes, Subscribe, SubscribeFails,
                          LoseSubscription, RelayEnds, TypeOK
    <2> QED
        BY <1>1, <2>1 DEF Busy
<1>4. ASSUME NEW p \in Processes, Exit(p) \/ Crash(p) PROVE Histories'
    <2>1. /\ UNCHANGED <<bus, home, channel, sent>> /\ job'[p] = AllIdle /\ inbox'[p] = <<>>
          /\ \A q \in Processes : q # p => inbox'[q] = inbox[q] /\ job'[q] = job[q]
        BY <1>0, <1>4 DEF Exit, Crash, TypeOK
    <2>2. ~Busy(p, "relay")'
        BY <2>1 DEF AllIdle, Busy, Idle, Broadcasters
    <2> QED
        BY <1>1, <2>1, <2>2 DEF Busy
<1>5. ASSUME NEW p \in Processes \cup {Worker}, NEW chs \in EventChannels, Raise(p, chs)
      PROVE  Histories'
    BY <1>1, <1>5 DEF Raise, Busy
<1>6. ASSUME NEW o \in outgoing, PublishFails(o) PROVE Histories'
    BY <1>1, <1>6 DEF PublishFails, Busy
<1>7. ASSUME NEW o \in outgoing, Publish(o) PROVE Histories'
    <2>1. /\ Len(bus') = Len(bus) + 1
          /\ \A i \in 1 .. Len(bus) : bus'[i] = bus[i]
          /\ \A q \in Processes : \A x \in Nat :
                 In(x, inbox'[q]) => In(x, inbox[q]) \/ x = Len(bus) + 1
        BY <1>0, <1>7, BusGrows, InboxGrows
    <2>2. UNCHANGED <<job, sent, home, channel>>
        BY <1>7 DEF Publish
    <2>3. Len(bus') \in Nat /\ Len(bus') >= Len(bus)
        BY <1>0, <2>1
    <2> QED
        BY <1>0, <2>1, <2>2, <2>3, HistoriesQuiet DEF Busy
<1>8. ASSUME NEW c \in Clients, NEW p \in Processes, NEW ch \in Channels, Accept(c, p, ch)
      PROVE  Histories'
    <2>1. UNCHANGED <<bus, job, inbox, sent>>
        BY <1>8 DEF Accept
    <2>2. \A d \in Clients : sent[d] # <<>> => home'[d] = home[d] /\ channel'[d] = channel[d]
        BY <1>0, <1>8 DEF Accept, TypeOK, Connections
    <2> QED
        BY <1>0, <2>1, <2>2, HistoriesQuiet DEF Busy
<1>9. ASSUME NEW c \in Clients, AcceptRaises(c) \/ Register(c) \/ Disconnect(c) \/ Drop(c)
      PROVE  Histories'
    BY <1>1, <1>9 DEF AcceptRaises, Register, Disconnect, Drop, Busy
<1>10. CASE UNCHANGED vars
    BY <1>1, <1>10 DEF vars, Busy
<1> QED
    BY <1>2, <1>3, <1>4, <1>5, <1>6, <1>7, <1>8, <1>9, <1>10, Steps

-----------------------------------------------------------------------------
(* The theorems. *)

LEMMA Initial == Init => IndInv
<1> SUFFICES ASSUME Init PROVE IndInv
    OBVIOUS
<1>1. TypeOK
    <2>1. AllIdle \in [Broadcasters -> Job]
        BY IdleIsJob DEF AllIdle
    <2> QED
        BY <2>1, BoundsAssumption DEF Init, TypeOK
<1>2. \A p \in Processes, b \in Broadcasters : job[p][b] = Idle
    BY DEF Init, AllIdle
<1>3. Connections /\ Lives /\ RegistryExact /\ NoMemory
    BY <1>2 DEF Init, Connections, Lives, RegistryExact, NoMemory, Busy, Idle
<1>4. Inboxes /\ Histories
    BY EmptySequence DEF Init, Inboxes, Histories
<1>5. Jobs
    BY <1>2, ClientsAssumption DEF Jobs, Aims, Idle
<1>6. RelayJobs
    BY <1>2 DEF RelayJobs, Busy, Idle, Broadcasters
<1> QED
    BY <1>1, <1>3, <1>4, <1>5, <1>6 DEF IndInv

\* A step keeps every conjunct of the invariant.
LEMMA Kept == IndInv /\ [Next]_vars => IndInv'
BY TypeKept, ConnectionsKept, LivesKept, RegistryKept, CleanKept, JobsKept, InboxesKept,
   RelayJobsKept, HistoriesKept DEF IndInv

\* The invariant the others follow from: the registry, the relays' inboxes and
\* broadcasts, and what each client was sent, in step with one another.
THEOREM Inductive == Spec => []IndInv
BY Initial, Kept, PTL DEF Spec

\* The values every variable of the fan-out takes.
THEOREM TypeCorrect == Spec => []TypeOK
<1>1. IndInv => TypeOK
    BY DEF IndInv
<1> QED
    BY <1>1, Inductive, PTL

\* However broadcasts, connections and disconnections interleave at the awaits of
\* ConnectionManager, _connections holds exactly the live connections, each under
\* the channel it asked for.
THEOREM Registry == Spec => []RegistryExact
<1>1. IndInv => RegistryExact
    BY DEF IndInv
<1> QED
    BY <1>1, Inductive, PTL

\* No client sees an older publication after a newer one, or one of them twice.
THEOREM Ordered == Spec => []InBusOrder
<1>1. IndInv => InBusOrder
    BY DEF IndInv, Histories, Increasing, InBusOrder
<1> QED
    BY <1>1, Inductive, PTL

\* A client of a warehouse channel is handed nothing about other warehouses.
THEOREM Scoped == Spec => []OwnChannelOnly
<1>1. IndInv => OwnChannelOnly
    <2> SUFFICES ASSUME IndInv, NEW c \in Clients, NEW k \in DOMAIN sent[c]
                 PROVE  channel[c] \in bus[sent[c][k]].channels \cup {Global}
        BY DEF OwnChannelOnly
    <2>1. sent[c][k] \in Nat /\ In(sent[c][k], sent[c])
        BY DEF IndInv, TypeOK, In
    <2> QED
        BY <2>1 DEF IndInv, Histories, Behind
<1> QED
    BY <1>1, Inductive, PTL

-----------------------------------------------------------------------------
(* The refinement of OrderedFeed. *)

\* A publication appended to the bus is one appended to the feed.
LEMMA FeedGrows ==
    ASSUME IndInv, NEW o \in outgoing, Publish(o)
    PROVE  [i \in DOMAIN bus |-> bus[i].channels]' =
               Append([i \in DOMAIN bus |-> bus[i].channels], o.channels)
<1>0. TypeOK
    BY DEF IndInv
<1>1. /\ Len(bus') = Len(bus) + 1
      /\ \A i \in 1 .. Len(bus) : bus'[i] = bus[i]
      /\ bus'[Len(bus) + 1] = [event |-> o.event, channels |-> o.channels]
    BY <1>0, BusGrows
<1> DEFINE Message == [event : Nat, channels : SUBSET Warehouses]
<1>2. bus \in Seq(Message) /\ bus' \in Seq(Message)
    <2>1. [Next]_vars
        BY DEF Next
    <2>2. TypeOK'
        BY <2>1, TypeKept
    <2> QED
        BY <1>0, <2>2 DEF TypeOK
<1> HIDE DEF Message
<1>3. PICK n \in Nat : n = Len(bus)
    BY <1>2
<1>4. DOMAIN bus = 1 .. n /\ DOMAIN bus' = 1 .. (n + 1)
    BY <1>1, <1>2, <1>3
<1> DEFINE s == [i \in 1 .. n |-> bus[i].channels]
<1>5. \A i \in 1 .. n : bus[i].channels \in SUBSET Warehouses
    <2>1. \A i \in 1 .. n : bus[i] \in Message
        BY <1>2, <1>3
    <2> QED
        BY <2>1 DEF Message
<1>6. s \in Seq(SUBSET Warehouses) /\ Len(s) = n
    BY <1>5
<1>7. Append(s, o.channels) = [i \in 1 .. (n + 1) |-> IF i <= n THEN s[i] ELSE o.channels]
    BY <1>6
<1>8. ASSUME NEW i \in 1 .. (n + 1)
      PROVE  bus'[i].channels = IF i <= n THEN s[i] ELSE o.channels
    BY <1>1, <1>3
<1>9. [i \in 1 .. (n + 1) |-> bus'[i].channels] = Append(s, o.channels)
    BY <1>7, <1>8
<1> QED
    BY <1>4, <1>9

\* A step of the fan-out publishes, has a client follow or receive, or is none of
\* the feed's.
LEMMA FeedStep ==
    ASSUME IndInv, [Next]_vars
    PROVE  [Feed!Next]_(Feed!feedVars)
<1> USE DEF busVars, processVars, clientVars
<1>0. TypeOK /\ Connections
    BY DEF IndInv
<1>1. ASSUME UNCHANGED <<bus, channel, sent>> PROVE Feed!feedVars' = Feed!feedVars
    BY <1>1 DEF Feed!feedVars
<1>2. ASSUME NEW p \in Processes, NEW b \in Broadcasters, Advances(p, b)
      PROVE  [Feed!Next]_(Feed!feedVars)
    <2>1. UNCHANGED <<bus, channel>>
        BY <1>2, Advance
    <2>2. CASE sent' = sent
        BY <1>1, <2>1, <2>2
    <2>3. CASE /\ b = "relay" /\ SendReturns(p, b)
               /\ job[p][b].current \in Clients /\ job[p][b].about \in Nat
               /\ endpoint[job[p][b].current] = "open"
               /\ sent' = [sent EXCEPT ![job[p][b].current] = Append(@, job[p][b].about)]
        <3>1. PICK c \in Clients, n \in Nat :
                  /\ c = job[p]["relay"].current /\ n = job[p]["relay"].about
                  /\ endpoint[c] = "open" /\ sent' = [sent EXCEPT ![c] = Append(@, n)]
            BY <2>3
        <3>2. Busy(p, "relay")
            BY <2>3 DEF SendReturns
        <3>3. home[c] = p /\ channel[c] \in job[p]["relay"].channels
            BY <3>1 DEF IndInv, Jobs, Aims, Broadcasters
        <3>4. n \in 1 .. Len(bus) /\ channel[c] \in bus[n].channels \cup {Global}
            BY <3>1, <3>2, <3>3 DEF IndInv, RelayJobs
        <3>5. \A k \in DOMAIN sent[c] : sent[c][k] < n
            <4> SUFFICES ASSUME NEW k \in DOMAIN sent[c] PROVE sent[c][k] < n
                OBVIOUS
            <4>1. sent[c][k] \in Nat /\ In(sent[c][k], sent[c])
                BY <1>0 DEF TypeOK, In
            <4>2. Behind(c, sent[c][k])
                BY <4>1 DEF IndInv, Histories
            <4> QED
                BY <3>1, <3>2, <3>3, <4>2 DEF Behind
        <3>6. channel[c] # NoChannel
            BY <1>0, <3>1, ChannelsAssumption DEF Connections, TypeOK, Channels
        <3>7. n \in DOMAIN bus
            BY <1>0, <3>4 DEF TypeOK
        <3>8. Feed!Concerns(n, channel[c])
            BY <3>4, <3>7 DEF Feed!Concerns
        <3>9. Feed!Receive(c, n)
            <4>1. [i \in DOMAIN bus |-> bus[i].channels]' = [i \in DOMAIN bus |-> bus[i].channels]
                BY <2>1
            <4> QED
                BY <2>1, <3>1, <3>5, <3>6, <3>8, <4>1 DEF Feed!Receive
        <3>10. n \in DOMAIN [i \in DOMAIN bus |-> bus[i].channels]
            BY <3>7
        <3> QED
            BY <3>9, <3>10 DEF Feed!Next
    <2> QED
        BY <1>2, <2>2, <2>3, SentGrows
<1>3. ASSUME NEW p \in Processes,
             Start(p) \/ Stop(p) \/ Exit(p) \/ Crash(p) \/ Subscribes(p) \/ RelayEnds(p)
      PROVE  Feed!feedVars' = Feed!feedVars
    BY <1>1, <1>3 DEF Start, Stop, Exit, Crash, Subscribes, Subscribe, SubscribeFails,
                      LoseSubscription, RelayEnds
<1>4. ASSUME NEW p \in Processes \cup {Worker}, NEW chs \in EventChannels, Raise(p, chs)
      PROVE  Feed!feedVars' = Feed!feedVars
    BY <1>1, <1>4 DEF Raise
<1>5. ASSUME NEW o \in outgoing, PublishFails(o) PROVE Feed!feedVars' = Feed!feedVars
    BY <1>1, <1>5 DEF PublishFails
<1>6. ASSUME NEW o \in outgoing, Publish(o) PROVE Feed!Next
    <2>1. Feed!Publish(o.channels)
        BY <1>6, FeedGrows DEF Feed!Publish, Publish
    <2>2. o.channels \in SUBSET Channels
        BY <1>0, <1>6, BusGrows DEF Channels
    <2> QED
        BY <2>1, <2>2 DEF Feed!Next
<1>7. ASSUME NEW c \in Clients, NEW p \in Processes, NEW ch \in Channels, Accept(c, p, ch)
      PROVE  Feed!Next
    <2>1. Feed!Follow(c, ch)
        BY <1>0, <1>7 DEF Feed!Follow, Accept, Connections
    <2> QED
        BY <2>1 DEF Feed!Next
<1>8. ASSUME NEW c \in Clients, AcceptRaises(c) \/ Register(c) \/ Disconnect(c) \/ Drop(c)
      PROVE  Feed!feedVars' = Feed!feedVars
    BY <1>1, <1>8 DEF AcceptRaises, Register, Disconnect, Drop
<1>9. CASE UNCHANGED vars
    BY <1>1, <1>9 DEF vars
<1> QED
    BY <1>2, <1>3, <1>4, <1>5, <1>6, <1>7, <1>8, <1>9, Steps

\* Every client's view is an ordered feed of its own channel: the relays, their
\* broadcasts and their failures implement OrderedFeed.
THEOREM Refinement == Spec => FeedSpec
<1>1. Init => Feed!Init
    <2> SUFFICES ASSUME Init PROVE Feed!Init
        OBVIOUS
    <2>1. [i \in DOMAIN bus |-> bus[i].channels] = <<>>
        BY DEF Init
    <2> QED
        BY <2>1 DEF Init, Feed!Init
<1>2. IndInv /\ [Next]_vars => [Feed!Next]_(Feed!feedVars)
    BY FeedStep
<1> QED
    BY <1>1, <1>2, Inductive, PTL DEF Spec, FeedSpec, Feed!Spec

=============================================================================
