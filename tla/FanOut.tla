------------------------------- MODULE FanOut -------------------------------
(***************************************************************************)
(* Domain events on their way to WebSocket clients: the listeners of the   *)
(* in-process publisher (app/events/publisher.py, app/websockets/          *)
(* listeners.py), Redis pub/sub and the relay loop (app/websockets/        *)
(* pubsub.py), the ConnectionManager of each API process (app/websockets/  *)
(* manager.py), the /ws endpoint, the heartbeat (app/core/scheduler.py)    *)
(* and the lifespan that starts and stops them (app/main.py).              *)
(*                                                                         *)
(* Every `await` is a boundary between steps: a broadcast computes its     *)
(* targets, then awaits one send after the other while clients come and    *)
(* go, and prunes the connections that failed at the end.                  *)
(***************************************************************************)
EXTENDS Naturals, Sequences, FiniteSets

CONSTANTS
    Processes,      \* API processes, each with its own ConnectionManager
    Worker,         \* the Celery worker: it publishes and has no clients
    Clients,        \* WebSocket connections, each made at most once
    Warehouses,     \* the warehouse-scoped channels
    Global,         \* GLOBAL_CHANNEL
    NoChannel,      \* a connection that was not made yet
    NoProcess,      \* likewise, the process it will reach
    NoClient,       \* no send is being awaited
    EventChannels,  \* the sets of channels its events concern (_channels_for)
    MaxEvents,      \* bound: domain events raised
    MaxFaults       \* bound: processes killed or stopped, subscriptions lost

ASSUME ProcessesAssumption == Worker \notin Processes /\ NoProcess \notin Processes \cup {Worker}
ASSUME ChannelsAssumption == Global \notin Warehouses /\ NoChannel \notin Warehouses \cup {Global}
ASSUME EventsAssumption == EventChannels \subseteq {{w, v} : w \in Warehouses, v \in Warehouses}
ASSUME ClientsAssumption == NoClient \notin Clients
ASSUME BoundsAssumption == MaxEvents \in Nat /\ MaxFaults \in Nat

Channels == Warehouses \cup {Global}
Broadcasters == {"relay", "heartbeat"}

VARIABLES
    life,       \* of each process: "down", "up" or "stopping"
    relay,      \* its relay task: "none", "starting", "listening", "broken", "ended"
    inbox,      \* messages Redis sent to its subscription, as positions in bus
    bus,        \* what was published on BROADCAST_CHANNEL, in order
    outgoing,   \* handler calls that have not published yet
    raised,     \* number of domain events raised
    endpoint,   \* of each connection: "new", "accepted", "open" or "gone"
    home,       \* the process it was made to
    channel,    \* the channel it asked for
    link,       \* its transport: "up" or "down"
    subs,       \* _connections of each process, as (channel, connection) pairs
    job,        \* the broadcast each broadcaster of a process is awaiting
    sent,       \* history: messages handed to each connection
    faults      \* how much of MaxFaults is used up

processVars == <<life, relay, inbox>>
busVars == <<bus, outgoing, raised>>
clientVars == <<endpoint, home, channel, link>>
vars == <<life, relay, inbox, bus, outgoing, raised, endpoint, home, channel,
          link, subs, job, sent, faults>>

Idle == [about |-> 0, channels |-> {}, targets |-> {}, current |-> NoClient, stale |-> {}]
AllIdle == [b \in Broadcasters |-> Idle]
Busy(p, b) == job[p][b].current # NoClient

\* register_websocket_listeners runs when app.tasks.celery_app is imported,
\* which the API process does too (services/alert.py imports the email task),
\* and once more in app.main; subscribe() keeps both handlers.
Listeners(p) == {"celery_app"} \cup (IF p \in Processes THEN {"main"} ELSE {})

Init ==
    /\ life = [p \in Processes |-> "down"]
    /\ relay = [p \in Processes |-> "none"]
    /\ inbox = [p \in Processes |-> <<>>]
    /\ bus = <<>> /\ outgoing = {} /\ raised = 0
    /\ endpoint = [c \in Clients |-> "new"]
    /\ home = [c \in Clients |-> NoProcess]
    /\ channel = [c \in Clients |-> NoChannel]
    /\ link = [c \in Clients |-> "up"]
    /\ subs = [p \in Processes |-> {}]
    /\ job = [p \in Processes |-> AllIdle]
    /\ sent = [c \in Clients |-> <<>>]
    /\ faults = 0

-----------------------------------------------------------------------------
(* The lifespan of a process. *)

\* Startup: the relay task is created and the scheduler started.
Start(p) ==
    /\ life[p] = "down"
    /\ life' = [life EXCEPT ![p] = "up"]
    /\ relay' = [relay EXCEPT ![p] = "starting"]
    /\ UNCHANGED <<inbox, busVars, clientVars, subs, job, sent, faults>>

\* The server closes its WebSockets and lets requests finish before it runs the
\* lifespan's exit.
Stop(p) ==
    /\ life[p] = "up" /\ faults < MaxFaults
    /\ life' = [life EXCEPT ![p] = "stopping"]
    /\ link' = [c \in Clients |-> IF home[c] = p THEN "down" ELSE link[c]]
    /\ faults' = faults + 1
    /\ UNCHANGED <<relay, inbox, busVars, endpoint, home, channel, subs, job, sent>>

\* stop_scheduler abandons a heartbeat; the relay task is cancelled wherever it
\* awaits, and its subscription released.
Exit(p) ==
    /\ life[p] = "stopping"
    /\ \A c \in Clients : home[c] = p => endpoint[c] = "gone"
    /\ \A o \in outgoing : o.by # p
    /\ life' = [life EXCEPT ![p] = "down"]
    /\ relay' = [relay EXCEPT ![p] = "none"]
    /\ inbox' = [inbox EXCEPT ![p] = <<>>]
    /\ job' = [job EXCEPT ![p] = AllIdle]
    /\ UNCHANGED <<busVars, clientVars, subs, sent, faults>>

\* The process is killed, and everything it kept in memory with it.
Crash(p) ==
    /\ life[p] # "down" /\ faults < MaxFaults
    /\ life' = [life EXCEPT ![p] = "down"]
    /\ relay' = [relay EXCEPT ![p] = "none"]
    /\ inbox' = [inbox EXCEPT ![p] = <<>>]
    /\ outgoing' = {o \in outgoing : o.by # p}
    /\ endpoint' = [c \in Clients |-> IF home[c] = p THEN "gone" ELSE endpoint[c]]
    /\ link' = [c \in Clients |-> IF home[c] = p THEN "down" ELSE link[c]]
    /\ subs' = [subs EXCEPT ![p] = {}]
    /\ job' = [job EXCEPT ![p] = AllIdle]
    /\ faults' = faults + 1
    /\ UNCHANGED <<bus, raised, home, channel, sent>>

-----------------------------------------------------------------------------
(* Publishing. *)

\* InProcessEventPublisher.publish gathers the handlers of the event's type.
\* A transfer concerns two warehouses, every other event one (_channels_for).
Raise(p, channels) ==
    /\ p \in Processes => life[p] = "up"
    /\ raised < MaxEvents
    /\ raised' = raised + 1
    /\ outgoing' = outgoing \cup
          {[event |-> raised + 1, channels |-> channels, by |-> p, handler |-> l] :
               l \in Listeners(p)}
    /\ UNCHANGED <<processVars, bus, clientVars, subs, job, sent, faults>>

\* RedisBroadcaster.publish, on a connection of its own: the concurrent calls
\* reach Redis in any order, and only present subscribers get the message.
Publish(o) ==
    /\ o \in outgoing
    /\ outgoing' = outgoing \ {o}
    /\ bus' = Append(bus, [event |-> o.event, channels |-> o.channels])
    /\ inbox' = [p \in Processes |->
                    IF relay[p] = "listening" THEN Append(inbox[p], Len(bus) + 1)
                    ELSE inbox[p]]
    /\ UNCHANGED <<life, relay, raised, clientVars, subs, job, sent, faults>>

\* Redis refuses: publish() logs the handler's exception and goes on.
PublishFails(o) ==
    /\ o \in outgoing /\ faults < MaxFaults
    /\ outgoing' = outgoing \ {o}
    /\ faults' = faults + 1
    /\ UNCHANGED <<processVars, bus, raised, clientVars, subs, job, sent>>

-----------------------------------------------------------------------------
(* ConnectionManager.broadcast, by the relay or by the heartbeat. *)

\* Mutant: whatever channel a connection asked for.
SubscribedToAny(p, channels) == {c \in Clients : \E ch \in Channels : <<ch, c>> \in subs[p]}

\* A broadcast of message i (0 is the heartbeat): its targets are a union.
Subscribed(p, channels) == {c \in Clients : \E ch \in channels : <<ch, c>> \in subs[p]}
Broadcast(p, i, channels) ==
    LET all == channels \cup {Global}
    IN  [about |-> i, channels |-> all, targets |-> Subscribed(p, all),
         current |-> NoClient, stale |-> {}]

\* Mutant: a send that fails ends the broadcast.
ContinueToFailure(p, b, j) ==
    \/ /\ j.stale = {}
       /\ \E c \in j.targets :
             job' = [job EXCEPT ![p][b] =
                        [j EXCEPT !.current = c, !.targets = @ \ {c}]]
       /\ UNCHANGED subs
    \/ /\ (j.targets = {} \/ j.stale # {})
       /\ job' = [job EXCEPT ![p][b] = Idle]
       /\ subs' = [subs EXCEPT ![p] = @ \ (j.channels \X j.stale)]

\* Up to the next await: the send to another target, in the order of a set, or,
\* after the last one, the stale ones leave every channel of this broadcast.
Continue(p, b, j) ==
    \/ /\ \E c \in j.targets :
             job' = [job EXCEPT ![p][b] =
                        [j EXCEPT !.current = c, !.targets = @ \ {c}]]
       /\ UNCHANGED subs
    \/ /\ j.targets = {}
       /\ job' = [job EXCEPT ![p][b] = Idle]
       /\ subs' = [subs EXCEPT ![p] = @ \ (j.channels \X j.stale)]

\* The awaited send returns: the transport took the message.
SendReturns(p, b) ==
    /\ Busy(p, b)
    /\ LET j == job[p][b]
       IN  /\ endpoint[j.current] = "open" /\ link[j.current] = "up"
           /\ sent' = IF b = "relay"
                      THEN [sent EXCEPT ![j.current] = Append(@, j.about)] ELSE sent
           /\ Continue(p, b, j)
    /\ UNCHANGED <<processVars, busVars, clientVars, faults>>

\* It raises, for the connection is closed.
SendRaises(p, b) ==
    /\ Busy(p, b)
    /\ LET j == job[p][b]
       IN  /\ endpoint[j.current] = "gone" \/ link[j.current] = "down"
           /\ Continue(p, b, [j EXCEPT !.stale = @ \cup {j.current}])
    /\ UNCHANGED <<processVars, busVars, clientVars, sent, faults>>

-----------------------------------------------------------------------------
(* relay_to_local_clients. *)

Subscribe(p) ==
    /\ relay[p] = "starting"
    /\ relay' = [relay EXCEPT ![p] = "listening"]
    /\ UNCHANGED <<life, inbox, busVars, clientVars, subs, job, sent, faults>>

SubscribeFails(p) ==
    /\ relay[p] = "starting" /\ faults < MaxFaults
    /\ relay' = [relay EXCEPT ![p] = "ended"]
    /\ faults' = faults + 1
    /\ UNCHANGED <<life, inbox, busVars, clientVars, subs, job, sent>>

\* Redis or the network drops the subscription's connection...
LoseSubscription(p) ==
    /\ relay[p] = "listening" /\ faults < MaxFaults
    /\ relay' = [relay EXCEPT ![p] = "broken"]
    /\ faults' = faults + 1
    /\ UNCHANGED <<life, inbox, busVars, clientVars, subs, job, sent>>

\* ... listen() raises when it gets to it, which ends the loop: only what
\* happens to one message is caught, and nothing starts the task again.
RelayEnds(p) ==
    /\ relay[p] = "broken" /\ ~Busy(p, "relay")
    /\ relay' = [relay EXCEPT ![p] = "ended"]
    /\ inbox' = [inbox EXCEPT ![p] = <<>>]
    /\ UNCHANGED <<life, busVars, clientVars, subs, job, sent, faults>>

\* Mutants: the newest message first; a message that stays in the inbox.
RelayNewest(p) ==
    /\ relay[p] \in {"listening", "broken"} /\ ~Busy(p, "relay")
    /\ inbox[p] # <<>>
    /\ LET last == Len(inbox[p])
           i == inbox[p][last]
       IN  /\ inbox' = [inbox EXCEPT ![p] = SubSeq(@, 1, last - 1)]
           /\ Continue(p, "relay", Broadcast(p, i, bus[i].channels))
    /\ UNCHANGED <<life, relay, busVars, clientVars, sent, faults>>

RelayAgain(p) ==
    /\ relay[p] \in {"listening", "broken"} /\ ~Busy(p, "relay")
    /\ inbox[p] # <<>>
    /\ LET i == Head(inbox[p])
       IN  Continue(p, "relay", Broadcast(p, i, bus[i].channels))
    /\ UNCHANGED <<processVars, busVars, clientVars, sent, faults>>

\* The next message, broadcast to who is registered now.
Relay(p) ==
    /\ relay[p] \in {"listening", "broken"} /\ ~Busy(p, "relay")
    /\ inbox[p] # <<>>
    /\ inbox' = [inbox EXCEPT ![p] = Tail(@)]
    /\ LET i == Head(inbox[p])
       IN  Continue(p, "relay", Broadcast(p, i, bus[i].channels))
    /\ UNCHANGED <<life, relay, busVars, clientVars, sent, faults>>

\* _broadcast_heartbeat, every 30 seconds and one at a time.
Heartbeat(p) ==
    /\ life[p] # "down" /\ ~Busy(p, "heartbeat")
    /\ Continue(p, "heartbeat", Broadcast(p, 0, {}))
    /\ UNCHANGED <<processVars, busVars, clientVars, sent, faults>>

-----------------------------------------------------------------------------
(* The /ws endpoint and the transport under it. *)

\* `await websocket.accept()`...
Accept(c, p, ch) ==
    /\ endpoint[c] = "new" /\ life[p] = "up"
    /\ endpoint' = [endpoint EXCEPT ![c] = "accepted"]
    /\ home' = [home EXCEPT ![c] = p]
    /\ channel' = [channel EXCEPT ![c] = ch]
    /\ UNCHANGED <<processVars, busVars, link, subs, job, sent, faults>>

\* ... raises when the client has left: connect() is outside the try...
AcceptRaises(c) ==
    /\ endpoint[c] = "accepted" /\ link[c] = "down"
    /\ endpoint' = [endpoint EXCEPT ![c] = "gone"]
    /\ UNCHANGED <<processVars, busVars, home, channel, link, subs, job, sent, faults>>

\* Mutant: _connections keyed the wrong way round.
RegisterSwapped(c) ==
    /\ endpoint[c] = "accepted"
    /\ endpoint' = [endpoint EXCEPT ![c] = "open"]
    /\ subs' = [subs EXCEPT ![home[c]] = @ \cup {<<c, channel[c]>>}]
    /\ UNCHANGED <<processVars, busVars, home, channel, link, job, sent, faults>>

\* ... and else the connection is registered under its channel.
Register(c) ==
    /\ endpoint[c] = "accepted"
    /\ endpoint' = [endpoint EXCEPT ![c] = "open"]
    /\ subs' = [subs EXCEPT ![home[c]] = @ \cup {<<channel[c], c>>}]
    /\ UNCHANGED <<processVars, busVars, home, channel, link, job, sent, faults>>

\* Mutant: disconnect() falls back to its default channel.
DisconnectGlobal(c) ==
    /\ endpoint[c] = "open"
    /\ endpoint' = [endpoint EXCEPT ![c] = "gone"]
    /\ link' = [link EXCEPT ![c] = "down"]
    /\ subs' = [subs EXCEPT ![home[c]] = @ \ {<<Global, c>>}]
    /\ UNCHANGED <<processVars, busVars, home, channel, job, sent, faults>>

\* receive_text raises WebSocketDisconnect, or a KeyError for a frame that is
\* not text; disconnect() runs in the finally.
Disconnect(c) ==
    /\ endpoint[c] = "open"
    /\ endpoint' = [endpoint EXCEPT ![c] = "gone"]
    /\ link' = [link EXCEPT ![c] = "down"]
    /\ subs' = [subs EXCEPT ![home[c]] = @ \ {<<channel[c], c>>}]
    /\ UNCHANGED <<processVars, busVars, home, channel, job, sent, faults>>

Leave(c) == link[c] = "down" /\ Disconnect(c)
BadFrame(c) == link[c] = "up" /\ Disconnect(c)

\* The client closes, or it does not answer the server's pings.
Drop(c) ==
    /\ endpoint[c] \in {"accepted", "open"} /\ link[c] = "up"
    /\ link' = [link EXCEPT ![c] = "down"]
    /\ UNCHANGED <<processVars, busVars, endpoint, home, channel, subs, job, sent, faults>>

-----------------------------------------------------------------------------
Next ==
    \/ \E p \in Processes :
          \/ Start(p) \/ Stop(p) \/ Exit(p) \/ Crash(p)
          \/ Subscribe(p) \/ SubscribeFails(p) \/ LoseSubscription(p) \/ RelayEnds(p)
          \/ Relay(p) \/ Heartbeat(p)
    \/ \E p \in Processes, b \in Broadcasters :
          SendReturns(p, b) \/ SendRaises(p, b)
    \/ \E p \in Processes \cup {Worker}, chs \in EventChannels : Raise(p, chs)
    \/ \E o \in outgoing : Publish(o) \/ PublishFails(o)
    \/ \E c \in Clients, p \in Processes, ch \in Channels : Accept(c, p, ch)
    \/ \E c \in Clients :
          AcceptRaises(c) \/ Register(c) \/ Leave(c) \/ BadFrame(c) \/ Drop(c)

Spec == Init /\ [][Next]_vars

\* The event loop runs what is ready.  A send to a client that has stopped
\* reading waits for it, and everything behind it in the broadcast; it returns
\* when the client reads again or raises when the server's ping times out.
Fairness ==
    /\ \A p \in Processes : WF_vars(Subscribe(p)) /\ WF_vars(Relay(p)) /\ WF_vars(Exit(p))
    /\ \A p \in Processes, b \in Broadcasters :
          WF_vars(SendReturns(p, b)) /\ WF_vars(SendRaises(p, b))
    /\ \A c \in Clients : WF_vars(Register(c)) /\ WF_vars(Leave(c))

FairSpec == Spec /\ Fairness

-----------------------------------------------------------------------------
(* Properties. *)

Registered(c) == \E p \in Processes, ch \in Channels : <<ch, c>> \in subs[p]

Job ==
    [about : Nat, channels : SUBSET Channels, targets : SUBSET Clients,
     current : Clients \cup {NoClient}, stale : SUBSET Clients]
Outgoing ==
    [event : Nat, channels : SUBSET Warehouses, by : Processes \cup {Worker},
     handler : {"celery_app", "main"}]

\* The values every variable of the fan-out takes; _connections holds pairs of a
\* channel and a connection.
TypeOK ==
    /\ life \in [Processes -> {"down", "up", "stopping"}]
    /\ relay \in [Processes -> {"none", "starting", "listening", "broken", "ended"}]
    /\ bus \in Seq([event : Nat, channels : SUBSET Warehouses])
    /\ inbox \in [Processes -> Seq(Nat)]
    /\ outgoing \subseteq Outgoing /\ raised \in Nat /\ faults \in Nat
    /\ endpoint \in [Clients -> {"new", "accepted", "open", "gone"}]
    /\ home \in [Clients -> Processes \cup {NoProcess}]
    /\ channel \in [Clients -> Channels \cup {NoChannel}]
    /\ link \in [Clients -> {"up", "down"}]
    /\ subs \in [Processes -> SUBSET (Channels \X Clients)]
    /\ job \in [Processes -> [Broadcasters -> Job]]
    /\ sent \in [Clients -> Seq(Nat)]

\* ConnectionManager neither leaks nor deafens: a registered connection is open,
\* at its own process and under its own channel, and an open one is registered
\* as long as its transport is alive, whatever concurrent broadcasts pruned.
RegistryExact ==
    /\ \A p \in Processes : \A s \in subs[p] :
          home[s[2]] = p /\ channel[s[2]] = s[1] /\ endpoint[s[2]] = "open"
    /\ \A c \in Clients :
          endpoint[c] = "open" /\ link[c] = "up" => <<channel[c], c>> \in subs[home[c]]

\* Every client sees the publications in the order Redis took them, none twice,
\* although several processes relay and connections come and go.
InBusOrder ==
    \A c \in Clients : \A j, k \in DOMAIN sent[c] : j < k => sent[c][j] < sent[c][k]

\* "Clients that only care about one warehouse can subscribe to that warehouse's
\* channel": a message a client is handed concerns its warehouse.  That none is
\* kept from it either is Delivered.
OwnChannelOnly ==
    \A c \in Clients : \A k \in DOMAIN sent[c] :
        channel[c] \in bus[sent[c][k]].channels \cup {Global}

Awaits(p, c, i) ==
    /\ life[p] = "up" /\ relay[p] = "listening"
    /\ home[c] = p /\ Registered(c)
    /\ \E k \in DOMAIN inbox[p] : inbox[p][k] = i
    /\ channel[c] \in bus[i].channels \cup {Global}

\* "A broadcast published by any one process is delivered by all of them": by
\* each that keeps its subscription, to each client that stays, however slow
\* the other clients of the process are.
Delivered ==
    \A p \in Processes, c \in Clients, i \in 1 .. 2 * MaxEvents :
        Awaits(p, c, i) ~> \/ \E k \in DOMAIN sent[c] : sent[c][k] = i
                           \/ link[c] = "down" \/ relay[p] # "listening"

\* A connection that has died is unregistered at last.
Unregistered == \A c \in Clients : link[c] = "down" ~> ~Registered(c)

\* The order, the scoping and the gaps, as the abstract feed has them.
Feed == INSTANCE OrderedFeed WITH
    Readers <- Clients, Topics <- Channels, NoTopic <- NoChannel, Everything <- Global,
    published <- [i \in DOMAIN bus |-> bus[i].channels], topic <- channel, received <- sent
FeedSpec == Feed!Spec

\* "Global subscribers always receive the message exactly once"
\* (app/websockets/manager.py): no event reaches a client twice.
EventOnce ==
    \A c \in Clients : \A j, k \in DOMAIN sent[c] :
        bus[sent[c][j]].event = bus[sent[c][k]].event => j = k
=============================================================================
