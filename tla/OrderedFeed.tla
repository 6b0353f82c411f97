---------------------------- MODULE OrderedFeed ----------------------------
(***************************************************************************)
(* What a WebSocket client is promised of the broadcasts, abstractly: it is *)
(* handed publications of its own channel, in the order Redis took them,   *)
(* each publication at most once, and possibly with gaps (pub/sub keeps    *)
(* nothing for a subscriber that is away).  FanOut implements it.          *)
(***************************************************************************)
EXTENDS Naturals, Sequences

CONSTANTS
    Readers,        \* the clients
    Topics,         \* the channels there are
    NoTopic,        \* a client that has not connected yet
    Everything      \* the channel that is concerned by every publication

VARIABLES
    published,      \* sets of channels, in publication order
    topic,          \* the channel each client connected with
    received        \* positions in published, in the order of receipt

feedVars == <<published, topic, received>>

Concerns(i, t) == t \in published[i] \cup {Everything}

Init ==
    /\ published = <<>>
    /\ topic = [r \in Readers |-> NoTopic]
    /\ received = [r \in Readers |-> <<>>]

Publish(channels) ==
    /\ published' = Append(published, channels)
    /\ UNCHANGED <<topic, received>>

Follow(r, t) ==
    /\ topic[r] = NoTopic
    /\ topic' = [topic EXCEPT ![r] = t]
    /\ UNCHANGED <<published, received>>

Receive(r, i) ==
    /\ topic[r] # NoTopic /\ Concerns(i, topic[r])
    /\ \A k \in DOMAIN received[r] : received[r][k] < i
    /\ received' = [received EXCEPT ![r] = Append(@, i)]
    /\ UNCHANGED <<published, topic>>

Next ==
    \/ \E channels \in SUBSET Topics : Publish(channels)
    \/ \E r \in Readers, t \in Topics : Follow(r, t)
    \/ \E r \in Readers : \E i \in DOMAIN published : Receive(r, i)

Spec == Init /\ [][Next]_feedVars
=============================================================================
