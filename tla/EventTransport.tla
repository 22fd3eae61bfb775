--------------------------- MODULE EventTransport ---------------------------
(***************************************************************************)
(* From the bus to the browser: server/src/transport/webtransport.rs.      *)
(*                                                                         *)
(* A connection subscribes to every topic, one forwarder task per topic    *)
(* moves events into a bounded channel, and one loop writes them to the    *)
(* client.  A background task does the same into the replay buffer, whose  *)
(* content a new connection receives first.  EventBus supplies the         *)
(* channels; its subscribers are the connections and that writer.          *)
(*                                                                         *)
(* Abstracted: encoding and compression, the QUIC handshake, and the       *)
(* estimation of the round-trip time behind the quality tier, which        *)
(* AdaptiveQuality models.                                                 *)
(***************************************************************************)
EXTENDS EventBus

CONSTANTS Clients, Writer,
          CriticalTopics,   \* what should_send lets through in the Critical tier
          QueueCapacity,    \* the mpsc channel of a connection (1000)
          RecentCapacity    \* REPLAY_BUFFER_CAPACITY (1000)

ASSUME TransportAssumption ==
    /\ Writer \notin Clients /\ Subscribers = Clients \cup {Writer}
    /\ CriticalTopics \subseteq Topics
    /\ QueueCapacity \in Nat \ {0} /\ RecentCapacity \in Nat \ {0}

VARIABLES
    hand,        \* the event each forwarder task holds, as a sequence of at most one
    conn,        \* where each client's connection stands
    tier,        \* its quality tier: whether it is Critical
    queue,       \* the mpsc channel of each connection and of the writer
    recent,      \* RecentEventBuffer, oldest first
    delivered,   \* what was written to the client on this connection
    replayed,    \* how much of that was the replay
    joined,      \* where the receivers of each connection and of the writer began
    excused      \* events a connection lagged behind on or filtered out

transportVars == <<hand, conn, tier, queue, recent, delivered, replayed, joined, excused>>
vars == <<busVars, transportVars>>

Item(t, e) == [topic |-> t, event |-> e]
Nowhere == [t \in Topics |-> 0]
Connected(c) == \A t \in Topics : cursor[c][t] # 0

ShouldSend(c, t) == tier[c] = "critical" => t \in CriticalTopics

TransportInit ==
    /\ Init
    /\ conn = [c \in Clients |-> "offline"]
    /\ tier = [c \in Clients |-> "full"]
    /\ queue = [s \in Subscribers |-> <<>>]
    /\ hand = [s \in Subscribers |-> [t \in Topics |-> <<>>]]
    /\ recent = <<>>
    /\ delivered = [c \in Clients |-> <<>>]
    /\ replayed = [c \in Clients |-> 0]
    /\ joined = [s \in Subscribers |-> Nowhere]
    /\ excused = [c \in Clients |-> {}]

-----------------------------------------------------------------------------
(* The writer of the replay buffer.                                        *)
StartWriter(t) ==
    /\ Subscribe(Writer, t)
    /\ joined' = [joined EXCEPT ![Writer][t] = Len(log[t]) + 1]
    /\ UNCHANGED <<hand, conn, tier, queue, recent, delivered, replayed, excused>>

(* RecentEventBuffer::push                                                 *)
Remembered(buffer, item) ==
    Append(IF Len(buffer) >= RecentCapacity THEN Tail(buffer) ELSE buffer, item)

BufferEvent ==
    /\ queue[Writer] # <<>>
    /\ recent' = Remembered(recent, Head(queue[Writer]))
    /\ queue' = [queue EXCEPT ![Writer] = Tail(@)]
    /\ UNCHANGED <<busVars, hand, conn, tier, delivered, replayed, joined, excused>>

(* A forwarder task takes an event from its receiver and then waits, the   *)
(* event in hand, for room in the channel; the receiver may lag meanwhile. *)
Take(s, t) ==
    /\ hand[s][t] = <<>>
    /\ Receive(s, t)
    /\ hand' = [hand EXCEPT ![s][t] = <<Item(t, NextEvent(s, t))>>]
    /\ UNCHANGED <<conn, tier, queue, recent, delivered, replayed, joined, excused>>

Enqueue(s, t) == queue' = [queue EXCEPT ![s] = @ \o hand[s][t]]

(* Mutant: try_send, so that an event that finds the channel full is lost. *)
Offer_TrySend(s, t) ==
    /\ hand[s][t] # <<>>
    /\ IF Len(queue[s]) < QueueCapacity THEN Enqueue(s, t) ELSE UNCHANGED queue
    /\ hand' = [hand EXCEPT ![s][t] = <<>>]
    /\ UNCHANGED <<busVars, conn, tier, recent, delivered, replayed, joined, excused>>

Offer(s, t) ==
    /\ hand[s][t] # <<>>
    /\ Len(queue[s]) < QueueCapacity
    /\ Enqueue(s, t)
    /\ hand' = [hand EXCEPT ![s][t] = <<>>]
    /\ UNCHANGED <<busVars, conn, tier, recent, delivered, replayed, joined, excused>>

(* Mutant: a forwarder that lagged ends.                                   *)
SkipMissed_Ends(s, t) ==
    /\ hand[s][t] = <<>> /\ Lagging(s, t)
    /\ cursor' = [cursor EXCEPT ![s][t] = 0]
    /\ UNCHANGED <<clock, sequences, dedup_keys, publisher, log, epoch, transportVars>>

(* The receiver is told it lagged; the forwarder logs it and goes on.      *)
SkipMissed(s, t) ==
    /\ hand[s][t] = <<>>
    /\ Lag(s, t)
    /\ excused' = IF s = Writer THEN excused
                  ELSE [excused EXCEPT ![s] = @ \cup
                           {Item(t, log[t][i]) : i \in cursor[s][t] .. Oldest(t) - 1}]
    /\ UNCHANGED <<hand, conn, tier, queue, recent, delivered, replayed, joined>>

-----------------------------------------------------------------------------
(* handle_connection                                                       *)

Connect(c) ==
    /\ conn[c] = "offline"
    /\ conn' = [conn EXCEPT ![c] = "subscribing"]
    /\ tier' = [tier EXCEPT ![c] = "full"]
    /\ UNCHANGED <<busVars, hand, queue, recent, delivered, replayed, joined, excused>>

SubscribeTopic(c, t) ==
    /\ conn[c] = "subscribing"
    /\ Subscribe(c, t)
    /\ joined' = [joined EXCEPT ![c][t] = Len(log[t]) + 1]
    /\ UNCHANGED <<hand, conn, tier, queue, recent, delivered, replayed, excused>>

(* The replay: the buffer is copied under its lock and written before any  *)
(* live event.  No round-trip time has been measured yet, so its filter    *)
(* lets everything through.                                                *)
Replay(c) ==
    /\ conn[c] = "subscribing" /\ Connected(c)
    /\ conn' = [conn EXCEPT ![c] = "open"]
    /\ delivered' = [delivered EXCEPT ![c] = recent]
    /\ replayed' = [replayed EXCEPT ![c] = Len(recent)]
    /\ UNCHANGED <<busVars, hand, tier, queue, recent, joined, excused>>

(* The delivery loop takes the next event, or drops it in the Critical     *)
(* tier.                                                                   *)
Deliver(c) ==
    /\ conn[c] = "open" /\ queue[c] # <<>>
    /\ queue' = [queue EXCEPT ![c] = Tail(@)]
    /\ LET item == Head(queue[c]) IN
       IF ShouldSend(c, item.topic)
       THEN delivered' = [delivered EXCEPT ![c] = Append(@, item)] /\ UNCHANGED excused
       ELSE excused' = [excused EXCEPT ![c] = @ \cup {item}] /\ UNCHANGED delivered
    /\ UNCHANGED <<busVars, hand, conn, tier, recent, replayed, joined>>

(* The 100 ms tick measures the round-trip time and may change the tier.   *)
UpdateTier(c) ==
    /\ conn[c] = "open"
    /\ \E q \in {"full", "critical"} : tier' = [tier EXCEPT ![c] = q]
    /\ UNCHANGED <<busVars, hand, conn, queue, recent, delivered, replayed, joined, excused>>

(* The connection closes or a write fails; its receivers and its channel   *)
(* go with it.                                                             *)
Disconnect(c) ==
    /\ conn[c] # "offline"
    /\ conn' = [conn EXCEPT ![c] = "offline"]
    /\ cursor' = [cursor EXCEPT ![c] = Nowhere]
    /\ queue' = [queue EXCEPT ![c] = <<>>]
    /\ hand' = [hand EXCEPT ![c] = [t \in Topics |-> <<>>]]
    /\ delivered' = [delivered EXCEPT ![c] = <<>>]
    /\ replayed' = [replayed EXCEPT ![c] = 0]
    /\ joined' = [joined EXCEPT ![c] = Nowhere]
    /\ excused' = [excused EXCEPT ![c] = {}]
    /\ UNCHANGED <<clock, sequences, dedup_keys, publisher, log, epoch, tier, recent>>

-----------------------------------------------------------------------------
Publishing(p) ==
    /\ \/ \E t \in Topics, src \in Sources : Publish(p, t, src, NoKey)
       \/ PublisherStep(p)
    /\ UNCHANGED transportVars

(* What the server's own tasks do for a connection, or for the writer.     *)
Forwarder(s) == \E t \in Topics : Take(s, t) \/ Offer(s, t) \/ SkipMissed(s, t)
Handler(c) == (\E t \in Topics : SubscribeTopic(c, t)) \/ Replay(c) \/ Deliver(c)

TransportNext ==
    \/ \E p \in Publishers : Publishing(p)
    \/ \E s \in Subscribers : Forwarder(s)
    \/ (\E t \in Topics : StartWriter(t)) \/ BufferEvent
    \/ \E c \in Clients : Connect(c) \/ Handler(c) \/ UpdateTier(c) \/ Disconnect(c)

TransportSpec == TransportInit /\ [][TransportNext]_vars

(* Every task that can run is polled in the end, and the channel grants    *)
(* room in the order in which its senders wait, so no forwarder starves:   *)
(* strong fairness of Offer.  Nobody owes a publication, a connection or a *)
(* tier.                                                                   *)
TransportFairness ==
    /\ \A s \in Subscribers, t \in Topics : WF_vars(Take(s, t) \/ SkipMissed(s, t)) /\ SF_vars(Offer(s, t))
    /\ \A c \in Clients : WF_vars(Handler(c))
    /\ WF_vars(BufferEvent)

FairTransportSpec == TransportSpec /\ TransportFairness
-----------------------------------------------------------------------------
Items == [topic : Topics, event : Event]

TransportTypeOK ==
    /\ conn \in [Clients -> {"offline", "subscribing", "open"}]
    /\ tier \in [Clients -> {"full", "critical"}]
    /\ queue \in [Subscribers -> Seq(Items)]
    /\ hand \in [Subscribers -> [Topics -> Seq(Items)]]
    /\ \A s \in Subscribers : Len(queue[s]) <= QueueCapacity /\ \A t \in Topics : Len(hand[s][t]) <= 1
    /\ recent \in Seq(Items) /\ Len(recent) <= RecentCapacity
    /\ delivered \in [Clients -> Seq(Items)]
    /\ replayed \in [Clients -> Nat] /\ \A c \in Clients : replayed[c] <= Len(delivered[c])
    /\ joined \in [Subscribers -> [Topics -> Nat]]
    /\ excused \in [Clients -> SUBSET Items]

Live(c) == SubSeq(delivered[c], replayed[c] + 1, Len(delivered[c]))

(* A connection loses no event silently: whatever its receivers have taken *)
(* from the bus was written to the client, waits in its channel or in a    *)
(* forwarder's hand, or was given up for a reason the code knows of (lag,  *)
(* Critical tier).                                                         *)
NoSilentLoss ==
    \A c \in Clients, t \in Topics :
        \A i \in joined[c][t] .. cursor[c][t] - 1 :
            i > 0 => Item(t, log[t][i]) \in
                         ToSet(delivered[c]) \cup ToSet(queue[c]) \cup ToSet(hand[c][t]) \cup excused[c]

(* Per topic, the live events reach the client in the order of the bus and *)
(* none of them twice; only the replay can repeat one.                     *)
LiveInOrder ==
    \A c \in Clients : \A i, j \in DOMAIN Live(c) :
        LET a == Live(c)[i]
            b == Live(c)[j]
            Position(item) == CHOOSE n \in DOMAIN log[item.topic] : log[item.topic][n] = item.event
        IN  i < j /\ a.topic = b.topic => Position(a) < Position(b)

(* Both together: what a connection is to a client that keeps up.          *)
LiveDelivery == NoSilentLoss /\ LiveInOrder

(* An event on a critical topic that is sent while a connection listens    *)
(* reaches the client, unless the connection closes or lags behind.        *)
CriticalEventsArrive ==
    \A c \in Clients, t \in CriticalTopics : \A i \in 1 .. MaxEvents :
        /\ joined[c][t] # 0 /\ i >= joined[c][t] /\ i <= Len(log[t])
        ~> \/ conn[c] = "offline" \/ joined[c][t] > i
           \/ i <= Len(log[t]) /\ Item(t, log[t][i]) \in ToSet(delivered[c]) \cup excused[c]

=============================================================================
