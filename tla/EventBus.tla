------------------------------ MODULE EventBus ------------------------------
(***************************************************************************)
(* The event bus: server/src/bus/zenoh_bus.rs and bus/topics.rs.           *)
(*                                                                         *)
(* publish() is four accesses to shared state with other tasks in between: *)
(* the dedup ring, the Lamport clock, the sequence counter of the source   *)
(* and the topic's channel.  A channel is tokio's broadcast ring: send     *)
(* never waits, a receiver that falls more than the capacity behind is     *)
(* moved forward and told how much it missed.  The ring is modelled by the *)
(* whole history of its topic and the capacity; only the last Capacity[t]  *)
(* entries can still be read.                                              *)
(*                                                                         *)
(* Abstracted: payloads, event ids, wall clocks, the Zenoh session (opened *)
(* and never used to carry an event) and the shared-memory switch.         *)
(***************************************************************************)
EXTENDS Integers, FiniteSets, SequencesExt

CONSTANTS Publishers,     \* tasks that call publish()
          Subscribers,    \* tasks that hold a receiver for some topics
          Topics,
          Capacity,       \* Capacity[t]: the ring size of topic t
          Sources,        \* EventSource
          Keys, NoKey,    \* dedup keys, and None
          DedupCapacity,  \* DedupTracker::new(1000)
          MaxEvents,      \* bound: publishes that pass the dedup check, per run
          MaxRestarts     \* bound: restarts of the server

ASSUME BusAssumption ==
    /\ IsFiniteSet(Publishers) /\ IsFiniteSet(Topics)
    /\ Capacity \in [Topics -> Nat \ {0}]
    /\ NoKey \notin Keys
    /\ DedupCapacity \in Nat \ {0}
    /\ MaxEvents \in Nat /\ MaxRestarts \in Nat

VARIABLES
    clock,        \* LamportClock
    sequences,    \* per-source counters; 0 stands for "no counter yet"
    dedup_keys,   \* DedupTracker.keys, oldest first
    publisher,    \* each task's progress through publish()
    log,          \* per topic, everything ever sent
    cursor,       \* per subscriber and topic: next position to read, 0: no receiver
    epoch         \* which run of the server this is

busVars == <<clock, sequences, dedup_keys, publisher, log, cursor, epoch>>

(* The envelope as far as ordering goes.  The last three fields are not in *)
(* the code: the run it was published in, the highest timestamp that was   *)
(* already out when its publish began (a possible cause), and its place    *)
(* among the keyed events of the run.                                      *)
Event == [source : Sources, key : Keys \cup {NoKey}, logical_ts : Nat, sequence : Nat,
          epoch : Nat, after : Nat, nth : Nat]

Idle == [at |-> "idle"]
Ready == [at : {"tick", "sequence", "send"}, topic : Topics, event : Event]

Busy == {p \in Publishers : publisher[p] # Idle}

(* Events out on some channel, and events between tick and send.           *)
Sent == UNION {ToSet(log[t]) : t \in Topics}
InFlight(places) ==
    {publisher[p].event : p \in {q \in Busy : publisher[q].at \in places}}
Ours(events) == {e \in events : e.epoch = epoch}

LastSent == Max({0} \cup {e.logical_ts : e \in Ours(Sent)})
Keyed == Cardinality({e \in Ours(Sent \cup InFlight({"tick", "sequence", "send"})) : e.key # NoKey})

Init ==
    /\ clock = 0
    /\ sequences = [s \in Sources |-> 0]
    /\ dedup_keys = <<>>
    /\ publisher = [p \in Publishers |-> Idle]
    /\ log = [t \in Topics |-> <<>>]
    /\ cursor = [s \in Subscribers |-> [t \in Topics |-> 0]]
    /\ epoch = 0

-----------------------------------------------------------------------------
(* Mutant: a full ring takes no more keys.                                 *)
Remember_WhileRoom(keys, k) ==
    IF Len(keys) >= DedupCapacity THEN keys ELSE Append(keys, k)

(* DedupTracker::record of a key that is not in the ring.                  *)
Remember(keys, k) ==
    Append(IF Len(keys) >= DedupCapacity THEN Tail(keys) ELSE keys, k)

(* publish() of an event whose key, if any, is new; a known key makes it   *)
(* return at once without any effect.                                      *)
Publish(p, t, src, k) ==
    /\ publisher[p] = Idle
    /\ Cardinality(Sent) + Cardinality(Busy) < MaxEvents
    /\ k \notin ToSet(dedup_keys)
    /\ dedup_keys' = IF k = NoKey THEN dedup_keys ELSE Remember(dedup_keys, k)
    /\ publisher' = [publisher EXCEPT ![p] =
           [at |-> "tick", topic |-> t,
            event |-> [source |-> src, key |-> k, logical_ts |-> 0, sequence |-> 0,
                       epoch |-> epoch, after |-> LastSent,
                       nth |-> IF k = NoKey THEN 0 ELSE Keyed + 1]]]
    /\ UNCHANGED <<clock, sequences, log, cursor, epoch>>

(* Mutant: the timestamp is LamportClock::current(), without a tick.       *)
Tick_Current(p) ==
    /\ publisher[p].at = "tick"
    /\ publisher' = [publisher EXCEPT ![p].at = "sequence", ![p].event.logical_ts = clock]
    /\ UNCHANGED <<clock, sequences, dedup_keys, log, cursor, epoch>>

(* LamportClock::tick                                                      *)
Tick(p) ==
    /\ publisher[p].at = "tick"
    /\ clock' = clock + 1
    /\ publisher' = [publisher EXCEPT ![p].at = "sequence", ![p].event.logical_ts = clock + 1]
    /\ UNCHANGED <<sequences, dedup_keys, log, cursor, epoch>>

(* Mutant: the fast path returns the old value of the counter.             *)
NextSequence_Old(p) ==
    /\ publisher[p].at = "sequence"
    /\ LET src == publisher[p].event.source IN
       /\ sequences' = [sequences EXCEPT ![src] = @ + 1]
       /\ publisher' = [publisher EXCEPT ![p].at = "send",
              ![p].event.sequence = IF sequences[src] = 0 THEN 1 ELSE sequences[src]]
    /\ UNCHANGED <<clock, dedup_keys, log, cursor, epoch>>

(* next_sequence                                                           *)
NextSequence(p) ==
    /\ publisher[p].at = "sequence"
    /\ LET src == publisher[p].event.source IN
       /\ sequences' = [sequences EXCEPT ![src] = @ + 1]
       /\ publisher' = [publisher EXCEPT ![p].at = "send", ![p].event.sequence = sequences[src] + 1]
    /\ UNCHANGED <<clock, dedup_keys, log, cursor, epoch>>

(* broadcast::Sender::send.  It returns at once, whatever the policy of    *)
(* the topic: drop_policy is stored and never read.                        *)
Send(p) ==
    /\ publisher[p].at = "send"
    /\ log' = [log EXCEPT ![publisher[p].topic] = Append(@, publisher[p].event)]
    /\ publisher' = [publisher EXCEPT ![p] = Idle]
    /\ UNCHANGED <<clock, sequences, dedup_keys, cursor, epoch>>

-----------------------------------------------------------------------------
(* Receivers (tokio's broadcast channel).                                  *)

Oldest(t) == Max({1, Len(log[t]) - Capacity[t] + 1})
Lagging(s, t) == cursor[s][t] # 0 /\ cursor[s][t] < Oldest(t)
Readable(s, t) == cursor[s][t] # 0 /\ ~Lagging(s, t) /\ cursor[s][t] <= Len(log[t])
NextEvent(s, t) == log[t][cursor[s][t]]

(* subscribe(): a receiver sees what is sent from now on.                  *)
Subscribe(s, t) ==
    /\ cursor[s][t] = 0
    /\ cursor' = [cursor EXCEPT ![s][t] = Len(log[t]) + 1]
    /\ UNCHANGED <<clock, sequences, dedup_keys, publisher, log, epoch>>

Receive(s, t) ==
    /\ Readable(s, t)
    /\ cursor' = [cursor EXCEPT ![s][t] = @ + 1]
    /\ UNCHANGED <<clock, sequences, dedup_keys, publisher, log, epoch>>

(* RecvError::Lagged: every receiver in the code goes on with the oldest   *)
(* event that is left.                                                     *)
Lag(s, t) ==
    /\ Lagging(s, t)
    /\ cursor' = [cursor EXCEPT ![s][t] = Oldest(t)]
    /\ UNCHANGED <<clock, sequences, dedup_keys, publisher, log, epoch>>

(* The server stops and starts: LamportClock::new() and the counters begin *)
(* at zero again, nothing of the bus is persisted.                         *)
Restart ==
    /\ epoch < MaxRestarts
    /\ epoch' = epoch + 1
    /\ clock' = 0
    /\ sequences' = [s \in Sources |-> 0]
    /\ dedup_keys' = <<>>
    /\ publisher' = [p \in Publishers |-> Idle]
    /\ cursor' = [s \in Subscribers |-> [t \in Topics |-> 0]]
    /\ UNCHANGED log

PublisherStep(p) == Tick(p) \/ NextSequence(p) \/ Send(p)

Next ==
    \/ \E p \in Publishers :
          \/ \E t \in Topics, src \in Sources, k \in Keys \cup {NoKey} : Publish(p, t, src, k)
          \/ PublisherStep(p)
    \/ \E s \in Subscribers, t \in Topics : Subscribe(s, t) \/ Receive(s, t) \/ Lag(s, t)
    \/ Restart

Spec == Init /\ [][Next]_busVars
-----------------------------------------------------------------------------
(* Type invariant.                                                         *)
BusTypeOK ==
    /\ clock \in Nat /\ epoch \in Nat
    /\ sequences \in [Sources -> Nat]
    /\ dedup_keys \in Seq(Keys) /\ Len(dedup_keys) <= DedupCapacity
    /\ publisher \in [Publishers -> {Idle} \cup Ready]
    /\ log \in [Topics -> Seq(Event)]
    /\ cursor \in [Subscribers -> [Topics -> Nat]]

(* The timestamps of a run order all its events totally, across sources    *)
(* and topics: no two events, sent or still on their way, share one        *)
(* (evidence-loop-details.md:31).                                          *)
TotalOrder ==
    /\ \A t, u \in Topics : \A i \in DOMAIN log[t], j \in DOMAIN log[u] :
          /\ log[t][i].logical_ts = log[u][j].logical_ts
          /\ log[t][i].epoch = log[u][j].epoch
          => <<t, i>> = <<u, j>>
    /\ \A p \in Busy : publisher[p].at # "tick" =>
          publisher[p].event.logical_ts \notin {e.logical_ts : e \in Ours(Sent)}

(* Whatever was out before a publish began has a smaller timestamp, so an  *)
(* effect sorts after its cause although tick and send are separate steps  *)
(* (evidence-loop-details.md:34).                                          *)
CausalOrder == \A e \in Sent : e.after < e.logical_ts

(* The evidence of a run can be replayed in the order of its timestamps.   *)
EventsAreOrdered == TotalOrder /\ CausalOrder

(* The sequence numbers of a source are used without gap or repetition:    *)
(* each number handed out belongs to exactly one event of the run that is  *)
(* sent or on its way.                                                     *)
SequencesAreComplete ==
    \A src \in Sources :
        LET mine == {e \in Ours(Sent \cup InFlight({"send"})) : e.source = src}
        IN  /\ {e.sequence : e \in mine} = 1 .. sequences[src]
            /\ Cardinality(mine) = sequences[src]

(* An event with the key of an earlier one gets through only after         *)
(* DedupCapacity other keys, also when the two are published concurrently. *)
EchoesAreSuppressed ==
    \A e, f \in Sent :
        /\ e.key = f.key /\ e.key # NoKey /\ e.epoch = f.epoch /\ e.nth < f.nth
        => f.nth - e.nth > DedupCapacity

=============================================================================
