---------------------------- MODULE Events_proofs ---------------------------
(***************************************************************************)
(* Proofs about the events of the server, for any number of publishers,    *)
(* sources, topics, clients and restarts, any capacities and any schedule: *)
(* what they are when they are published (EventBus), and how they reach the*)
(* clients (EventTransport).                                               *)
(***************************************************************************)
EXTENDS EventTransport, FiniteSetTheorems, SequenceTheorems, WellFoundedInduction, TLAPS

-----------------------------------------------------------------------------
(***************************************************************************)
(* Proofs about EventBus for any number of publishers, sources, topics and *)
(* restarts.                                                               *)
(*                                                                         *)
(* EventsAreOrdered speaks about what was sent, the code hands timestamps  *)
(* out before: IInv extends the order to the publishers that hold one, and *)
(* bounds every timestamp of the run by the clock.  A publish begins after *)
(* everything in LastSent, which the clock bounds, so its later tick is    *)
(* greater.                                                                *)
(***************************************************************************)

Stamped(p) == p \in Busy /\ publisher[p].at # "tick"

(* Nothing is from a run that has not begun, and a task is of this run.    *)
EpochsArePast ==
    /\ \A e \in Sent : e.epoch <= epoch
    /\ \A p \in Busy : publisher[p].event.epoch = epoch

(* The clock bounds the timestamps of this run ...                         *)
BelowClock ==
    /\ \A e \in Ours(Sent) : e.logical_ts <= clock
    /\ \A p \in Busy : publisher[p].event.after <= clock
    /\ \A p \in Publishers : Stamped(p) => publisher[p].event.logical_ts <= clock

(* ... and the tasks that hold one are ordered among themselves and after  *)
(* their causes.                                                           *)
HeldAreOrdered ==
    /\ \A p \in Publishers : Stamped(p) =>
          publisher[p].event.after < publisher[p].event.logical_ts
    /\ \A p, q \in Publishers : Stamped(p) /\ Stamped(q) /\ p # q =>
          publisher[p].event.logical_ts # publisher[q].event.logical_ts

(* What of this run has its sequence number.                               *)
Numbered == Ours(Sent \cup InFlight({"send"}))

IInv == BusTypeOK /\ EventsAreOrdered /\ EpochsArePast /\ BelowClock /\ HeldAreOrdered

-----------------------------------------------------------------------------
(* A bounded, non-empty set of numbers has a maximum.                      *)
LEMMA MaxOfBounded ==
    ASSUME NEW b \in Nat, NEW S \in SUBSET (0 .. b), S # {}
    PROVE  Max(S) \in S /\ \A x \in S : x <= Max(S)
<1> DEFINE T == {b - x : x \in S}
<1>1. T \subseteq Nat /\ T # {}
  <2>1. \A x \in S : b - x \in Nat
    OBVIOUS
  <2> QED BY <2>1
<1>2. PICK m \in T : \A y \in T : ~ (<<y, m>> \in OpToRel(<, Nat))
  <2> HIDE DEF T
  <2> QED BY <1>1, NatLessThanWellFounded, WFMin
<1>3. \A y \in T : m <= y
  <2> HIDE DEF T
  <2>1. ASSUME NEW i \in Nat, NEW j \in Nat, i < j
        PROVE  <<i, j>> \in OpToRel(<, Nat)
    BY <2>1, Zenon DEF OpToRel
  <2>2. \A y \in T : ~ (y < m)
    BY <1>1, <1>2, <2>1, Zenon
  <2> QED BY <1>1, <2>2
<1>4. PICK x \in S : m = b - x
  BY <1>2
<1>5. \A y \in S : y <= x
  BY <1>3, <1>4
<1> QED BY <1>5 DEF Max

(* The events in a sequence, in all channels, and on their way are finite  *)
(* sets, so Keyed is a number.                                             *)
LEMMA SequencesAreFinite ==
    ASSUME NEW D, NEW s \in Seq(D)
    PROVE  IsFiniteSet(ToSet(s))
<1>1. IsFiniteSet(1 .. Len(s))
  BY FS_Interval
<1>2. s \in Surjection(1 .. Len(s), ToSet(s))
  BY DEF Surjection, ToSet
<1> QED BY <1>1, <1>2, FS_Surjection

LEMMA EventsAreFinite ==
    ASSUME BusTypeOK
    PROVE  IsFiniteSet(Sent \cup InFlight({"tick", "sequence", "send"}))
<1> USE BusAssumption DEF BusAssumption
<1>1. IsFiniteSet(Sent)
  <2> DEFINE f == [t \in Topics |-> ToSet(log[t])]
             Channels == {ToSet(log[t]) : t \in Topics}
  <2>1. f \in Surjection(Topics, Channels)
    BY DEF Surjection
  <2>2. IsFiniteSet(Channels)
    BY <2>1, FS_Surjection
  <2>3. \A C \in Channels : IsFiniteSet(C)
    BY SequencesAreFinite DEF BusTypeOK
  <2> QED BY <2>2, <2>3, FS_UNION DEF Sent
<1>2. IsFiniteSet(InFlight({"tick", "sequence", "send"}))
  <2> DEFINE Senders == {q \in Busy : publisher[q].at \in {"tick", "sequence", "send"}}
             f == [p \in Senders |-> publisher[p].event]
             Events == InFlight({"tick", "sequence", "send"})
  <2>1. f \in Surjection(Senders, Events)
    BY DEF Surjection, InFlight
  <2>2. IsFiniteSet(Senders)
    BY FS_Subset DEF Busy
  <2> QED BY <2>1, <2>2, FS_Surjection
<1> QED BY <1>1, <1>2, FS_Union

LEMMA KeyedIsNat ==
    ASSUME BusTypeOK
    PROVE  Keyed \in Nat
BY EventsAreFinite, FS_Subset, FS_CardinalityType DEF Keyed, Ours

-----------------------------------------------------------------------------
(* A task is idle or carries an event; its position says which.            *)
LEMMA BusyIsReady ==
    ASSUME BusTypeOK, NEW p \in Publishers
    PROVE  /\ p \in Busy <=> publisher[p] \in Ready
           /\ p \notin Busy <=> publisher[p] = Idle
           /\ p \in Busy <=> publisher[p].at # "idle"
<1>1. publisher[p] \in {Idle} \cup Ready
  BY DEF BusTypeOK
<1>2. \A r \in Ready : r.at \in {"tick", "sequence", "send"}
  BY DEF Ready
<1>3. Idle.at = "idle"
  BY DEF Idle
<1>4. Idle \notin Ready
  BY <1>2, <1>3
<1> QED BY <1>1, <1>2, <1>3, <1>4 DEF Busy

LEMMA SentIsLogged ==
    ASSUME BusTypeOK
    PROVE  /\ \A t \in Topics : \A i \in DOMAIN log[t] : log[t][i] \in Sent /\ log[t][i] \in Event
           /\ \A e \in Sent : e \in Event /\ \E t \in Topics : \E i \in DOMAIN log[t] : e = log[t][i]
<1>1. \A t \in Topics : log[t] \in Seq(Event)
  BY DEF BusTypeOK
<1>2. \A t \in Topics : \A i \in DOMAIN log[t] : log[t][i] \in Event
  BY <1>1
<1> QED BY <1>2 DEF Sent, ToSet

(* The clock bounds what was sent last.                                    *)
LEMMA LastSentIsPast ==
    ASSUME BusTypeOK, EpochsArePast, BelowClock
    PROVE  LastSent \in 0 .. clock
<1> DEFINE S == {0} \cup {e.logical_ts : e \in Ours(Sent)}
<1>1. clock \in Nat
  BY DEF BusTypeOK
<1>2. \A e \in Ours(Sent) : e.logical_ts \in 0 .. clock
  BY <1>1, SentIsLogged DEF BelowClock, Ours, Event
<1>3. S \in SUBSET (0 .. clock) /\ S # {}
  BY <1>1, <1>2
<1> QED BY <1>1, <1>3, MaxOfBounded DEF LastSent

(* Keys enter the ring at its end and never exceed it.                     *)
LEMMA RememberTyped ==
    ASSUME NEW keys \in Seq(Keys), Len(keys) <= DedupCapacity, NEW k \in Keys
    PROVE  Remember(keys, k) \in Seq(Keys) /\ Len(Remember(keys, k)) <= DedupCapacity
BY BusAssumption DEF BusAssumption, Remember

LEMMA OldestIsNat ==
    ASSUME BusTypeOK, NEW t \in Topics
    PROVE  Oldest(t) \in Nat
<1>1. Len(log[t]) \in Nat /\ Capacity[t] \in Nat
  BY BusAssumption DEF BusTypeOK, BusAssumption
<1>2. PICK n \in Int : n = Len(log[t]) - Capacity[t] + 1
  BY <1>1
<1>3. \E x \in {1, n} : \A y \in {1, n} : x >= y
  BY <1>2
<1>4. Max({1, n}) \in {1, n} /\ Max({1, n}) >= 1
  BY <1>3 DEF Max
<1> QED BY <1>2, <1>4 DEF Oldest

LEMMA InitIInv == Init => IInv
<1> SUFFICES ASSUME Init PROVE IInv
  OBVIOUS
<1>1. BusTypeOK
  BY BusAssumption DEF Init, BusTypeOK, BusAssumption
<1>2. Busy = {} /\ Sent = {}
  BY DEF Init, Busy, Sent, ToSet
<1>3. EventsAreOrdered
  BY <1>2 DEF Init, EventsAreOrdered, TotalOrder, CausalOrder
<1>4. EpochsArePast /\ BelowClock /\ HeldAreOrdered
  BY <1>2 DEF EpochsArePast, BelowClock, HeldAreOrdered, Stamped, Ours
<1> QED BY <1>1, <1>3, <1>4 DEF IInv

-----------------------------------------------------------------------------
(* One task moves on to r; the others stay where they are.                 *)
LEMMA OneMoves ==
    ASSUME BusTypeOK, NEW p \in Publishers, NEW r \in Ready,
           publisher' = [publisher EXCEPT ![p] = r]
    PROVE  /\ publisher' \in [Publishers -> {Idle} \cup Ready]
           /\ publisher'[p] = r
           /\ \A q \in Publishers \ {p} : publisher'[q] = publisher[q]
           /\ Busy' = Busy \cup {p}
           /\ Stamped(p)' <=> r.at # "tick"
           /\ \A q \in Publishers \ {p} : Stamped(q)' <=> Stamped(q)
<1>1. /\ publisher' \in [Publishers -> {Idle} \cup Ready]
      /\ publisher'[p] = r
      /\ \A q \in Publishers \ {p} : publisher'[q] = publisher[q]
  BY DEF BusTypeOK
<1>2. r # Idle
  BY DEF Ready, Idle
<1>3. Busy' = Busy \cup {p}
  BY <1>1, <1>2 DEF Busy
<1> QED BY <1>1, <1>3 DEF Stamped

(* A step that leaves the channels and the run alone leaves what was sent. *)
LEMMA SentStays ==
    ASSUME UNCHANGED <<log, epoch>>
    PROVE  Sent' = Sent /\ Ours(Sent)' = Ours(Sent)
BY DEF Sent, Ours

LEMMA PublishStep ==
    ASSUME IInv, NEW p \in Publishers, NEW t \in Topics, NEW src \in Sources,
           NEW k \in Keys \cup {NoKey}, Publish(p, t, src, k)
    PROVE  IInv'
<1> DEFINE e == [source |-> src, key |-> k, logical_ts |-> 0, sequence |-> 0,
                 epoch |-> epoch, after |-> LastSent,
                 nth |-> IF k = NoKey THEN 0 ELSE Keyed + 1]
           r == [at |-> "tick", topic |-> t, event |-> e]
<1>1. BusTypeOK /\ EventsAreOrdered /\ EpochsArePast /\ BelowClock /\ HeldAreOrdered
  BY DEF IInv
<1>2. /\ LastSent \in Nat /\ LastSent <= clock
  BY <1>1, LastSentIsPast DEF BusTypeOK
<1>3. e \in Event
  <2>1. Keyed \in Nat /\ epoch \in Nat
    BY <1>1, KeyedIsNat DEF BusTypeOK
  <2> QED BY <1>2, <2>1 DEF Event
<1>4. r \in Ready /\ r.at = "tick" /\ r.event.after = LastSent /\ r.event.epoch = epoch
  BY <1>3 DEF Ready
<1>5. publisher' = [publisher EXCEPT ![p] = r] /\ UNCHANGED <<clock, sequences, log, cursor, epoch>>
  BY DEF Publish
<1>6. dedup_keys' \in Seq(Keys) /\ Len(dedup_keys') <= DedupCapacity
  BY <1>1, RememberTyped DEF Publish, BusTypeOK
<1> HIDE DEF e, r
<1>7. /\ publisher' \in [Publishers -> {Idle} \cup Ready]
      /\ publisher'[p] = r
      /\ \A q \in Publishers \ {p} : publisher'[q] = publisher[q]
      /\ Busy' = Busy \cup {p}
      /\ ~ Stamped(p)'
      /\ \A q \in Publishers \ {p} : Stamped(q)' <=> Stamped(q)
  BY <1>1, <1>4, <1>5, OneMoves
<1>8. Sent' = Sent /\ Ours(Sent)' = Ours(Sent)
  BY <1>5, SentStays
<1>9. BusTypeOK'
  BY <1>1, <1>5, <1>6, <1>7 DEF BusTypeOK
<1>10. EventsAreOrdered'
  <2>1. CausalOrder'
    BY <1>1, <1>8 DEF EventsAreOrdered, CausalOrder
  <2>2. \A q \in Busy' : publisher'[q].at # "tick" => q \in Busy /\ q # p
    BY <1>4, <1>7
  <2>3. TotalOrder'
    BY <1>1, <1>5, <1>7, <1>8, <2>2 DEF EventsAreOrdered, TotalOrder, Busy
  <2> QED BY <2>1, <2>3 DEF EventsAreOrdered
<1>11. EpochsArePast'
  BY <1>1, <1>4, <1>5, <1>7, <1>8 DEF EpochsArePast, Busy
<1>12. BelowClock'
  BY <1>1, <1>2, <1>4, <1>5, <1>7, <1>8 DEF BelowClock, Busy
<1>13. HeldAreOrdered'
  BY <1>1, <1>7 DEF HeldAreOrdered
<1> QED BY <1>9, <1>10, <1>11, <1>12, <1>13 DEF IInv

LEMMA TickStep ==
    ASSUME IInv, NEW p \in Publishers, Tick(p)
    PROVE  IInv'
<1> DEFINE r == [publisher[p] EXCEPT !.at = "sequence", !.event.logical_ts = clock + 1]
<1>1. BusTypeOK /\ EventsAreOrdered /\ EpochsArePast /\ BelowClock /\ HeldAreOrdered
  BY DEF IInv
<1>2. p \in Busy /\ publisher[p] \in Ready /\ publisher[p].at = "tick"
  BY <1>1, BusyIsReady DEF Tick
<1>3. clock \in Nat /\ clock' = clock + 1 /\ UNCHANGED <<sequences, dedup_keys, log, cursor, epoch>>
  BY <1>1 DEF Tick, BusTypeOK
<1>4. /\ r \in Ready /\ r.at = "sequence" /\ r.event.logical_ts = clock + 1
      /\ r.event.after = publisher[p].event.after /\ r.event.epoch = publisher[p].event.epoch
  <2> DEFINE e == [publisher[p].event EXCEPT !.logical_ts = clock + 1]
  <2>1. publisher[p].event \in Event
    BY <1>2 DEF Ready
  <2>2. /\ e \in Event /\ e.logical_ts = clock + 1
        /\ e.after = publisher[p].event.after /\ e.epoch = publisher[p].event.epoch
    BY <1>3, <2>1 DEF Event
  <2>3. r = [publisher[p] EXCEPT !.at = "sequence", !.event = e]
    BY <1>2 DEF Ready
  <2> HIDE DEF e, r
  <2> QED BY <1>2, <2>2, <2>3 DEF Ready
<1>5. publisher' = [publisher EXCEPT ![p] = r]
  BY <1>1, <1>2 DEF Tick, BusTypeOK
<1> HIDE DEF r
<1>6. /\ publisher' \in [Publishers -> {Idle} \cup Ready]
      /\ publisher'[p] = r
      /\ \A q \in Publishers \ {p} : publisher'[q] = publisher[q]
      /\ Busy' = Busy
      /\ Stamped(p)' /\ \A q \in Publishers \ {p} : Stamped(q)' <=> Stamped(q)
  <2>1. Busy \cup {p} = Busy
    BY <1>2
  <2> QED BY <1>1, <1>4, <1>5, <2>1, OneMoves
<1>7. Sent' = Sent /\ Ours(Sent)' = Ours(Sent)
  BY <1>3, SentStays
<1>8. BusTypeOK'
  BY <1>1, <1>3, <1>6 DEF BusTypeOK
<1>9. \A e \in Ours(Sent) : e.logical_ts \in Nat /\ e.logical_ts <= clock
  BY <1>1, SentIsLogged DEF BelowClock, Ours, Event
<1>10. \A q \in Busy : publisher[q].event.after \in Nat /\ publisher[q].event.logical_ts \in Nat
  <2>1. \A q \in Busy : q \in Publishers /\ publisher[q] \in Ready
    BY <1>1, BusyIsReady DEF Busy
  <2> QED BY <2>1 DEF Ready, Event
<1>11. EventsAreOrdered'
  <2>1. CausalOrder'
    BY <1>1, <1>7 DEF EventsAreOrdered, CausalOrder
  <2>2. ASSUME NEW q \in Busy, publisher'[q].at # "tick"
        PROVE  publisher'[q].event.logical_ts \notin {e.logical_ts : e \in Ours(Sent)}
    <3>1. CASE q = p
      BY <1>3, <1>4, <1>6, <1>9, <3>1
    <3>2. CASE q # p
      BY <1>1, <1>6, <2>2, <3>2 DEF EventsAreOrdered, TotalOrder, Busy
    <3> QED BY <3>1, <3>2
  <2>3. TotalOrder'
    BY <1>1, <1>3, <1>6, <1>7, <2>2 DEF EventsAreOrdered, TotalOrder
  <2> QED BY <2>1, <2>3 DEF EventsAreOrdered
<1>12. EpochsArePast'
  BY <1>1, <1>2, <1>3, <1>4, <1>6, <1>7 DEF EpochsArePast, Busy
<1>13. BelowClock'
  <2>1. \A e \in Ours(Sent)' : e.logical_ts <= clock'
    BY <1>3, <1>7, <1>9
  <2>2. \A q \in Busy' : publisher'[q].event.after <= clock'
    BY <1>1, <1>2, <1>3, <1>4, <1>6, <1>10 DEF BelowClock, Busy
  <2>3. \A q \in Publishers : Stamped(q)' => publisher'[q].event.logical_ts <= clock'
    BY <1>1, <1>3, <1>4, <1>6, <1>10 DEF BelowClock, Stamped
  <2> QED BY <2>1, <2>2, <2>3 DEF BelowClock
<1>14. HeldAreOrdered'
  <2>1. \A q \in Publishers : Stamped(q) => publisher[q].event.logical_ts \in 0 .. clock
    BY <1>1, <1>3, <1>10 DEF BelowClock, Stamped
  <2>2. publisher[p].event.after \in 0 .. clock
    BY <1>1, <1>2, <1>3, <1>10 DEF BelowClock
  <2> QED BY <1>1, <1>3, <1>4, <1>6, <2>1, <2>2 DEF HeldAreOrdered
<1> QED BY <1>8, <1>11, <1>12, <1>13, <1>14 DEF IInv

LEMMA NextSequenceStep ==
    ASSUME IInv, NEW p \in Publishers, NextSequence(p)
    PROVE  IInv'
<1> DEFINE src == publisher[p].event.source
           e == [publisher[p].event EXCEPT !.sequence = sequences[src] + 1]
           r == [publisher[p] EXCEPT !.at = "send", !.event = e]
<1>1. BusTypeOK /\ EventsAreOrdered /\ EpochsArePast /\ BelowClock /\ HeldAreOrdered
  BY DEF IInv
<1>2. p \in Busy /\ publisher[p] \in Ready /\ publisher[p].at = "sequence" /\ Stamped(p)
  BY <1>1, BusyIsReady DEF NextSequence, Stamped
<1>3. /\ UNCHANGED <<clock, dedup_keys, log, cursor, epoch>>
      /\ sequences' \in [Sources -> Nat] /\ sequences[src] + 1 \in Nat
  <2>1. src \in Sources
    BY <1>2 DEF Ready, Event
  <2> QED BY <1>1, <2>1 DEF NextSequence, BusTypeOK
<1>4. /\ r \in Ready /\ r.at = "send" /\ r.event.logical_ts = publisher[p].event.logical_ts
      /\ r.event.after = publisher[p].event.after /\ r.event.epoch = publisher[p].event.epoch
  <2>1. publisher[p].event \in Event
    BY <1>2 DEF Ready
  <2>2. /\ e \in Event /\ e.logical_ts = publisher[p].event.logical_ts
        /\ e.after = publisher[p].event.after /\ e.epoch = publisher[p].event.epoch
    BY <1>3, <2>1 DEF Event
  <2> HIDE DEF e
  <2> QED BY <1>2, <2>2 DEF Ready
<1>5. publisher' = [publisher EXCEPT ![p] = r]
  BY <1>1, <1>2 DEF NextSequence, BusTypeOK
<1> HIDE DEF src, e, r
<1>6. /\ publisher' \in [Publishers -> {Idle} \cup Ready]
      /\ publisher'[p] = r
      /\ \A q \in Publishers \ {p} : publisher'[q] = publisher[q]
      /\ Busy' = Busy
      /\ \A q \in Publishers : Stamped(q)' <=> Stamped(q)
  <2>1. Busy \cup {p} = Busy
    BY <1>2
  <2> QED BY <1>1, <1>2, <1>4, <1>5, <2>1, OneMoves
<1>7. Sent' = Sent /\ Ours(Sent)' = Ours(Sent)
  BY <1>3, SentStays
<1>8. BusTypeOK'
  BY <1>1, <1>3, <1>6 DEF BusTypeOK
<1>9. \A q \in Publishers :
          /\ publisher'[q].event.logical_ts = publisher[q].event.logical_ts
          /\ publisher'[q].event.after = publisher[q].event.after
          /\ publisher'[q].event.epoch = publisher[q].event.epoch
  BY <1>4, <1>6
<1>10. EventsAreOrdered'
  <2>1. CausalOrder'
    BY <1>1, <1>7 DEF EventsAreOrdered, CausalOrder
  <2>2. ASSUME NEW q \in Busy, publisher'[q].at # "tick"
        PROVE  publisher'[q].event.logical_ts \notin {f.logical_ts : f \in Ours(Sent)}
    <3>1. q \in Publishers /\ publisher[q].at # "tick"
      BY <1>2, <1>6, <2>2 DEF Busy, Stamped
    <3> QED BY <1>1, <1>9, <3>1 DEF EventsAreOrdered, TotalOrder
  <2>3. TotalOrder'
    BY <1>1, <1>3, <1>6, <1>7, <2>2 DEF EventsAreOrdered, TotalOrder
  <2> QED BY <2>1, <2>3 DEF EventsAreOrdered
<1>11. EpochsArePast'
  BY <1>1, <1>3, <1>6, <1>7, <1>9 DEF EpochsArePast, Busy
<1>12. BelowClock'
  BY <1>1, <1>3, <1>6, <1>7, <1>9 DEF BelowClock, Busy
<1>13. HeldAreOrdered'
  BY <1>1, <1>6, <1>9 DEF HeldAreOrdered
<1> QED BY <1>8, <1>10, <1>11, <1>12, <1>13 DEF IInv

(* A send moves the event of the task from its hand to its topic.          *)
LEMMA SendAdds ==
    ASSUME BusTypeOK, BusTypeOK', NEW p \in Publishers, Send(p), publisher[p] \in Ready
    PROVE  /\ Sent' = Sent \cup {publisher[p].event}
           /\ publisher[p].event.epoch = epoch =>
                  Ours(Sent)' = Ours(Sent) \cup {publisher[p].event}
<1> DEFINE e == publisher[p].event
           t0 == publisher[p].topic
           n == Len(log[t0]) + 1
<1>3. t0 \in Topics /\ e \in Event
  BY DEF Ready
<1>4. epoch' = epoch /\ log' = [log EXCEPT ![t0] = Append(@, e)]
  BY DEF Send
<1>5. /\ \A t \in Topics \ {t0} : log'[t] = log[t]
      /\ log'[t0] = Append(log[t0], e) /\ log[t0] \in Seq(Event)
      /\ DOMAIN log' = Topics
  BY <1>3, <1>4 DEF BusTypeOK
<1>6. /\ DOMAIN log'[t0] = DOMAIN log[t0] \cup {n} /\ n \notin DOMAIN log[t0]
      /\ log'[t0][n] = e
      /\ \A i \in DOMAIN log[t0] : log'[t0][i] = log[t0][i]
  BY <1>3, <1>5
<1> HIDE DEF e, t0, n
<1>9. Sent' = Sent \cup {e}
  <2>1. ASSUME NEW x \in Sent' PROVE x \in Sent \cup {e}
    <3>1. PICK t \in Topics : \E i \in DOMAIN log'[t] : x = log'[t][i]
      BY <2>1 DEF Sent, ToSet
    <3>2. PICK i \in DOMAIN log'[t] : x = log'[t][i]
      BY <3>1
    <3>3. CASE t = t0 /\ i = n
      BY <1>6, <3>2, <3>3
    <3>4. CASE ~ (t = t0 /\ i = n)
      <4>1. i \in DOMAIN log[t] /\ x = log[t][i]
        BY <1>5, <1>6, <3>2, <3>4
      <4> QED BY <4>1, SentIsLogged
    <3> QED BY <3>3, <3>4
  <2>2. ASSUME NEW x \in Sent PROVE x \in Sent'
    <3>1. PICK t \in Topics : \E i \in DOMAIN log[t] : x = log[t][i]
      BY SentIsLogged
    <3>2. PICK i \in DOMAIN log[t] : x = log[t][i]
      BY <3>1
    <3>3. i \in DOMAIN log'[t] /\ x = log'[t][i]
      BY <1>5, <1>6, <3>2
    <3> QED BY <3>3 DEF Sent, ToSet
  <2>3. e \in Sent'
    BY <1>3, <1>6 DEF Sent, ToSet
  <2> QED BY <2>1, <2>2, <2>3
<1> QED BY <1>4, <1>9 DEF Ours, e

LEMMA SendStep ==
    ASSUME IInv, NEW p \in Publishers, Send(p)
    PROVE  IInv'
<1> DEFINE e == publisher[p].event
           t0 == publisher[p].topic
           n == Len(log[t0]) + 1
<1>1. BusTypeOK /\ EventsAreOrdered /\ EpochsArePast /\ BelowClock /\ HeldAreOrdered
  BY DEF IInv
<1>2. p \in Busy /\ publisher[p] \in Ready /\ publisher[p].at = "send" /\ Stamped(p)
  BY <1>1, BusyIsReady DEF Send, Stamped
<1>3. t0 \in Topics /\ e \in Event /\ e.logical_ts \in Nat /\ e.epoch = epoch
  BY <1>1, <1>2 DEF Ready, Event, EpochsArePast
<1>4. /\ UNCHANGED <<clock, sequences, dedup_keys, cursor, epoch>>
      /\ publisher' = [publisher EXCEPT ![p] = Idle]
      /\ log' = [log EXCEPT ![t0] = Append(@, e)]
  BY DEF Send
<1>5. /\ log' \in [Topics -> Seq(Event)]
      /\ \A t \in Topics \ {t0} : log'[t] = log[t]
      /\ log'[t0] = Append(log[t0], e) /\ log[t0] \in Seq(Event)
  BY <1>1, <1>3, <1>4 DEF BusTypeOK
<1>6. /\ DOMAIN log'[t0] = DOMAIN log[t0] \cup {n} /\ n \notin DOMAIN log[t0]
      /\ log'[t0][n] = e
      /\ \A i \in DOMAIN log[t0] : log'[t0][i] = log[t0][i]
  BY <1>3, <1>5
<1>7. /\ publisher' \in [Publishers -> {Idle} \cup Ready]
      /\ publisher'[p] = Idle
      /\ \A q \in Publishers \ {p} : publisher'[q] = publisher[q]
      /\ Busy' = Busy \ {p}
      /\ \A q \in Publishers : Stamped(q)' <=> Stamped(q) /\ q # p
  <2>1. publisher' \in [Publishers -> {Idle} \cup Ready] /\ publisher'[p] = Idle
        /\ \A q \in Publishers \ {p} : publisher'[q] = publisher[q]
    BY <1>1, <1>4 DEF BusTypeOK
  <2>2. Busy' = Busy \ {p}
    BY <2>1 DEF Busy
  <2> QED BY <2>1, <2>2 DEF Stamped
<1> HIDE DEF e, t0, n
<1>8. BusTypeOK'
  BY <1>1, <1>4, <1>5, <1>7 DEF BusTypeOK
<1>9. Sent' = Sent \cup {e}
  BY <1>1, <1>2, <1>8, SendAdds DEF e
<1>10. Ours(Sent)' = Ours(Sent) \cup {e}
  BY <1>3, <1>4, <1>9 DEF Ours
<1>11. publisher[p].event = e
  BY DEF e
<1>12. \A x \in Ours(Sent) : x.logical_ts # e.logical_ts
  BY <1>1, <1>2, <1>11 DEF EventsAreOrdered, TotalOrder
<1>13. TotalOrder'
  <2>1. ASSUME NEW t \in Topics, NEW u \in Topics, NEW i \in DOMAIN log'[t], NEW j \in DOMAIN log'[u],
               log'[t][i].logical_ts = log'[u][j].logical_ts, log'[t][i].epoch = log'[u][j].epoch
        PROVE  <<t, i>> = <<u, j>>
    <3>1. ASSUME NEW v \in Topics, NEW k \in DOMAIN log'[v], ~ (v = t0 /\ k = n)
          PROVE  /\ k \in DOMAIN log[v] /\ log'[v][k] = log[v][k]
                 /\ log[v][k].epoch = epoch => log[v][k].logical_ts # e.logical_ts
      <4>1. k \in DOMAIN log[v] /\ log'[v][k] = log[v][k]
        BY <1>5, <1>6, <3>1
      <4>2. log[v][k] \in Sent
        BY <1>1, <4>1, SentIsLogged
      <4> QED BY <1>12, <4>1, <4>2 DEF Ours
    <3>2. CASE t = t0 /\ i = n /\ ~ (u = t0 /\ j = n)
      BY <1>3, <1>6, <2>1, <3>1, <3>2
    <3>3. CASE u = t0 /\ j = n /\ ~ (t = t0 /\ i = n)
      BY <1>3, <1>6, <2>1, <3>1, <3>3
    <3>4. CASE ~ (u = t0 /\ j = n) /\ ~ (t = t0 /\ i = n)
      <4>1. /\ i \in DOMAIN log[t] /\ log'[t][i] = log[t][i]
            /\ j \in DOMAIN log[u] /\ log'[u][j] = log[u][j]
        BY <3>1, <3>4
      <4> QED BY <1>1, <2>1, <4>1 DEF EventsAreOrdered, TotalOrder
    <3> QED BY <3>2, <3>3, <3>4
  <2>2. ASSUME NEW q \in Busy', publisher'[q].at # "tick"
        PROVE  publisher'[q].event.logical_ts \notin {x.logical_ts : x \in Ours(Sent)'}
    <3>1. q \in Publishers /\ q # p /\ publisher'[q] = publisher[q] /\ q \in Busy /\ Stamped(q)
      BY <1>7, <2>2 DEF Busy, Stamped
    <3>2. publisher[q].event.logical_ts \notin {x.logical_ts : x \in Ours(Sent)}
      BY <1>1, <2>2, <3>1 DEF EventsAreOrdered, TotalOrder
    <3>3. publisher[q].event.logical_ts # e.logical_ts
      BY <1>1, <1>2, <1>11, <3>1 DEF HeldAreOrdered
    <3> QED BY <1>10, <3>1, <3>2, <3>3
  <2> QED BY <2>1, <2>2 DEF TotalOrder
<1>14. CausalOrder'
  BY <1>1, <1>2, <1>9, <1>11 DEF EventsAreOrdered, CausalOrder, HeldAreOrdered
<1>15. EpochsArePast'
  <2>1. epoch \in Nat
    BY <1>1 DEF BusTypeOK
  <2> QED BY <1>1, <1>3, <1>4, <1>7, <1>9, <2>1 DEF EpochsArePast, Busy
<1>16. BelowClock'
  BY <1>1, <1>2, <1>4, <1>7, <1>10, <1>11 DEF BelowClock, Busy
<1>17. HeldAreOrdered'
  BY <1>1, <1>7 DEF HeldAreOrdered
<1> QED BY <1>8, <1>13, <1>14, <1>15, <1>16, <1>17 DEF IInv, EventsAreOrdered

(* The receivers do not touch what the order is about.                     *)
LEMMA ReceiverStep ==
    ASSUME IInv, NEW s \in Subscribers, NEW t \in Topics,
           Subscribe(s, t) \/ Receive(s, t) \/ Lag(s, t)
    PROVE  IInv'
<1>1. BusTypeOK /\ EventsAreOrdered /\ EpochsArePast /\ BelowClock /\ HeldAreOrdered
  BY DEF IInv
<1>2. UNCHANGED <<clock, sequences, dedup_keys, publisher, log, epoch>>
  BY DEF Subscribe, Receive, Lag
<1>3. BusTypeOK'
  <2>1. cursor[s][t] \in Nat /\ Len(log[t]) \in Nat /\ Oldest(t) \in Nat
    BY <1>1, OldestIsNat DEF BusTypeOK
  <2>2. \E n \in Nat : cursor' = [cursor EXCEPT ![s][t] = n]
    BY <2>1 DEF Subscribe, Receive, Lag
  <2>3. cursor' \in [Subscribers -> [Topics -> Nat]]
    BY <1>1, <2>2 DEF BusTypeOK
  <2> QED BY <1>1, <1>2, <2>3 DEF BusTypeOK
<1>4. Sent' = Sent /\ Ours(Sent)' = Ours(Sent) /\ Busy' = Busy
  BY <1>2 DEF Sent, Ours, Busy
<1>5. EventsAreOrdered'
  BY <1>1, <1>2, <1>4 DEF EventsAreOrdered, TotalOrder, CausalOrder
<1>6. EpochsArePast' /\ BelowClock' /\ HeldAreOrdered'
  BY <1>1, <1>2, <1>4 DEF EpochsArePast, BelowClock, HeldAreOrdered, Stamped
<1> QED BY <1>3, <1>5, <1>6 DEF IInv

(* A restart begins a run nothing belongs to yet.                          *)
LEMMA RestartForgets ==
    ASSUME BusTypeOK, EpochsArePast, Restart
    PROVE  Ours(Sent)' = {}
<1>1. Sent' = Sent /\ epoch \in Nat /\ epoch' = epoch + 1
  BY DEF Restart, Sent, BusTypeOK
<1>2. \A e \in Sent : e.epoch \in Nat /\ e.epoch <= epoch
  BY SentIsLogged DEF EpochsArePast, Event
<1> QED BY <1>1, <1>2 DEF Ours

LEMMA RestartStep ==
    ASSUME IInv, Restart
    PROVE  IInv'
<1>1. BusTypeOK /\ EventsAreOrdered /\ EpochsArePast
  BY DEF IInv
<1>2. Busy' = {} /\ Sent' = Sent /\ epoch \in Nat /\ epoch' = epoch + 1
  BY <1>1 DEF Restart, Busy, Sent, BusTypeOK
<1>3. \A e \in Sent : e.epoch \in Nat /\ e.epoch <= epoch
  BY <1>1, SentIsLogged DEF EpochsArePast, Event
<1>4. Ours(Sent)' = {}
  BY <1>1, RestartForgets
<1>5. BusTypeOK'
  BY <1>1, BusAssumption DEF Restart, BusTypeOK, BusAssumption
<1>6. EventsAreOrdered'
  BY <1>1, <1>2 DEF Restart, EventsAreOrdered, TotalOrder, CausalOrder
<1>7. EpochsArePast' /\ BelowClock' /\ HeldAreOrdered'
  BY <1>2, <1>3, <1>4 DEF EpochsArePast, BelowClock, HeldAreOrdered, Stamped
<1> QED BY <1>5, <1>6, <1>7 DEF IInv

LEMMA NextIInv == IInv /\ [Next]_busVars => IInv'
<1> SUFFICES ASSUME IInv, [Next]_busVars PROVE IInv'
  OBVIOUS
<1>1. ASSUME NEW p \in Publishers, NEW t \in Topics, NEW src \in Sources,
             NEW k \in Keys \cup {NoKey}, Publish(p, t, src, k)
      PROVE  IInv'
  BY <1>1, PublishStep
<1>2. ASSUME NEW p \in Publishers, PublisherStep(p)
      PROVE  IInv'
  BY <1>2, TickStep, NextSequenceStep, SendStep DEF PublisherStep
<1>3. ASSUME NEW s \in Subscribers, NEW t \in Topics,
             Subscribe(s, t) \/ Receive(s, t) \/ Lag(s, t)
      PROVE  IInv'
  BY <1>3, ReceiverStep
<1>4. CASE Restart
  BY <1>4, RestartStep
<1>5. CASE UNCHANGED busVars
  BY <1>5 DEF busVars, IInv, BusTypeOK, EventsAreOrdered, TotalOrder, CausalOrder, EpochsArePast,
              BelowClock, HeldAreOrdered, Stamped, Busy, Sent, Ours
<1> QED BY <1>1, <1>2, <1>3, <1>4, <1>5 DEF Next

(* The state of the bus keeps its types; the dedup ring never outgrows its *)
(* capacity (DedupTracker::record, zenoh_bus.rs).                          *)
THEOREM BusTypeCorrect == Spec => []BusTypeOK
<1>1. IInv => BusTypeOK
  BY DEF IInv
<1> QED BY <1>1, InitIInv, NextIInv, PTL DEF Spec

(* Any number of tasks may run publish() between each other's steps, and   *)
(* the server may restart: within a run the Lamport timestamps still name  *)
(* each event, and an effect is stamped after its cause.                   *)
THEOREM TimestampsOrderEvents == Spec => []EventsAreOrdered
<1>1. IInv => EventsAreOrdered
  BY DEF IInv
<1> QED BY <1>1, InitIInv, NextIInv, PTL DEF Spec

-----------------------------------------------------------------------------
(* The numbers: the sources' events change in next_sequence only.          *)
LEMMA NumberedStays ==
    ASSUME UNCHANGED sequences, Numbered' = Numbered, SequencesAreComplete
    PROVE  SequencesAreComplete'
BY DEF SequencesAreComplete, Numbered

LEMMA NumberedIsHeld ==
    ASSUME EpochsArePast, EpochsArePast'
    PROVE  /\ \A e : e \in Numbered <=>
                 \/ e \in Ours(Sent)
                 \/ \E q \in Publishers : publisher[q].at = "send" /\ e = publisher[q].event
           /\ \A e : e \in Numbered' <=>
                 \/ e \in Ours(Sent)'
                 \/ \E q \in Publishers : publisher'[q].at = "send" /\ e = publisher'[q].event
<1>1. /\ \A q \in Publishers : publisher[q].at = "send" => q \in Busy
      /\ \A q \in Publishers : publisher'[q].at = "send" => q \in Busy'
  BY DEF Busy, Idle
<1>2. /\ \A q \in Busy : q \in Publishers /\ publisher[q].event.epoch = epoch
      /\ \A q \in Busy' : q \in Publishers /\ publisher'[q].event.epoch = epoch'
  BY DEF EpochsArePast, Busy
<1> QED BY <1>1, <1>2 DEF Numbered, Ours, InFlight

LEMMA NextSequenceNumbers ==
    ASSUME IInv, IInv', SequencesAreComplete, NEW p \in Publishers, NextSequence(p)
    PROVE  SequencesAreComplete'
<1> DEFINE e == publisher'[p].event
           Mine(s) == {x \in Numbered : x.source = s}
<1>1. BusTypeOK /\ EpochsArePast /\ BusTypeOK' /\ EpochsArePast'
  BY DEF IInv
<1>2. publisher[p] \in Ready /\ publisher[p].at = "sequence"
  BY <1>1, BusyIsReady DEF NextSequence
<1>3. PICK src \in Sources : publisher[p].event.source = src /\ publisher[p].event \in Event
  BY <1>2 DEF Ready, Event
<1>4. /\ publisher'[p].at = "send" /\ e.source = src /\ e.sequence = sequences[src] + 1
      /\ \A q \in Publishers \ {p} : publisher'[q] = publisher[q]
      /\ sequences' = [sequences EXCEPT ![src] = @ + 1]
      /\ UNCHANGED <<log, epoch>>
  BY <1>1, <1>2, <1>3 DEF NextSequence, BusTypeOK, Ready, Event
<1>5. Ours(Sent)' = Ours(Sent)
  BY <1>4, SentStays
<1>6. \A s \in Sources : sequences[s] \in Nat
  BY <1>1 DEF BusTypeOK
<1>7. Numbered' = Numbered \cup {e}
  <2>1. \A x : x \in Numbered <=>
            \/ x \in Ours(Sent)
            \/ \E q \in Publishers : publisher[q].at = "send" /\ x = publisher[q].event
    BY <1>1, NumberedIsHeld
  <2>2. \A x : x \in Numbered' <=>
            \/ x \in Ours(Sent)'
            \/ \E q \in Publishers : publisher'[q].at = "send" /\ x = publisher'[q].event
    BY <1>1, NumberedIsHeld
  <2> QED BY <1>2, <1>4, <1>5, <2>1, <2>2
<1> HIDE DEF e
<1>8. \A s \in Sources : /\ {x.sequence : x \in Mine(s)} = 1 .. sequences[s]
                         /\ Cardinality(Mine(s)) = sequences[s]
  BY DEF SequencesAreComplete, Numbered
<1>9. \A s \in Sources : IsFiniteSet(Mine(s))
  <2>1. Numbered \subseteq Sent \cup InFlight({"tick", "sequence", "send"})
    BY DEF Numbered, Ours, InFlight
  <2> QED BY <1>1, <2>1, EventsAreFinite, FS_Subset
<1>10. ASSUME NEW s \in Sources, s # src
       PROVE  Mine(s)' = Mine(s) /\ sequences'[s] = sequences[s]
  <2>1. sequences'[s] = sequences[s]
    BY <1>1, <1>4, <1>10 DEF BusTypeOK
  <2>2. Mine(s)' = Mine(s)
    BY <1>4, <1>7, <1>10
  <2> QED BY <2>1, <2>2
<1>11. Mine(src)' = Mine(src) \cup {e} /\ sequences'[src] = sequences[src] + 1
  <2>1. sequences'[src] = sequences[src] + 1
    BY <1>1, <1>4 DEF BusTypeOK
  <2>2. Mine(src)' = Mine(src) \cup {e}
    BY <1>4, <1>7
  <2> QED BY <2>1, <2>2
<1>12. e \notin Mine(src)
  <2>1. e \in Mine(src) => e.sequence \in {x.sequence : x \in Mine(src)}
    OBVIOUS
  <2> HIDE DEF Mine
  <2> QED BY <1>3, <1>4, <1>6, <1>8, <2>1
<1>13. Cardinality(Mine(src) \cup {e}) = sequences[src] + 1
  <2> HIDE DEF Mine
  <2>1. IsFiniteSet(Mine(src)) /\ Cardinality(Mine(src)) = sequences[src]
    BY <1>8, <1>9
  <2>2. Cardinality(Mine(src) \cup {e}) =
            IF e \in Mine(src) THEN Cardinality(Mine(src)) ELSE Cardinality(Mine(src)) + 1
    BY <2>1, FS_AddElement
  <2> QED BY <1>12, <2>1, <2>2
<1>14. {x.sequence : x \in Mine(src) \cup {e}} = 1 .. sequences[src] + 1
  <2>1. {x.sequence : x \in Mine(src) \cup {e}} = {x.sequence : x \in Mine(src)} \cup {e.sequence}
    OBVIOUS
  <2>2. 1 .. sequences[src] + 1 = (1 .. sequences[src]) \cup {sequences[src] + 1}
    BY <1>3, <1>6
  <2> QED BY <1>3, <1>4, <1>8, <2>1, <2>2
<1>15. \A s \in Sources : /\ {x.sequence : x \in Mine(s)'} = 1 .. sequences'[s]
                          /\ Cardinality(Mine(s)') = sequences'[s]
  <2> HIDE DEF Mine
  <2> TAKE s \in Sources
  <2>1. CASE s = src
    BY <1>11, <1>13, <1>14, <2>1
  <2>2. CASE s # src
    BY <1>8, <1>10, <2>2
  <2> QED BY <2>1, <2>2
<1> QED BY <1>15 DEF SequencesAreComplete, Numbered

LEMMA NextNumbers == IInv /\ IInv' /\ SequencesAreComplete /\ [Next]_busVars => SequencesAreComplete'
<1> SUFFICES ASSUME IInv, IInv', SequencesAreComplete, [Next]_busVars
             PROVE  SequencesAreComplete'
  OBVIOUS
<1>1. BusTypeOK /\ EpochsArePast /\ BusTypeOK' /\ EpochsArePast'
  BY DEF IInv
<1>2. \A x : x \in Numbered <=>
          \/ x \in Ours(Sent)
          \/ \E q \in Publishers : publisher[q].at = "send" /\ x = publisher[q].event
  BY <1>1, NumberedIsHeld
<1>3. \A x : x \in Numbered' <=>
          \/ x \in Ours(Sent)'
          \/ \E q \in Publishers : publisher'[q].at = "send" /\ x = publisher'[q].event
  BY <1>1, NumberedIsHeld
<1>4. ASSUME NEW p \in Publishers, NEW t \in Topics, NEW src \in Sources,
             NEW k \in Keys \cup {NoKey}, Publish(p, t, src, k)
      PROVE  SequencesAreComplete'
  <2>1. /\ UNCHANGED <<sequences, log, epoch>>
        /\ publisher[p].at # "send" /\ publisher'[p].at # "send"
        /\ \A q \in Publishers \ {p} : publisher'[q] = publisher[q]
    BY <1>1, <1>4 DEF Publish, BusTypeOK, Idle
  <2>2. Numbered' = Numbered
    <3>1. Ours(Sent)' = Ours(Sent)
      BY <2>1, SentStays
    <3>2. \A x : x \in Numbered' <=> x \in Numbered
      BY <1>2, <1>3, <2>1, <3>1
    <3> QED BY <3>2
  <2> QED BY <2>1, <2>2, NumberedStays
<1>5. ASSUME NEW p \in Publishers, Tick(p) PROVE SequencesAreComplete'
  <2>1. publisher[p] \in Ready
    BY <1>1, <1>5, BusyIsReady DEF Tick
  <2>2. /\ UNCHANGED <<sequences, log, epoch>>
        /\ publisher[p].at # "send" /\ publisher'[p].at # "send"
        /\ \A q \in Publishers \ {p} : publisher'[q] = publisher[q]
    BY <1>1, <1>5, <2>1 DEF Tick, BusTypeOK, Ready
  <2>3. Numbered' = Numbered
    <3>1. Ours(Sent)' = Ours(Sent)
      BY <2>2, SentStays
    <3>2. \A x : x \in Numbered' <=> x \in Numbered
      BY <1>2, <1>3, <2>2, <3>1
    <3> QED BY <3>2
  <2> QED BY <2>2, <2>3, NumberedStays
<1>6. ASSUME NEW p \in Publishers, NextSequence(p) PROVE SequencesAreComplete'
  BY <1>6, NextSequenceNumbers
<1>7. ASSUME NEW p \in Publishers, Send(p) PROVE SequencesAreComplete'
  <2>1. p \in Busy /\ publisher[p] \in Ready /\ publisher[p].at = "send"
    BY <1>1, <1>7, BusyIsReady DEF Send
  <2>2. Ours(Sent)' = Ours(Sent) \cup {publisher[p].event}
    BY <1>1, <1>7, <2>1, SendAdds DEF EpochsArePast
  <2>3. /\ UNCHANGED sequences
        /\ publisher'[p].at # "send"
        /\ \A q \in Publishers \ {p} : publisher'[q] = publisher[q]
    BY <1>1, <1>7 DEF Send, BusTypeOK, Idle
  <2>4. Numbered' = Numbered
    <3>1. \A x : x \in Numbered' <=> x \in Numbered
      BY <1>2, <1>3, <2>1, <2>2, <2>3
    <3> QED BY <3>1
  <2> QED BY <2>3, <2>4, NumberedStays
<1>8. ASSUME NEW s \in Subscribers, NEW t \in Topics,
             Subscribe(s, t) \/ Receive(s, t) \/ Lag(s, t)
      PROVE  SequencesAreComplete'
  <2>1. UNCHANGED <<sequences, publisher, log, epoch>>
    BY <1>8 DEF Subscribe, Receive, Lag
  <2>2. Numbered' = Numbered
    <3>1. Ours(Sent)' = Ours(Sent)
      BY <2>1, SentStays
    <3>2. \A x : x \in Numbered' <=> x \in Numbered
      BY <1>2, <1>3, <2>1, <3>1
    <3> QED BY <3>2
  <2> QED BY <2>1, <2>2, NumberedStays
<1>9. CASE Restart
  <2>1. Ours(Sent)' = {}
    BY <1>1, <1>9, RestartForgets
  <2>2. Numbered' = {}
    BY <1>3, <1>9, <2>1 DEF Restart, Idle
  <2>3. \A src \in Sources : sequences'[src] = 0
    BY <1>9 DEF Restart
  <2>4. \A src \in Sources : {x \in Numbered' : x.source = src} = {}
    BY <2>2
  <2>5. {x.sequence : x \in {}} = 1 .. 0
    OBVIOUS
  <2> QED BY <2>3, <2>4, <2>5, FS_EmptySet DEF SequencesAreComplete, Numbered
<1>10. CASE UNCHANGED busVars
  <2>1. UNCHANGED <<sequences, publisher, log, epoch>>
    BY <1>10 DEF busVars
  <2>2. Numbered' = Numbered
    <3>1. Ours(Sent)' = Ours(Sent)
      BY <2>1, SentStays
    <3>2. \A x : x \in Numbered' <=> x \in Numbered
      BY <1>2, <1>3, <2>1, <3>1
    <3> QED BY <3>2
  <2> QED BY <2>1, <2>2, NumberedStays
<1> QED BY <1>4, <1>5, <1>6, <1>7, <1>8, <1>9, <1>10 DEF Next, PublisherStep

(* Sources that share next_sequence's counters still number their events   *)
(* without gap or repetition.                                              *)
THEOREM NumbersAreComplete == Spec => []SequencesAreComplete
<1>1. Init => SequencesAreComplete
  <2> SUFFICES ASSUME Init PROVE SequencesAreComplete
    OBVIOUS
  <2>1. Busy = {} /\ Sent = {} /\ \A src \in Sources : sequences[src] = 0
    BY DEF Init, Busy, Sent, ToSet
  <2>2. Numbered = {}
    BY <2>1 DEF Numbered, Ours, InFlight
  <2> QED BY <2>1, <2>2, FS_EmptySet DEF SequencesAreComplete, Numbered
<1> QED BY <1>1, InitIInv, NextIInv, NextNumbers, PTL DEF Spec

-----------------------------------------------------------------------------
(* Echoes.  The dedup ring holds the keys of the latest publishes that had *)
(* one; nth numbers those publishes, so the ring's last place belongs to   *)
(* number Keyed, the one before it to Keyed - 1, and so on.                *)
KeyedEvents == {e \in Ours(Sent \cup InFlight({"tick", "sequence", "send"})) : e.key # NoKey}

(* No two publishes have the same number.                                  *)
NumbersDiffer ==
    /\ \A e, f \in Ours(Sent) : e.key # NoKey /\ f.key # NoKey /\ e.nth = f.nth => e = f
    /\ \A p \in Busy, e \in Ours(Sent) :
          e.key # NoKey /\ publisher[p].event.key # NoKey => e.nth # publisher[p].event.nth
    /\ \A p, q \in Busy :
          /\ publisher[p].event.key # NoKey /\ publisher[q].event.key # NoKey
          /\ publisher[p].event.nth = publisher[q].event.nth
          => p = q

NumbersAreUsed == {e.nth : e \in KeyedEvents} = 1 .. Keyed

RingIsLatest ==
    /\ Len(dedup_keys) <= Keyed
    /\ Len(dedup_keys) < DedupCapacity => Len(dedup_keys) = Keyed
    /\ \A e \in KeyedEvents : Keyed - e.nth < Len(dedup_keys) =>
          dedup_keys[Len(dedup_keys) - (Keyed - e.nth)] = e.key

SameKeyIsApart ==
    \A e, f \in KeyedEvents : e.key = f.key /\ e.nth < f.nth => f.nth - e.nth > DedupCapacity

EchoInv == NumbersDiffer /\ NumbersAreUsed /\ RingIsLatest /\ SameKeyIsApart /\ EchoesAreSuppressed

(* A set whose members are numbered from 1 to n has n members.             *)
LEMMA NumberedSet ==
    ASSUME NEW A, NEW n \in Nat, {e.nth : e \in A} = 1 .. n,
           \A e, f \in A : e.nth = f.nth => e = f
    PROVE  Cardinality(A) = n
<1> DEFINE f == [e \in A |-> e.nth]
<1>1. f \in Injection(A, 1 .. n)
  BY DEF Injection, IsInjective
<1>2. f \in Surjection(A, 1 .. n)
  BY DEF Surjection
<1>3. IsFiniteSet(1 .. n) /\ Cardinality(1 .. n) = n
  BY FS_Interval
<1> QED BY <1>1, <1>2, <1>3, FS_Injection

LEMMA KeyedAreHeld ==
    ASSUME BusTypeOK, EpochsArePast, BusTypeOK', EpochsArePast'
    PROVE  /\ \A e : e \in KeyedEvents <=> /\ e.key # NoKey
                                           /\ \/ e \in Ours(Sent)
                                              \/ \E q \in Busy : e = publisher[q].event
           /\ \A e : e \in KeyedEvents' <=> /\ e.key # NoKey
                                            /\ \/ e \in Ours(Sent)'
                                               \/ \E q \in Busy' : e = publisher'[q].event
<1>1. /\ \A q \in Busy : /\ publisher[q].at \in {"tick", "sequence", "send"}
                         /\ publisher[q].event.epoch = epoch
      /\ \A q \in Busy' : /\ publisher'[q].at \in {"tick", "sequence", "send"}
                          /\ publisher'[q].event.epoch = epoch'
  <2>1. \A r \in Ready : r.at \in {"tick", "sequence", "send"}
    BY DEF Ready
  <2> QED BY <2>1 DEF EpochsArePast, BusTypeOK, Busy
<1> QED BY <1>1 DEF KeyedEvents, Ours, InFlight


LEMMA NumbersAreInjective ==
    BusTypeOK /\ EpochsArePast /\ NumbersDiffer
    => \A e, f \in KeyedEvents : e.nth = f.nth => e = f
<1>1. \A e \in KeyedEvents : e.key # NoKey /\ (e \in Ours(Sent) \/ \E q \in Busy : e = publisher[q].event)
  BY DEF KeyedEvents, Ours, InFlight
<1> QED BY <1>1 DEF NumbersDiffer

LEMMA KeyedIsCounted ==
    BusTypeOK => Keyed \in Nat /\ Keyed = Cardinality(KeyedEvents)
BY KeyedIsNat DEF Keyed, KeyedEvents

(* A step that keeps the ring, the numbers and their keys.                 *)
LEMMA SameNumbersSameEchoes ==
    ASSUME BusTypeOK, EpochsArePast, BusTypeOK', EpochsArePast', EchoInv, NumbersDiffer',
           UNCHANGED dedup_keys,
           \A e \in KeyedEvents : \E f \in KeyedEvents' : e.nth = f.nth /\ e.key = f.key,
           \A f \in KeyedEvents' : \E e \in KeyedEvents : e.nth = f.nth /\ e.key = f.key
    PROVE  NumbersAreUsed' /\ RingIsLatest' /\ SameKeyIsApart'
<1>1. Keyed \in Nat /\ {e.nth : e \in KeyedEvents} = 1 .. Keyed
  BY KeyedIsCounted DEF EchoInv, NumbersAreUsed
<1>2. {f.nth : f \in KeyedEvents'} = 1 .. Keyed
  BY <1>1
<1>3. (BusTypeOK /\ EpochsArePast /\ NumbersDiffer
       => \A e, f \in KeyedEvents : e.nth = f.nth => e = f)'
  BY NumbersAreInjective, PTL
<1>4. (BusTypeOK => Keyed \in Nat /\ Keyed = Cardinality(KeyedEvents))'
  BY KeyedIsCounted, PTL
<1>5. Keyed' = Keyed
  <2> DEFINE A == KeyedEvents'
             n == Keyed
  <2>1. n \in Nat /\ {e.nth : e \in A} = 1 .. n /\ \A e, f \in A : e.nth = f.nth => e = f
    BY <1>1, <1>2, <1>3
  <2>2. Keyed' = Cardinality(A)
    BY <1>4
  <2> HIDE DEF A, n
  <2>3. Cardinality(A) = n
    BY <2>1, NumberedSet
  <2> QED BY <2>2, <2>3 DEF n
<1>6. NumbersAreUsed'
  BY <1>2, <1>5 DEF NumbersAreUsed
<1>7. RingIsLatest'
  <2>1. Len(dedup_keys) <= Keyed /\ (Len(dedup_keys) < DedupCapacity => Len(dedup_keys) = Keyed)
    BY DEF EchoInv, RingIsLatest
  <2>2. ASSUME NEW f \in KeyedEvents', Keyed - f.nth < Len(dedup_keys)
        PROVE  dedup_keys[Len(dedup_keys) - (Keyed - f.nth)] = f.key
    BY <2>2 DEF EchoInv, RingIsLatest
  <2> QED BY <1>5, <2>1, <2>2 DEF RingIsLatest
<1>8. SameKeyIsApart'
  <2> SUFFICES ASSUME NEW e \in KeyedEvents', NEW f \in KeyedEvents', e.key = f.key, e.nth < f.nth
               PROVE  f.nth - e.nth > DedupCapacity
    BY DEF SameKeyIsApart
  <2>1. PICK c \in KeyedEvents : c.nth = e.nth /\ c.key = e.key
    OBVIOUS
  <2>2. PICK d \in KeyedEvents : d.nth = f.nth /\ d.key = f.key
    OBVIOUS
  <2> QED BY <2>1, <2>2 DEF EchoInv, SameKeyIsApart
<1> QED BY <1>6, <1>7, <1>8

(* A publish with a new key takes the next number, and its key the last    *)
(* place of the ring.  Were an event with its key less than DedupCapacity  *)
(* numbers away, the ring would still hold that key.                       *)
LEMMA PublishEchoes ==
    ASSUME IInv, IInv', EchoInv, NEW p \in Publishers, NEW t \in Topics, NEW src \in Sources,
           NEW k \in Keys \cup {NoKey}, Publish(p, t, src, k)
    PROVE  EchoInv'
<1> DEFINE e == publisher'[p].event
<1>1. BusTypeOK /\ EpochsArePast /\ BusTypeOK' /\ EpochsArePast'
  BY DEF IInv
<1>2. /\ UNCHANGED <<log, epoch>> /\ p \notin Busy /\ Busy' = Busy \cup {p}
      /\ \A q \in Busy : publisher'[q] = publisher[q]
      /\ e.key = k /\ e.nth = (IF k = NoKey THEN 0 ELSE Keyed + 1)
  BY <1>1 DEF Publish, BusTypeOK, Busy, Idle
<1> HIDE DEF e
<1>3. Ours(Sent)' = Ours(Sent) /\ Sent' = Sent
  BY <1>2, SentStays
<1>4. EchoesAreSuppressed'
  BY <1>3 DEF EchoInv, EchoesAreSuppressed
<1>5. \A x : x \in KeyedEvents' <=> x \in KeyedEvents \/ (x.key # NoKey /\ x = e)
  <2>1. \A x : x \in KeyedEvents <=> /\ x.key # NoKey
                                     /\ x \in Ours(Sent) \/ \E q \in Busy : x = publisher[q].event
    BY <1>1, KeyedAreHeld
  <2>2. \A x : x \in KeyedEvents' <=> /\ x.key # NoKey
                                      /\ x \in Ours(Sent)' \/ \E q \in Busy' : x = publisher'[q].event
    BY <1>1, KeyedAreHeld
  <2> QED BY <1>2, <1>3, <2>1, <2>2 DEF e
<1>6. CASE k = NoKey
  <2>1. \A x : x \in KeyedEvents' <=> x \in KeyedEvents
    BY <1>2, <1>5, <1>6
  <2>2. NumbersDiffer'
    BY <1>2, <1>3, <1>6 DEF EchoInv, NumbersDiffer, e
  <2>3. UNCHANGED dedup_keys
    BY <1>6 DEF Publish
  <2> QED BY <1>1, <1>4, <2>1, <2>2, <2>3, SameNumbersSameEchoes DEF EchoInv
<1>7. CASE k # NoKey
  <2>1. /\ Keyed \in Nat /\ Keyed = Cardinality(KeyedEvents)
        /\ {x.nth : x \in KeyedEvents} = 1 .. Keyed
        /\ \A x \in KeyedEvents : x.nth \in 1 .. Keyed
    BY <1>1, KeyedIsCounted DEF EchoInv, NumbersAreUsed
  <2>2. e.key = k /\ e.nth = Keyed + 1 /\ e \notin KeyedEvents
    BY <1>2, <1>7, <2>1
  <2>3. KeyedEvents' = KeyedEvents \cup {e}
    BY <1>5, <1>7, <2>2
  <2>4. Keyed' = Keyed + 1
    <3>1. (BusTypeOK => Keyed \in Nat /\ Keyed = Cardinality(KeyedEvents))'
      BY KeyedIsCounted, PTL
    <3>2. IsFiniteSet(KeyedEvents)
      BY <1>1, EventsAreFinite, FS_Subset DEF KeyedEvents, Ours
    <3> DEFINE A == KeyedEvents
    <3>3. Keyed' = Cardinality(A \cup {e}) /\ e \notin A /\ IsFiniteSet(A) /\ Cardinality(A) = Keyed
      BY <1>1, <2>1, <2>2, <2>3, <3>1, <3>2
    <3> HIDE DEF A
    <3>4. Cardinality(A \cup {e}) = IF e \in A THEN Cardinality(A) ELSE Cardinality(A) + 1
      BY <3>3, FS_AddElement
    <3> QED BY <3>3, <3>4
  <2>5. NumbersAreUsed'
    <3>1. {x.nth : x \in KeyedEvents \cup {e}} = {x.nth : x \in KeyedEvents} \cup {e.nth}
      OBVIOUS
    <3>2. 1 .. Keyed + 1 = (1 .. Keyed) \cup {Keyed + 1}
      BY <2>1
    <3> QED BY <2>1, <2>2, <2>3, <2>4, <3>1, <3>2 DEF NumbersAreUsed
  <2>6. NumbersDiffer'
    <3>1. /\ \A x \in Ours(Sent) : x.key # NoKey => x \in KeyedEvents
          /\ \A q \in Busy : publisher[q].event.key # NoKey => publisher[q].event \in KeyedEvents
      BY <1>1, KeyedAreHeld
    <3>2. /\ \A x \in Ours(Sent) : x.key # NoKey => x.nth # e.nth
          /\ \A q \in Busy : publisher[q].event.key # NoKey => publisher[q].event.nth # e.nth
      BY <2>1, <2>2, <3>1
    <3> QED BY <1>2, <1>3, <3>2 DEF EchoInv, NumbersDiffer, e
  <2>7. /\ dedup_keys' = Remember(dedup_keys, k) /\ k \notin ToSet(dedup_keys) /\ k \in Keys
        /\ dedup_keys \in Seq(Keys) /\ Len(dedup_keys) <= DedupCapacity
        /\ Len(dedup_keys) <= Keyed /\ (Len(dedup_keys) < DedupCapacity => Len(dedup_keys) = Keyed)
    BY <1>1, <1>7 DEF Publish, BusTypeOK, EchoInv, RingIsLatest
  <2>8. \A x \in KeyedEvents : Keyed - x.nth < Len(dedup_keys) =>
            /\ dedup_keys[Len(dedup_keys) - (Keyed - x.nth)] = x.key
            /\ x.key \in ToSet(dedup_keys)
    <3>1. ASSUME NEW x \in KeyedEvents, Keyed - x.nth < Len(dedup_keys)
          PROVE  /\ dedup_keys[Len(dedup_keys) - (Keyed - x.nth)] = x.key
                 /\ Len(dedup_keys) - (Keyed - x.nth) \in 1 .. Len(dedup_keys)
      BY <2>1, <2>7, <3>1 DEF EchoInv, RingIsLatest
    <3> QED BY <2>7, <3>1 DEF ToSet
  <2>9. RingIsLatest'
    <3> USE BusAssumption DEF BusAssumption
    <3>1. CASE Len(dedup_keys) >= DedupCapacity
      <4>1. /\ Len(dedup_keys') = Len(dedup_keys) /\ Len(dedup_keys) = DedupCapacity
            /\ dedup_keys'[Len(dedup_keys)] = k
            /\ \A i \in 1 .. Len(dedup_keys) - 1 : dedup_keys'[i] = dedup_keys[i + 1]
        BY <2>7, <3>1 DEF Remember
      <4>2. ASSUME NEW x \in KeyedEvents', (Keyed + 1) - x.nth < Len(dedup_keys)
            PROVE  dedup_keys'[Len(dedup_keys) - ((Keyed + 1) - x.nth)] = x.key
        <5>1. CASE x = e
          BY <2>1, <2>2, <2>7, <4>1, <5>1
        <5>2. CASE x \in KeyedEvents
          <6>1. PICK j \in Nat : j = Len(dedup_keys) - (Keyed - x.nth)
            BY <2>1, <2>7, <4>2, <5>2
          <6>2. /\ Len(dedup_keys) - ((Keyed + 1) - x.nth) = j - 1
                /\ j - 1 \in 1 .. Len(dedup_keys) - 1
            <7>1. Keyed \in Nat /\ x.nth \in 1 .. Keyed /\ Len(dedup_keys) \in Nat
              BY <2>1, <2>7, <5>2
            <7>2. \A c, l, n \in Nat : l - (c - n) = j /\ (c + 1) - n < l /\ n <= c
                      => l - ((c + 1) - n) = j - 1 /\ j - 1 \in 1 .. l - 1
              OBVIOUS
            <7>3. /\ Keyed \in Nat /\ x.nth \in Nat /\ Len(dedup_keys) \in Nat /\ x.nth <= Keyed
                  /\ Len(dedup_keys) - (Keyed - x.nth) = j /\ (Keyed + 1) - x.nth < Len(dedup_keys)
              BY <4>2, <6>1, <7>1
            <7> QED BY <7>2, <7>3, Zenon
          <6>3. dedup_keys[j] = x.key
            <7>1. Keyed - x.nth < Len(dedup_keys)
              BY <2>1, <2>7, <4>2, <5>2
            <7> QED BY <2>8, <5>2, <6>1, <7>1
          <6>4. dedup_keys'[j - 1] = dedup_keys[j]
            BY <4>1, <6>2
          <6> QED BY <6>2, <6>3, <6>4
        <5> QED BY <2>3, <5>1, <5>2
      <4>3. Len(dedup_keys') <= Keyed' /\ ~ (Len(dedup_keys') < DedupCapacity)
        BY <2>1, <2>4, <2>7, <4>1
      <4>4. ASSUME NEW x \in KeyedEvents', Keyed' - x.nth < Len(dedup_keys')
            PROVE  dedup_keys'[Len(dedup_keys') - (Keyed' - x.nth)] = x.key
        <5>0. Keyed \in Nat /\ x.nth \in Nat /\ Len(dedup_keys) \in Nat
          BY <2>1, <2>2, <2>3, <2>7
        <5>1. Keyed' = Keyed + 1 /\ Len(dedup_keys') = Len(dedup_keys)
          BY <2>4, <4>1
        <5>2. (Keyed + 1) - x.nth < Len(dedup_keys)
          BY <4>4, <5>0, <5>1
        <5>3. dedup_keys'[Len(dedup_keys) - ((Keyed + 1) - x.nth)] = x.key
          BY <4>2, <5>2
        <5>4. Len(dedup_keys') - (Keyed' - x.nth) = Len(dedup_keys) - ((Keyed + 1) - x.nth)
          BY <5>0, <5>1
        <5> QED BY <5>3, <5>4, Zenon
      <4> QED BY <4>3, <4>4 DEF RingIsLatest
    <3>2. CASE Len(dedup_keys) < DedupCapacity
      <4>1. /\ Len(dedup_keys') = Len(dedup_keys) + 1
            /\ dedup_keys'[Len(dedup_keys) + 1] = k
            /\ \A i \in 1 .. Len(dedup_keys) : dedup_keys'[i] = dedup_keys[i]
        BY <2>7, <3>2 DEF Remember
      <4>2. ASSUME NEW x \in KeyedEvents', (Keyed + 1) - x.nth < Len(dedup_keys) + 1
            PROVE  dedup_keys'[(Len(dedup_keys) + 1) - ((Keyed + 1) - x.nth)] = x.key
        <5>1. CASE x = e
          BY <2>1, <2>2, <2>7, <4>1, <5>1
        <5>2. CASE x \in KeyedEvents
          <6>1. PICK j \in Nat : j = Len(dedup_keys) - (Keyed - x.nth)
            BY <2>1, <2>7, <4>2, <5>2
          <6>2. /\ (Len(dedup_keys) + 1) - ((Keyed + 1) - x.nth) = j
                /\ j \in 1 .. Len(dedup_keys)
            <7>1. Keyed \in Nat /\ x.nth \in 1 .. Keyed /\ Len(dedup_keys) \in Nat
              BY <2>1, <2>7, <5>2
            <7> QED BY <4>2, <6>1, <7>1
          <6>3. dedup_keys[j] = x.key
            <7>1. Keyed - x.nth < Len(dedup_keys)
              BY <2>1, <2>7, <4>2, <5>2
            <7> QED BY <2>8, <5>2, <6>1, <7>1
          <6> QED BY <4>1, <6>2, <6>3
        <5> QED BY <2>3, <5>1, <5>2
      <4>3. Len(dedup_keys') <= Keyed' /\ Len(dedup_keys') = Keyed'
        BY <2>1, <2>4, <2>7, <3>2, <4>1
      <4>4. ASSUME NEW x \in KeyedEvents', Keyed' - x.nth < Len(dedup_keys')
            PROVE  dedup_keys'[Len(dedup_keys') - (Keyed' - x.nth)] = x.key
        <5>0. Keyed \in Nat /\ x.nth \in Nat /\ Len(dedup_keys) \in Nat
          BY <2>1, <2>2, <2>3, <2>7
        <5>1. Keyed' = Keyed + 1 /\ Len(dedup_keys') = Len(dedup_keys) + 1
          BY <2>4, <4>1
        <5>2. (Keyed + 1) - x.nth < Len(dedup_keys) + 1
          BY <4>4, <5>0, <5>1
        <5>3. dedup_keys'[(Len(dedup_keys) + 1) - ((Keyed + 1) - x.nth)] = x.key
          BY <4>2, <5>2
        <5>4. Len(dedup_keys') - (Keyed' - x.nth) = (Len(dedup_keys) + 1) - ((Keyed + 1) - x.nth)
          BY <5>0, <5>1
        <5> QED BY <5>3, <5>4, Zenon
      <4> QED BY <4>3, <4>4 DEF RingIsLatest
    <3> QED BY <2>7, <3>1, <3>2
  <2>10. SameKeyIsApart'
    <3>1. ASSUME NEW x \in KeyedEvents, x.key = k
          PROVE  Keyed + 1 - x.nth > DedupCapacity
      <4>1. ~ (Keyed - x.nth < Len(dedup_keys))
        BY <2>7, <2>8, <3>1
      <4> QED BY <2>1, <2>7, <4>1, BusAssumption DEF BusAssumption
    <3>2. ASSUME NEW x \in KeyedEvents', NEW y \in KeyedEvents', x.key = y.key, x.nth < y.nth
          PROVE  y.nth - x.nth > DedupCapacity
      <4>1. CASE x \in KeyedEvents /\ y \in KeyedEvents
        BY <3>2, <4>1 DEF EchoInv, SameKeyIsApart
      <4>2. CASE x = e
        BY <2>1, <2>2, <2>3, <3>2, <4>2
      <4>3. CASE x \in KeyedEvents /\ y = e
        <5>1. y.key = k /\ y.nth = Keyed + 1
          BY <2>2, <4>3
        <5>2. Keyed + 1 - x.nth > DedupCapacity
          BY <3>1, <3>2, <4>3, <5>1
        <5> QED BY <2>1, <4>3, <5>1, <5>2
      <4> QED BY <2>3, <4>1, <4>2, <4>3
    <3> QED BY <3>2 DEF SameKeyIsApart
  <2> QED BY <1>4, <2>5, <2>6, <2>9, <2>10 DEF EchoInv
<1> QED BY <1>6, <1>7

(* tick and next_sequence change neither key nor number of an event, and a *)
(* receiver changes no event at all.                                       *)
LEMMA OthersKeepEchoes ==
    ASSUME IInv, IInv', EchoInv, UNCHANGED <<log, epoch, dedup_keys>>, Busy' = Busy,
           \A q \in Busy : /\ publisher'[q].event.key = publisher[q].event.key
                           /\ publisher'[q].event.nth = publisher[q].event.nth
    PROVE  EchoInv'
<1>1. BusTypeOK /\ EpochsArePast /\ BusTypeOK' /\ EpochsArePast'
  BY DEF IInv
<1>2. Ours(Sent)' = Ours(Sent) /\ Sent' = Sent
  BY SentStays
<1>3. EchoesAreSuppressed'
  BY <1>2 DEF EchoInv, EchoesAreSuppressed
<1>4. NumbersDiffer'
  BY <1>2 DEF EchoInv, NumbersDiffer
<1>5. \A x : x \in KeyedEvents <=> /\ x.key # NoKey
                                   /\ x \in Ours(Sent) \/ \E q \in Busy : x = publisher[q].event
  BY <1>1, KeyedAreHeld
<1>6. \A x : x \in KeyedEvents' <=> /\ x.key # NoKey
                                    /\ x \in Ours(Sent)' \/ \E q \in Busy' : x = publisher'[q].event
  BY <1>1, KeyedAreHeld
<1>7. \A x \in KeyedEvents : \E y \in KeyedEvents' : x.nth = y.nth /\ x.key = y.key
  <2> SUFFICES ASSUME NEW x \in KeyedEvents
               PROVE  \E y \in KeyedEvents' : x.nth = y.nth /\ x.key = y.key
    OBVIOUS
  <2>1. CASE x \in Ours(Sent)
    BY <1>2, <1>5, <1>6, <2>1
  <2>2. CASE \E q \in Busy : x = publisher[q].event
    <3>1. PICK q \in Busy : x = publisher[q].event
      BY <2>2
    <3>2. publisher'[q].event \in KeyedEvents'
      BY <1>5, <1>6, <3>1
    <3> QED BY <3>1, <3>2
  <2> QED BY <1>5, <2>1, <2>2
<1>8. \A y \in KeyedEvents' : \E x \in KeyedEvents : x.nth = y.nth /\ x.key = y.key
  <2> SUFFICES ASSUME NEW y \in KeyedEvents'
               PROVE  \E x \in KeyedEvents : x.nth = y.nth /\ x.key = y.key
    OBVIOUS
  <2>1. CASE y \in Ours(Sent)'
    BY <1>2, <1>5, <1>6, <2>1
  <2>2. CASE \E q \in Busy' : y = publisher'[q].event
    <3>1. PICK q \in Busy : y = publisher'[q].event
      BY <2>2
    <3>2. publisher[q].event \in KeyedEvents
      BY <1>5, <1>6, <3>1
    <3> QED BY <3>1, <3>2
  <2> QED BY <1>6, <2>1, <2>2
<1> QED BY <1>1, <1>3, <1>4, <1>7, <1>8, SameNumbersSameEchoes DEF EchoInv

(* What is sent keeps its number; it meets the events of earlier runs.     *)
LEMMA SendEchoes ==
    ASSUME IInv, IInv', EchoInv, NEW p \in Publishers, Send(p)
    PROVE  EchoInv'
<1> DEFINE e == publisher[p].event
<1>1. BusTypeOK /\ EpochsArePast /\ BusTypeOK' /\ EpochsArePast'
  BY DEF IInv
<1>2. p \in Busy /\ publisher[p] \in Ready /\ e.epoch = epoch
  BY <1>1, BusyIsReady DEF Send, EpochsArePast
<1>3. /\ UNCHANGED <<epoch, dedup_keys>> /\ Busy' = Busy \ {p}
      /\ \A q \in Busy' : publisher'[q] = publisher[q]
  BY <1>1 DEF Send, BusTypeOK, Busy
<1>4. Sent' = Sent \cup {e} /\ Ours(Sent)' = Ours(Sent) \cup {e}
  BY <1>1, <1>2, SendAdds
<1> HIDE DEF e
<1>5. NumbersDiffer'
  <2>1. /\ \A x, y \in Ours(Sent) : x.key # NoKey /\ y.key # NoKey /\ x.nth = y.nth => x = y
        /\ \A x \in Ours(Sent) : x.key # NoKey /\ e.key # NoKey => x.nth # e.nth
        /\ \A q \in Busy' : publisher'[q].event.key # NoKey =>
              /\ \A x \in Ours(Sent) : x.key # NoKey => x.nth # publisher'[q].event.nth
              /\ e.key # NoKey => e.nth # publisher'[q].event.nth
    BY <1>2, <1>3 DEF EchoInv, NumbersDiffer, e
  <2>2. \A q, r \in Busy' :
            /\ publisher'[q].event.key # NoKey /\ publisher'[r].event.key # NoKey
            /\ publisher'[q].event.nth = publisher'[r].event.nth
            => q = r
    BY <1>3 DEF EchoInv, NumbersDiffer
  <2> QED BY <1>4, <2>1, <2>2 DEF NumbersDiffer
<1>6. \A x : x \in KeyedEvents <=> /\ x.key # NoKey
                                   /\ x \in Ours(Sent) \/ \E q \in Busy : x = publisher[q].event
  BY <1>1, KeyedAreHeld
<1>7. \A x : x \in KeyedEvents' <=> /\ x.key # NoKey
                                    /\ x \in Ours(Sent)' \/ \E q \in Busy' : x = publisher'[q].event
  BY <1>1, KeyedAreHeld
<1>8. \A x : x \in KeyedEvents' <=> x \in KeyedEvents
  <2>1. \A x : (\E q \in Busy : x = publisher[q].event)
            <=> x = e \/ \E q \in Busy' : x = publisher'[q].event
    BY <1>2, <1>3 DEF e
  <2> QED BY <1>4, <1>6, <1>7, <2>1
<1>9. NumbersAreUsed' /\ RingIsLatest' /\ SameKeyIsApart'
  BY <1>1, <1>3, <1>5, <1>8, SameNumbersSameEchoes
<1>10. EchoesAreSuppressed'
  <2> SUFFICES ASSUME NEW x \in Sent', NEW y \in Sent', x.key = y.key, x.key # NoKey,
                      x.epoch = y.epoch, x.nth < y.nth
               PROVE  y.nth - x.nth > DedupCapacity
    BY DEF EchoesAreSuppressed
  <2>1. CASE x \in Sent /\ y \in Sent
    BY <2>1 DEF EchoInv, EchoesAreSuppressed
  <2>2. CASE x = e \/ y = e
    <3>1. x \in Ours(Sent)' /\ y \in Ours(Sent)'
      BY <1>2, <1>3, <1>4, <2>2 DEF Ours, e
    <3>2. x \in KeyedEvents' /\ y \in KeyedEvents'
      BY <1>7, <3>1
    <3> QED BY <1>9, <3>2 DEF SameKeyIsApart
  <2> QED BY <1>4, <2>1, <2>2
<1> QED BY <1>5, <1>9, <1>10 DEF EchoInv

LEMMA RestartEchoes ==
    ASSUME IInv, IInv', EchoInv, Restart
    PROVE  EchoInv'
<1>1. BusTypeOK /\ EpochsArePast /\ BusTypeOK' /\ EpochsArePast'
  BY DEF IInv
<1>2. Busy' = {} /\ Sent' = Sent /\ dedup_keys' = <<>>
  BY DEF Restart, Busy, Sent
<1>3. Ours(Sent)' = {}
  BY <1>1, RestartForgets
<1>4. \A x : x \in KeyedEvents' <=> /\ x.key # NoKey
                                    /\ x \in Ours(Sent)' \/ \E q \in Busy' : x = publisher'[q].event
  BY <1>1, KeyedAreHeld
<1>5. KeyedEvents' = {}
  BY <1>2, <1>3, <1>4
<1>6. Keyed' = 0
  <2>1. (BusTypeOK => Keyed \in Nat /\ Keyed = Cardinality(KeyedEvents))'
    BY KeyedIsCounted, PTL
  <2> QED BY <1>1, <1>5, <2>1, FS_EmptySet
<1>7. NumbersDiffer' /\ NumbersAreUsed' /\ RingIsLatest' /\ SameKeyIsApart'
  <2>1. {x.nth : x \in {}} = 1 .. 0
    OBVIOUS
  <2> QED BY <1>2, <1>3, <1>5, <1>6, <2>1
          DEF NumbersDiffer, NumbersAreUsed, RingIsLatest, SameKeyIsApart
<1> QED BY <1>2, <1>7 DEF EchoInv, EchoesAreSuppressed

LEMMA NextEchoes == IInv /\ IInv' /\ EchoInv /\ [Next]_busVars => EchoInv'
<1> SUFFICES ASSUME IInv, IInv', EchoInv, [Next]_busVars
             PROVE  EchoInv'
  OBVIOUS
<1>1. BusTypeOK
  BY DEF IInv
<1>2. ASSUME NEW p \in Publishers, NEW t \in Topics, NEW src \in Sources,
             NEW k \in Keys \cup {NoKey}, Publish(p, t, src, k)
      PROVE  EchoInv'
  BY <1>2, PublishEchoes
<1>3. ASSUME NEW p \in Publishers, Tick(p) \/ NextSequence(p)
      PROVE  EchoInv'
  <2>1. publisher[p] \in Ready /\ p \in Busy
    BY <1>1, <1>3, BusyIsReady DEF Tick, NextSequence
  <2>2. UNCHANGED <<log, epoch, dedup_keys>>
    BY <1>3 DEF Tick, NextSequence
  <2>3. /\ \A q \in Publishers \ {p} : publisher'[q] = publisher[q]
        /\ publisher'[p].at # "idle"
        /\ publisher'[p].event.key = publisher[p].event.key
        /\ publisher'[p].event.nth = publisher[p].event.nth
    BY <1>1, <1>3, <2>1 DEF Tick, NextSequence, BusTypeOK, Ready, Event
  <2>4. Busy' = Busy
    BY <2>1, <2>3 DEF Busy, Idle
  <2> QED BY <2>2, <2>3, <2>4, OthersKeepEchoes DEF Busy
<1>4. ASSUME NEW p \in Publishers, Send(p)
      PROVE  EchoInv'
  BY <1>4, SendEchoes
<1>5. ASSUME NEW s \in Subscribers, NEW t \in Topics,
             Subscribe(s, t) \/ Receive(s, t) \/ Lag(s, t)
      PROVE  EchoInv'
  <2>1. UNCHANGED <<log, epoch, dedup_keys, publisher>>
    BY <1>5 DEF Subscribe, Receive, Lag
  <2> QED BY <2>1, OthersKeepEchoes DEF Busy
<1>6. CASE Restart
  BY <1>6, RestartEchoes
<1>7. CASE UNCHANGED busVars
  <2>1. UNCHANGED <<log, epoch, dedup_keys, publisher>>
    BY <1>7 DEF busVars
  <2> QED BY <2>1, OthersKeepEchoes DEF Busy
<1> QED BY <1>2, <1>3, <1>4, <1>5, <1>6, <1>7 DEF Next, PublisherStep

(* However many tasks publish at once, the dedup ring lets a key through   *)
(* again only when DedupCapacity other keys have followed it.              *)
THEOREM EchoesNeedDistance == Spec => []EchoesAreSuppressed
<1>1. Init => EchoInv
  <2> SUFFICES ASSUME Init PROVE EchoInv
    OBVIOUS
  <2>1. Busy = {} /\ Sent = {} /\ dedup_keys = <<>>
    BY DEF Init, Busy, Sent, ToSet
  <2>2. KeyedEvents = {}
    BY <2>1 DEF KeyedEvents, Ours, InFlight
  <2>3. Keyed = 0
    BY <2>2, FS_EmptySet DEF Keyed, KeyedEvents
  <2>4. {x.nth : x \in {}} = 1 .. 0
    OBVIOUS
  <2> QED BY <2>1, <2>2, <2>3, <2>4
          DEF EchoInv, NumbersDiffer, NumbersAreUsed, RingIsLatest, SameKeyIsApart,
              EchoesAreSuppressed, Ours
<1>2. EchoInv => EchoesAreSuppressed
  BY DEF EchoInv
<1> QED BY <1>1, <1>2, InitIInv, NextIInv, NextEchoes, PTL DEF Spec

-----------------------------------------------------------------------------
(***************************************************************************)
(* Proofs about EventTransport for any number of clients and topics, any   *)
(* capacities and any schedule.                                            *)
(*                                                                         *)
(* LiveDelivery speaks about what was written to a client; an event passes *)
(* through a forwarder's hand and the channel before.  The invariant says  *)
(* of this whole way that it keeps the order of the bus: everything on it  *)
(* has its place in the log of its topic, before the receiver's cursor,    *)
(* later events at later places, and what a hand holds after all that is   *)
(* already in the channel.  Places are unique, for TotalOrder of EventBus  *)
(* keeps two entries of the logs from being the same event.                *)
(***************************************************************************)

(* Where an item stands in the log of its topic.                           *)
At(item, n) == n \in DOMAIN log[item.topic] /\ log[item.topic][n] = item.event
Before(a, b) == \E m \in DOMAIN log[a.topic], n \in DOMAIN log[b.topic] :
                    At(a, m) /\ At(b, n) /\ m < n
Taken(c, item) == \E n \in DOMAIN log[item.topic] : At(item, n) /\ n < cursor[c][item.topic]

(* What a connection has sent live or still has in its channel.            *)
Out(c) == Live(c) \o queue[c]

AllTaken(c) == \A i \in DOMAIN Out(c) : Taken(c, Out(c)[i])
OutInOrder(c) ==
    \A i, j \in DOMAIN Out(c) :
        i < j /\ Out(c)[i].topic = Out(c)[j].topic => Before(Out(c)[i], Out(c)[j])
HandIsNext(c, t) ==
    \A k \in DOMAIN hand[c][t] :
        /\ hand[c][t][k].topic = t /\ Taken(c, hand[c][t][k])
        /\ \A i \in DOMAIN Out(c) : Out(c)[i].topic = t => Before(Out(c)[i], hand[c][t][k])

StartsEmpty(c) == conn[c] # "open" => delivered[c] = <<>> /\ replayed[c] = 0
CursorsInLog == \A s \in Subscribers, t \in Topics : cursor[s][t] <= Len(log[t]) + 1

Pipeline(c) ==
    /\ AllTaken(c) /\ OutInOrder(c) /\ StartsEmpty(c)
    /\ \A t \in Topics : HandIsNext(c, t)

(* The share of one client in NoSilentLoss.                                *)
NoLoss(c) ==
    \A t \in Topics : \A i \in joined[c][t] .. cursor[c][t] - 1 :
        i > 0 => Item(t, log[t][i]) \in
                     ToSet(delivered[c]) \cup ToSet(queue[c]) \cup ToSet(hand[c][t]) \cup excused[c]

TransportInv ==
    /\ IInv /\ TransportTypeOK /\ CursorsInLog
    /\ \A c \in Clients : Pipeline(c) /\ NoLoss(c)

-----------------------------------------------------------------------------
(* Sequences.                                                              *)
LEMMA SetOfAppend ==
    ASSUME NEW D, NEW s \in Seq(D), NEW x \in D
    PROVE  ToSet(Append(s, x)) = ToSet(s) \cup {x}
<1>1. /\ DOMAIN s = 1 .. Len(s) /\ Len(s) \in Nat
      /\ DOMAIN Append(s, x) = 1 .. Len(s) + 1 /\ Append(s, x)[Len(s) + 1] = x
      /\ \A i \in 1 .. Len(s) : Append(s, x)[i] = s[i]
  BY AppendProperties
<1>2. \A i \in 1 .. Len(s) + 1 : i \in 1 .. Len(s) \/ i = Len(s) + 1
  BY <1>1
<1>3. Len(s) + 1 \in DOMAIN Append(s, x) /\ \A i \in 1 .. Len(s) : i \in DOMAIN Append(s, x)
  BY <1>1
<1> QED BY <1>1, <1>2, <1>3 DEF ToSet

LEMMA SetOfTail ==
    ASSUME NEW D, NEW s \in Seq(D), s # <<>>
    PROVE  ToSet(s) = ToSet(Tail(s)) \cup {Head(s)}
<1>1. Len(s) \in Nat \ {0} /\ Head(s) = s[1] /\ DOMAIN s = 1 .. Len(s)
  BY EmptySeq
<1>2. /\ Tail(s) \in Seq(D) /\ Len(Tail(s)) = Len(s) - 1
      /\ \A i \in 1 .. Len(Tail(s)) : Tail(s)[i] = s[i + 1]
  BY HeadTailProperties
<1>3. DOMAIN Tail(s) = 1 .. Len(s) - 1
  BY <1>2
<1>4. ASSUME NEW i \in DOMAIN s PROVE s[i] \in ToSet(Tail(s)) \cup {Head(s)}
  <2>1. CASE i = 1
    BY <2>1, <1>1
  <2>2. CASE i # 1
    <3>1. i - 1 \in DOMAIN Tail(s) /\ Tail(s)[i - 1] = s[i]
      BY <2>2, <1>1, <1>2, <1>3
    <3> QED BY <3>1 DEF ToSet
  <2> QED BY <2>1, <2>2
<1>5. ASSUME NEW i \in DOMAIN Tail(s) PROVE Tail(s)[i] \in ToSet(s)
  BY <1>1, <1>2, <1>3 DEF ToSet
<1>6. Head(s) \in ToSet(s)
  BY <1>1 DEF ToSet
<1> QED BY <1>4, <1>5, <1>6 DEF ToSet

LEMMA SetOfConcat ==
    ASSUME NEW D, NEW s \in Seq(D), NEW u \in Seq(D)
    PROVE  ToSet(s) \subseteq ToSet(s \o u) /\ ToSet(u) \subseteq ToSet(s \o u)
<1>1. /\ DOMAIN (s \o u) = 1 .. Len(s) + Len(u)
      /\ \A i \in 1 .. Len(s) + Len(u) : (s \o u)[i] = IF i <= Len(s) THEN s[i] ELSE u[i - Len(s)]
      /\ DOMAIN s = 1 .. Len(s) /\ DOMAIN u = 1 .. Len(u) /\ Len(s) \in Nat /\ Len(u) \in Nat
  BY ConcatProperties
<1>2. \A i \in 1 .. Len(s) : i \in DOMAIN (s \o u) /\ (s \o u)[i] = s[i]
  BY <1>1
<1>3. \A i \in 1 .. Len(u) : Len(s) + i \in DOMAIN (s \o u) /\ (s \o u)[Len(s) + i] = u[i]
  BY <1>1
<1> DEFINE w == s \o u
<1>4. DOMAIN s = 1 .. Len(s) /\ \A i \in 1 .. Len(s) : s[i] \in ToSet(w)
  BY <1>1, <1>2 DEF ToSet
<1>5. DOMAIN u = 1 .. Len(u) /\ \A i \in 1 .. Len(u) : u[i] \in ToSet(w)
  <2>1. ASSUME NEW i \in 1 .. Len(u) PROVE w[Len(s) + i] \in ToSet(w)
    BY <1>3 DEF ToSet
  <2> QED BY <2>1, <1>1, <1>3
<1> HIDE DEF w
<1>6. ToSet(s) \subseteq ToSet(w) /\ ToSet(u) \subseteq ToSet(w)
  BY <1>4, <1>5 DEF ToSet
<1> QED BY <1>6 DEF w

(* The head of the channel is written behind what was sent before.         *)
LEMMA HeadMovesOver ==
    ASSUME NEW D, NEW s \in Seq(D), NEW k \in Nat, k <= Len(s), NEW q \in Seq(D), q # <<>>
    PROVE  LET sent == Append(s, Head(q))
           IN  SubSeq(sent, k + 1, Len(sent)) \o Tail(q) = SubSeq(s, k + 1, Len(s)) \o q
<1> DEFINE sent == Append(s, Head(q))
           live == SubSeq(s, k + 1, Len(s))
           live2 == SubSeq(sent, k + 1, Len(sent))
<1>1. Head(q) \in D /\ Tail(q) \in Seq(D) /\ Len(Tail(q)) = Len(q) - 1 /\ Head(q) = q[1]
      /\ Len(q) \in Nat /\ Len(s) \in Nat
      /\ \A i \in 1 .. Len(Tail(q)) : Tail(q)[i] = q[i + 1]
  BY HeadTailProperties
<1>2. sent \in Seq(D) /\ Len(sent) = Len(s) + 1 /\ sent[Len(s) + 1] = Head(q)
      /\ \A i \in 1 .. Len(s) : sent[i] = s[i]
  BY <1>1, AppendProperties
<1>3. live \in Seq(D) /\ Len(live) = Len(s) - k /\ \A i \in 1 .. Len(s) - k : live[i] = s[k + i]
  <2>1. \A i \in (k + 1) .. Len(s) : s[i] \in D
    BY <1>1
  <2> QED BY <2>1, <1>1, SubSeqProperties
<1>4. live2 \in Seq(D) /\ Len(live2) = Len(s) + 1 - k
      /\ \A i \in 1 .. Len(s) + 1 - k : live2[i] = sent[k + i]
  <2>1. \A i \in (k + 1) .. Len(sent) : sent[i] \in D
    BY <1>1, <1>2
  <2> QED BY <2>1, <1>1, <1>2, SubSeqProperties
<1> HIDE DEF sent, live, live2
<1>5. /\ live \o q \in Seq(D) /\ Len(live \o q) = Len(s) - k + Len(q)
      /\ \A i \in 1 .. Len(s) - k + Len(q) :
            (live \o q)[i] = IF i <= Len(s) - k THEN live[i] ELSE q[i - (Len(s) - k)]
  <2>1. /\ live \o q \in Seq(D) /\ Len(live \o q) = Len(live) + Len(q)
        /\ \A i \in 1 .. Len(live) + Len(q) :
              (live \o q)[i] = IF i <= Len(live) THEN live[i] ELSE q[i - Len(live)]
    BY <1>3, ConcatProperties
  <2> QED BY <2>1, <1>3
<1>6. /\ live2 \o Tail(q) \in Seq(D) /\ Len(live2 \o Tail(q)) = Len(s) - k + Len(q)
      /\ \A i \in 1 .. Len(s) - k + Len(q) :
            (live2 \o Tail(q))[i] = IF i <= Len(s) + 1 - k THEN live2[i]
                                    ELSE Tail(q)[i - (Len(s) + 1 - k)]
  <2>1. /\ live2 \o Tail(q) \in Seq(D) /\ Len(live2 \o Tail(q)) = Len(live2) + Len(Tail(q))
        /\ \A i \in 1 .. Len(live2) + Len(Tail(q)) :
              (live2 \o Tail(q))[i] = IF i <= Len(live2) THEN live2[i] ELSE Tail(q)[i - Len(live2)]
    BY <1>1, <1>4, ConcatProperties
  <2>2. Len(live2) + Len(Tail(q)) = Len(s) - k + Len(q)
    BY <1>1, <1>4
  <2> QED BY <2>1, <2>2, <1>4
<1>7. ASSUME NEW i \in 1 .. Len(s) - k + Len(q) PROVE (live2 \o Tail(q))[i] = (live \o q)[i]
  <2>1. CASE i <= Len(s) - k
    <3>1. (live2 \o Tail(q))[i] = live2[i] /\ (live \o q)[i] = live[i]
      BY <2>1, <1>1, <1>5, <1>6
    <3>2. live2[i] = sent[k + i] /\ live[i] = s[k + i] /\ k + i \in 1 .. Len(s)
      BY <2>1, <1>1, <1>3, <1>4
    <3> QED BY <3>1, <3>2, <1>2
  <2>2. CASE i = Len(s) - k + 1
    <3>1. (live2 \o Tail(q))[i] = live2[i] /\ live2[i] = sent[k + i] /\ k + i = Len(s) + 1
      BY <2>2, <1>1, <1>4, <1>6
    <3>2. (live \o q)[i] = q[1]
      <4>1. ~(i <= Len(s) - k) /\ i - (Len(s) - k) = 1
        BY <2>2, <1>1
      <4> QED BY <4>1, <1>5
    <3> QED BY <3>1, <3>2, <1>1, <1>2
  <2>3. CASE i > Len(s) - k + 1
    <3>1. i - (Len(s) + 1 - k) \in 1 .. Len(Tail(q))
      BY <2>3, <1>1
    <3>2. Tail(q)[i - (Len(s) + 1 - k)] = q[i - (Len(s) - k)]
      BY <3>1, <1>1
    <3> QED BY <2>3, <3>2, <1>1, <1>5, <1>6
  <2>4. i <= Len(s) - k \/ i = Len(s) - k + 1 \/ i > Len(s) - k + 1
    <3>1. PICK n \in Int : n = Len(s) - k
      BY <1>1
    <3> QED BY <3>1
  <2> QED BY <2>1, <2>2, <2>3, <2>4
<1>8. live2 \o Tail(q) = live \o q
  BY <1>5, <1>6, <1>7, SeqEqual
<1> QED BY <1>8 DEF sent, live, live2

(* What joins the channel comes last.                                      *)
LEMMA LastInChannel ==
    ASSUME NEW D, NEW s \in Seq(D), NEW q \in Seq(D), NEW x \in D
    PROVE  s \o Append(q, x) = Append(s \o q, x)
<1>1. <<x>> \in Seq(D) /\ s \o q \in Seq(D)
  BY ConcatProperties
<1>2. Append(q, x) = q \o <<x>> /\ Append(s \o q, x) = (s \o q) \o <<x>>
  BY <1>1, AppendIsConcat
<1> QED BY <1>1, <1>2, ConcatAssociative

(* Without the head of the channel the rest keeps its order.               *)
PartOf(new, old) ==
    /\ \A i \in DOMAIN new : \E m \in DOMAIN old : new[i] = old[m]
    /\ \A i, j \in DOMAIN new : i < j =>
           \E m, n \in DOMAIN old : m < n /\ new[i] = old[m] /\ new[j] = old[n]

LEMMA HeadLeaves ==
    ASSUME NEW D, NEW s \in Seq(D), NEW q \in Seq(D), q # <<>>
    PROVE  PartOf(s \o Tail(q), s \o q)
<1> DEFINE Old(i) == IF i <= Len(s) THEN i ELSE i + 1
<1>1. Tail(q) \in Seq(D) /\ Len(Tail(q)) = Len(q) - 1 /\ Len(q) \in Nat /\ Len(s) \in Nat
      /\ \A i \in 1 .. Len(Tail(q)) : Tail(q)[i] = q[i + 1]
  BY HeadTailProperties
<1>2. /\ s \o q \in Seq(D) /\ Len(s \o q) = Len(s) + Len(q)
      /\ \A i \in 1 .. Len(s) + Len(q) : (s \o q)[i] = IF i <= Len(s) THEN s[i] ELSE q[i - Len(s)]
  BY ConcatProperties
<1>3. /\ s \o Tail(q) \in Seq(D) /\ Len(s \o Tail(q)) = Len(s) + Len(q) - 1
      /\ \A i \in 1 .. Len(s) + Len(q) - 1 :
            (s \o Tail(q))[i] = IF i <= Len(s) THEN s[i] ELSE Tail(q)[i - Len(s)]
  BY <1>1, ConcatProperties
<1>4. DOMAIN (s \o q) = 1 .. Len(s) + Len(q) /\ DOMAIN (s \o Tail(q)) = 1 .. Len(s) + Len(q) - 1
  BY <1>2, <1>3
<1>5. ASSUME NEW i \in DOMAIN (s \o Tail(q))
      PROVE  Old(i) \in DOMAIN (s \o q) /\ (s \o Tail(q))[i] = (s \o q)[Old(i)]
  <2>1. CASE i <= Len(s)
    BY <2>1, <1>1, <1>2, <1>3, <1>4
  <2>2. CASE i > Len(s)
    <3>1. i - Len(s) \in 1 .. Len(Tail(q))
      BY <2>2, <1>1, <1>4
    <3>2. Tail(q)[i - Len(s)] = q[i + 1 - Len(s)]
      BY <3>1, <1>1
    <3>3. i + 1 \in 1 .. Len(s) + Len(q) /\ ~(i + 1 <= Len(s)) /\ Old(i) = i + 1
      BY <2>2, <1>1, <1>4
    <3>4. (s \o Tail(q))[i] = Tail(q)[i - Len(s)]
      BY <2>2, <1>1, <1>3, <1>4
    <3>5. (s \o q)[i + 1] = q[i + 1 - Len(s)]
      BY <3>3, <1>2
    <3> QED BY <3>2, <3>3, <3>4, <3>5, <1>4
  <2> QED BY <2>1, <2>2, <1>1, <1>4
<1>6. \A i, j \in DOMAIN (s \o Tail(q)) : i < j => Old(i) < Old(j)
  BY <1>1, <1>4
<1> QED BY <1>5, <1>6 DEF PartOf

-----------------------------------------------------------------------------
(* The bus underneath.                                                     *)
LogGrows ==
    \A t \in Topics : /\ DOMAIN log[t] \subseteq DOMAIN log'[t]
                      /\ \A i \in DOMAIN log[t] : log'[t][i] = log[t][i]

LEMMA ClientsSubscribe == Writer \in Subscribers /\ \A c \in Clients : c \in Subscribers /\ c # Writer
BY TransportAssumption DEF TransportAssumption

LEMMA LogIsSeq ==
    BusTypeOK => \A t \in Topics : /\ log[t] \in Seq(Event) /\ Len(log[t]) \in Nat
                                   /\ DOMAIN log[t] = 1 .. Len(log[t])
                                   /\ \A i \in DOMAIN log[t] : log[t][i] \in Event
<1> SUFFICES ASSUME BusTypeOK, NEW t \in Topics
             PROVE  /\ log[t] \in Seq(Event) /\ Len(log[t]) \in Nat
                    /\ DOMAIN log[t] = 1 .. Len(log[t])
                    /\ \A i \in DOMAIN log[t] : log[t][i] \in Event
  OBVIOUS
<1>1. log[t] \in Seq(Event)
  BY DEF BusTypeOK
<1> QED BY <1>1

LEMMA OldestInLog ==
    ASSUME BusTypeOK, NEW t \in Topics
    PROVE  Oldest(t) \in 1 .. Len(log[t]) + 1
<1>1. Len(log[t]) \in Nat /\ Capacity[t] \in Nat \ {0}
  BY BusAssumption, LogIsSeq DEF BusAssumption
<1>2. PICK n \in Int : n = Len(log[t]) - Capacity[t] + 1
  BY <1>1
<1>3. \E x \in {1, n} : \A y \in {1, n} : x >= y
  BY <1>2
<1>4. Max({1, n}) \in {1, n} /\ \A y \in {1, n} : Max({1, n}) >= y
  BY <1>3 DEF Max
<1>5. n <= Len(log[t]) + 1
  BY <1>1, <1>2
<1>6. Max({1, n}) \in Int /\ Max({1, n}) >= 1
  BY <1>2, <1>4
<1>7. Max({1, n}) <= Len(log[t]) + 1
  BY <1>1, <1>2, <1>4, <1>5
<1> QED BY <1>2, <1>6, <1>7 DEF Oldest

(* Closing a connection moves cursors only, like a receiver.               *)
LEMMA CursorStep ==
    ASSUME IInv, UNCHANGED <<clock, sequences, dedup_keys, publisher, log, epoch>>,
           cursor' \in [Subscribers -> [Topics -> Nat]]
    PROVE  IInv'
<1>1. BusTypeOK /\ EventsAreOrdered /\ EpochsArePast /\ BelowClock /\ HeldAreOrdered
  BY DEF IInv
<1>2. BusTypeOK'
  BY <1>1 DEF BusTypeOK
<1>3. Sent' = Sent /\ Ours(Sent)' = Ours(Sent) /\ Busy' = Busy
  BY DEF Sent, Ours, Busy
<1>4. EventsAreOrdered'
  BY <1>1, <1>3 DEF EventsAreOrdered, TotalOrder, CausalOrder
<1>5. EpochsArePast' /\ BelowClock' /\ HeldAreOrdered'
  BY <1>1, <1>3 DEF EpochsArePast, BelowClock, HeldAreOrdered, Stamped
<1> QED BY <1>2, <1>4, <1>5 DEF IInv

LEMMA ReadingKeepsLog ==
    ASSUME NEW s \in Subscribers, NEW t \in Topics, Subscribe(s, t) \/ Receive(s, t) \/ Lag(s, t)
    PROVE  UNCHANGED <<clock, sequences, dedup_keys, publisher, log, epoch>>
BY DEF Subscribe, Receive, Lag

LEMMA BusGoesOn ==
    ASSUME IInv, [TransportNext]_vars
    PROVE  IInv'
<1>1. CASE \E p \in Publishers : Publishing(p)
  <2>1. PICK p \in Publishers : Publishing(p)
    BY <1>1
  <2>2. CASE PublisherStep(p)
    BY <2>2, TickStep, NextSequenceStep, SendStep DEF PublisherStep
  <2>3. CASE \E t \in Topics, src \in Sources : Publish(p, t, src, NoKey)
    BY <2>3, PublishStep
  <2> QED BY <2>1, <2>2, <2>3 DEF Publishing
<1>2. ASSUME NEW s \in Subscribers, NEW t \in Topics, Subscribe(s, t) \/ Receive(s, t) \/ Lag(s, t)
      PROVE  IInv'
  BY <1>2, ReceiverStep
<1>3. CASE \E s \in Subscribers, t \in Topics : Take(s, t) \/ SkipMissed(s, t)
  BY <1>3, <1>2 DEF Take, SkipMissed
<1>4. CASE \E t \in Topics : StartWriter(t)
  BY <1>4, <1>2, ClientsSubscribe DEF StartWriter
<1>5. CASE \E c \in Clients, t \in Topics : SubscribeTopic(c, t)
  BY <1>5, <1>2, ClientsSubscribe DEF SubscribeTopic
<1>6. CASE \E c \in Clients : Disconnect(c)
  <2>1. PICK c \in Clients : Disconnect(c)
    BY <1>6
  <2>2. cursor' \in [Subscribers -> [Topics -> Nat]]
    BY <2>1 DEF Disconnect, Nowhere, IInv, BusTypeOK
  <2> QED BY <2>1, <2>2, CursorStep DEF Disconnect
<1>7. CASE UNCHANGED busVars
  BY <1>7, CursorStep DEF busVars, IInv, BusTypeOK
<1>8. CASE \E s \in Subscribers, t \in Topics : Offer(s, t)
  BY <1>8, <1>7 DEF Offer
<1>9. CASE BufferEvent
  BY <1>9, <1>7 DEF BufferEvent
<1>10. CASE \E c \in Clients : Connect(c) \/ Replay(c) \/ Deliver(c) \/ UpdateTier(c)
  BY <1>10, <1>7 DEF Connect, Replay, Deliver, UpdateTier
<1>11. CASE UNCHANGED vars
  BY <1>11, <1>7 DEF vars
<1> QED BY <1>1, <1>3, <1>4, <1>5, <1>6, <1>8, <1>9, <1>10, <1>11
        DEF TransportNext, Forwarder, Handler

(* Logs grow, and only by a send.                                          *)
LEMMA SendGrows ==
    ASSUME BusTypeOK, NEW p \in Publishers, Send(p), publisher[p] \in Ready
    PROVE  /\ LogGrows
           /\ \A t \in Topics : Len(log[t]) <= Len(log'[t])
<1>1. PICK t0 \in Topics, e \in Event : log' = [log EXCEPT ![t0] = Append(@, e)]
  BY DEF Send, Ready
<1> SUFFICES ASSUME NEW t \in Topics
             PROVE  /\ DOMAIN log[t] \subseteq DOMAIN log'[t]
                    /\ \A i \in DOMAIN log[t] : log'[t][i] = log[t][i]
                    /\ Len(log[t]) <= Len(log'[t])
  BY DEF LogGrows
<1>2. log[t] \in Seq(Event) /\ log[t0] \in Seq(Event) /\ log \in [Topics -> Seq(Event)]
  BY DEF BusTypeOK
<1>3. CASE t = t0
  <2>1. log'[t] = Append(log[t], e)
    BY <1>1, <1>2, <1>3
  <2> QED BY <2>1, <1>2, AppendProperties
<1>4. CASE t # t0
  <2>1. log'[t] = log[t]
    BY <1>1, <1>2, <1>4
  <2> QED BY <2>1, <1>2
<1> QED BY <1>3, <1>4

LEMMA LogsGrow ==
    ASSUME IInv, [TransportNext]_vars
    PROVE  LogGrows /\ \A t \in Topics : Len(log[t]) <= Len(log'[t])
<1>1. BusTypeOK
  BY DEF IInv
<1>2. CASE UNCHANGED log
  BY <1>1, <1>2, LogIsSeq DEF LogGrows
<1>3. ASSUME NEW p \in Publishers, Send(p)
      PROVE  LogGrows /\ \A t \in Topics : Len(log[t]) <= Len(log'[t])
  <2>1. publisher[p] \in Ready
    BY <1>1, <1>3, BusyIsReady DEF Send, Idle
  <2> QED BY <1>1, <1>3, <2>1, SendGrows
<1>4. CASE \E p \in Publishers : Publishing(p)
  <2>1. PICK p \in Publishers : Publishing(p)
    BY <1>4
  <2>2. UNCHANGED log \/ Send(p)
    BY <2>1 DEF Publishing, Publish, PublisherStep, Tick, NextSequence
  <2> QED BY <2>2, <1>2, <1>3
<1>5. CASE \E s \in Subscribers, t \in Topics : Take(s, t) \/ SkipMissed(s, t) \/ Offer(s, t)
  BY <1>5, <1>2 DEF Take, SkipMissed, Offer, Receive, Lag, busVars
<1>6. CASE BufferEvent \/ \E t \in Topics : StartWriter(t)
  BY <1>6, <1>2 DEF BufferEvent, StartWriter, Subscribe, busVars
<1>7. CASE \E c \in Clients : \/ \E t \in Topics : SubscribeTopic(c, t)
                             \/ Connect(c) \/ Replay(c) \/ Deliver(c) \/ UpdateTier(c) \/ Disconnect(c)
  BY <1>7, <1>2 DEF SubscribeTopic, Subscribe, Connect, Replay, Deliver, UpdateTier, Disconnect, busVars
<1>8. CASE UNCHANGED vars
  BY <1>8, <1>2 DEF vars, busVars
<1> QED BY <1>4, <1>5, <1>6, <1>7, <1>8 DEF TransportNext, Forwarder, Handler

-----------------------------------------------------------------------------
(* Types.                                                                  *)
LEMMA InitTransportInv == TransportInit => TransportInv
<1> SUFFICES ASSUME TransportInit PROVE TransportInv
  OBVIOUS
<1> USE TransportAssumption DEF TransportAssumption
<1>1. IInv
  BY InitIInv DEF TransportInit
<1>2. TransportTypeOK
  <2>1. <<>> \in Seq(Items) /\ Len(<<>>) = 0
    BY EmptySeq
  <2> QED BY <2>1 DEF TransportInit, TransportTypeOK, Nowhere
<1>3. \A s \in Subscribers, t \in Topics : cursor[s][t] = 0
  BY DEF TransportInit, Init
<1>4. \A t \in Topics : log[t] = <<>>
  BY DEF TransportInit, Init
<1>5. CursorsInLog
  BY <1>3, <1>4 DEF CursorsInLog
<1>6. ASSUME NEW c \in Clients PROVE Pipeline(c) /\ NoLoss(c)
  <2>1. delivered[c] = <<>> /\ queue[c] = <<>> /\ replayed[c] = 0
        /\ \A t \in Topics : hand[c][t] = <<>> /\ joined[c][t] = 0 /\ cursor[c][t] = 0
    BY <1>3 DEF TransportInit, Nowhere
  <2>2. Out(c) = <<>>
    BY <2>1 DEF Out, Live
  <2> QED BY <2>1, <2>2 DEF Pipeline, AllTaken, OutInOrder, StartsEmpty, HandIsNext, NoLoss
<1> QED BY <1>1, <1>2, <1>5, <1>6 DEF TransportInv

LEMMA ReceivedIsItem ==
    ASSUME BusTypeOK, NEW s \in Subscribers, NEW t \in Topics, Receive(s, t)
    PROVE  /\ cursor[s][t] \in DOMAIN log[t]
           /\ Item(t, NextEvent(s, t)) \in Items
           /\ Item(t, NextEvent(s, t)).topic = t
           /\ Item(t, NextEvent(s, t)).event = log[t][cursor[s][t]]
           /\ cursor' = [cursor EXCEPT ![s][t] = @ + 1]
<1>1. cursor[s][t] \in Nat /\ cursor[s][t] # 0 /\ cursor[s][t] <= Len(log[t])
  BY DEF BusTypeOK, Receive, Readable
<1>2. cursor[s][t] \in DOMAIN log[t] /\ log[t][cursor[s][t]] \in Event
  BY <1>1, LogIsSeq
<1> QED BY <1>2 DEF Receive, NextEvent, Item, Items

LEMMA TakeTypes ==
    ASSUME BusTypeOK, TransportTypeOK, NEW s \in Subscribers, NEW t \in Topics, Take(s, t)
    PROVE  /\ TransportTypeOK'
           /\ hand' = [hand EXCEPT ![s][t] = <<Item(t, NextEvent(s, t))>>]
<1> DEFINE item == Item(t, NextEvent(s, t))
<1>1. item \in Items
  BY ReceivedIsItem DEF Take
<1>2. hand' = [hand EXCEPT ![s][t] = <<item>>]
  BY DEF Take
<1> HIDE DEF item
<1>3. <<item>> \in Seq(Items) /\ Len(<<item>>) = 1
  BY <1>1
<1>4. hand' \in [Subscribers -> [Topics -> Seq(Items)]]
  BY <1>2, <1>3 DEF TransportTypeOK
<1>5. \A r \in Subscribers, u \in Topics : hand'[r][u] = hand[r][u] \/ hand'[r][u] = <<item>>
  BY <1>2 DEF TransportTypeOK
<1>6. UNCHANGED <<conn, tier, queue, recent, delivered, replayed, joined, excused>>
  BY DEF Take
<1>7. ASSUME NEW r \in Subscribers
      PROVE  Len(queue'[r]) <= QueueCapacity /\ \A u \in Topics : Len(hand'[r][u]) <= 1
  <2>1. Len(queue[r]) <= QueueCapacity /\ \A u \in Topics : Len(hand[r][u]) <= 1
    BY DEF TransportTypeOK
  <2>2. ASSUME NEW u \in Topics PROVE Len(hand'[r][u]) <= 1
    <3>1. CASE hand'[r][u] = hand[r][u]
      BY <2>1, <3>1
    <3>2. CASE hand'[r][u] = <<item>>
      BY <1>3, <3>2
    <3> QED BY <1>5, <3>1, <3>2
  <2> QED BY <1>6, <2>1, <2>2
<1>8. TransportTypeOK'
  BY <1>4, <1>6, <1>7 DEF TransportTypeOK
<1> QED BY <1>2, <1>8 DEF item

LEMMA OfferTypes ==
    ASSUME TransportTypeOK, NEW s \in Subscribers, NEW t \in Topics, Offer(s, t)
    PROVE  /\ TransportTypeOK'
           /\ hand[s][t] = <<hand[s][t][1]>> /\ hand[s][t][1] \in Items
           /\ queue' = [queue EXCEPT ![s] = Append(queue[s], hand[s][t][1])]
           /\ hand' = [hand EXCEPT ![s][t] = <<>>]
<1>1. queue[s] \in Seq(Items) /\ hand[s][t] \in Seq(Items) /\ Len(hand[s][t]) <= 1 /\ hand[s][t] # <<>>
  BY DEF Offer, TransportTypeOK
<1>2. Len(hand[s][t]) = 1
  <2>1. PICK n \in Nat \ {0} : n = Len(hand[s][t])
    BY <1>1, EmptySeq
  <2>2. n <= 1
    BY <1>1, <2>1
  <2>3. n = 1
    BY <2>2
  <2> QED BY <2>1, <2>3
<1>3. hand[s][t][1] \in Items /\ hand[s][t] = <<hand[s][t][1]>>
  BY <1>1, <1>2
<1>4. PICK item \in Items : hand[s][t] = <<item>>
  BY <1>3
<1>5. queue[s] \o hand[s][t] = Append(queue[s], item)
  BY <1>1, <1>4, AppendIsConcat
<1>6. queue' = [queue EXCEPT ![s] = Append(queue[s], item)]
  BY <1>5 DEF Offer, Enqueue
<1>7. hand' = [hand EXCEPT ![s][t] = <<>>] /\ UNCHANGED <<conn, tier, recent, delivered, replayed, joined, excused>>
      /\ Len(queue[s]) < QueueCapacity
  BY DEF Offer
<1>8. Append(queue[s], item) \in Seq(Items) /\ Len(Append(queue[s], item)) = Len(queue[s]) + 1
      /\ Len(queue[s]) \in Nat /\ <<>> \in Seq(Items) /\ Len(<<>>) = 0
  BY <1>1, AppendProperties
<1>9. queue' \in [Subscribers -> Seq(Items)] /\ hand' \in [Subscribers -> [Topics -> Seq(Items)]]
  BY <1>6, <1>7, <1>8 DEF TransportTypeOK
<1>10. \A r \in Subscribers : /\ queue'[r] = queue[r] \/ queue'[r] = Append(queue[s], item)
                              /\ \A u \in Topics : hand'[r][u] = hand[r][u] \/ hand'[r][u] = <<>>
  BY <1>6, <1>7 DEF TransportTypeOK
<1>11. Len(Append(queue[s], item)) <= QueueCapacity
  BY <1>7, <1>8, TransportAssumption DEF TransportAssumption
<1>12. ASSUME NEW r \in Subscribers
       PROVE  Len(queue'[r]) <= QueueCapacity /\ \A u \in Topics : Len(hand'[r][u]) <= 1
  <2>1. Len(queue[r]) <= QueueCapacity /\ \A u \in Topics : Len(hand[r][u]) <= 1
    BY DEF TransportTypeOK
  <2>2. ASSUME NEW u \in Topics PROVE Len(hand'[r][u]) <= 1
    BY <1>8, <1>10, <2>1
  <2>3. Len(queue'[r]) <= QueueCapacity
    <3>1. CASE queue'[r] = queue[r]
      BY <2>1, <3>1
    <3>2. CASE queue'[r] = Append(queue[s], item)
      BY <1>11, <3>2
    <3> QED BY <1>10, <3>1, <3>2
  <2> QED BY <2>2, <2>3
<1>13. TransportTypeOK'
  BY <1>7, <1>9, <1>12 DEF TransportTypeOK
<1>14. hand[s][t][1] = item
  BY <1>4
<1> QED BY <1>3, <1>6, <1>7, <1>13, <1>14

LEMMA SkipTypes ==
    ASSUME BusTypeOK, TransportTypeOK, NEW s \in Subscribers, NEW t \in Topics, SkipMissed(s, t)
    PROVE  TransportTypeOK'
<1>1. Oldest(t) \in 1 .. Len(log[t]) + 1 /\ cursor[s][t] \in Nat \ {0} /\ Len(log[t]) \in Nat
  BY OldestInLog, LogIsSeq DEF SkipMissed, Lag, Lagging, BusTypeOK
<1>2. \A i \in cursor[s][t] .. Oldest(t) - 1 : Item(t, log[t][i]) \in Items
  <2> SUFFICES ASSUME NEW i \in cursor[s][t] .. Oldest(t) - 1 PROVE Item(t, log[t][i]) \in Items
    OBVIOUS
  <2>1. i \in DOMAIN log[t]
    BY <1>1, LogIsSeq
  <2>2. log[t][i] \in Event
    BY <2>1, LogIsSeq
  <2> QED BY <2>2 DEF Item, Items
<1>3. excused' \in [Clients -> SUBSET Items]
  BY <1>2, TransportAssumption DEF TransportAssumption, SkipMissed, TransportTypeOK
<1> QED BY <1>3 DEF SkipMissed, TransportTypeOK

LEMMA DeliverTypes ==
    ASSUME TransportTypeOK, NEW c \in Clients, Deliver(c)
    PROVE  /\ TransportTypeOK'
           /\ queue[c] \in Seq(Items) /\ queue[c] # <<>> /\ Head(queue[c]) \in Items
           /\ queue' = [queue EXCEPT ![c] = Tail(queue[c])]
           /\ \/ /\ delivered' = [delivered EXCEPT ![c] = Append(delivered[c], Head(queue[c]))]
                 /\ UNCHANGED excused
              \/ /\ excused' = [excused EXCEPT ![c] = excused[c] \cup {Head(queue[c])}]
                 /\ UNCHANGED delivered
<1>1. queue[c] \in Seq(Items) /\ queue[c] # <<>> /\ delivered[c] \in Seq(Items) /\ c \in Subscribers
  BY ClientsSubscribe DEF Deliver, TransportTypeOK
<1>2. PICK item \in Items : item = Head(queue[c])
  BY <1>1, HeadTailProperties
<1>3. Tail(queue[c]) \in Seq(Items) /\ Len(Tail(queue[c])) = Len(queue[c]) - 1 /\ Len(queue[c]) \in Nat
  BY <1>1, HeadTailProperties
<1>4. queue' = [queue EXCEPT ![c] = Tail(queue[c])]
      /\ UNCHANGED <<busVars, hand, conn, tier, recent, replayed, joined>>
  BY DEF Deliver
<1>5. \/ delivered' = [delivered EXCEPT ![c] = Append(delivered[c], item)] /\ UNCHANGED excused
      \/ excused' = [excused EXCEPT ![c] = excused[c] \cup {item}] /\ UNCHANGED delivered
  BY <1>2 DEF Deliver
<1>6. Append(delivered[c], item) \in Seq(Items) /\ Len(Append(delivered[c], item)) = Len(delivered[c]) + 1
      /\ Len(delivered[c]) \in Nat /\ replayed[c] \in Nat /\ replayed[c] <= Len(delivered[c])
  BY <1>1, AppendProperties DEF TransportTypeOK
<1>7. /\ queue' \in [Subscribers -> Seq(Items)]
      /\ \A s \in Subscribers : Len(queue'[s]) <= QueueCapacity
  <2>1. \A s \in Subscribers : queue'[s] = queue[s] \/ queue'[s] = Tail(queue[c])
    BY <1>4 DEF TransportTypeOK
  <2>2. Len(Tail(queue[c])) <= QueueCapacity
    BY <1>1, <1>3, TransportAssumption DEF TransportTypeOK, TransportAssumption
  <2>3. queue' \in [Subscribers -> Seq(Items)]
    BY <1>3, <1>4 DEF TransportTypeOK
  <2> QED BY <2>1, <2>2, <2>3 DEF TransportTypeOK
<1>8. /\ delivered' \in [Clients -> Seq(Items)] /\ excused' \in [Clients -> SUBSET Items]
      /\ \A d \in Clients : replayed[d] <= Len(delivered'[d])
  <2>1. CASE delivered' = [delivered EXCEPT ![c] = Append(delivered[c], item)] /\ UNCHANGED excused
    <3>1. delivered' \in [Clients -> Seq(Items)]
      BY <2>1, <1>6 DEF TransportTypeOK
    <3>2. ASSUME NEW d \in Clients PROVE replayed[d] <= Len(delivered'[d])
      <4>1. CASE d = c
        BY <4>1, <2>1, <1>6 DEF TransportTypeOK
      <4>2. CASE d # c
        BY <4>2, <2>1 DEF TransportTypeOK
      <4> QED BY <4>1, <4>2
    <3> QED BY <3>1, <3>2, <2>1 DEF TransportTypeOK
  <2>2. CASE excused' = [excused EXCEPT ![c] = excused[c] \cup {item}] /\ UNCHANGED delivered
    BY <2>2 DEF TransportTypeOK
  <2> QED BY <1>5, <2>1, <2>2
<1>9. TransportTypeOK'
  BY <1>4, <1>7, <1>8 DEF TransportTypeOK
<1> QED BY <1>1, <1>2, <1>4, <1>5, <1>9

LEMMA ReplayTypes ==
    ASSUME TransportTypeOK, NEW c \in Clients, Replay(c)
    PROVE  TransportTypeOK'
<1>1. recent \in Seq(Items) /\ Len(recent) \in Nat
  BY DEF TransportTypeOK
<1>2. delivered' = [delivered EXCEPT ![c] = recent] /\ replayed' = [replayed EXCEPT ![c] = Len(recent)]
      /\ conn' = [conn EXCEPT ![c] = "open"]
      /\ UNCHANGED <<busVars, hand, tier, queue, recent, joined, excused>>
  BY DEF Replay
<1>3. delivered' \in [Clients -> Seq(Items)] /\ replayed' \in [Clients -> Nat]
  BY <1>1, <1>2 DEF TransportTypeOK
<1>4. ASSUME NEW d \in Clients PROVE replayed'[d] <= Len(delivered'[d])
  <2>1. CASE d = c
    BY <2>1, <1>1, <1>2 DEF TransportTypeOK
  <2>2. CASE d # c
    BY <2>2, <1>2 DEF TransportTypeOK
  <2> QED BY <2>1, <2>2
<1> QED BY <1>2, <1>3, <1>4 DEF TransportTypeOK

LEMMA BufferTypes ==
    ASSUME TransportTypeOK, BufferEvent
    PROVE  TransportTypeOK'
<1> DEFINE q == queue[Writer]
<1>1. q \in Seq(Items) /\ q # <<>> /\ Writer \in Subscribers /\ recent \in Seq(Items) /\ Len(recent) <= RecentCapacity
  BY ClientsSubscribe DEF BufferEvent, TransportTypeOK
<1>2. Head(q) \in Items /\ Tail(q) \in Seq(Items) /\ Len(Tail(q)) = Len(q) - 1 /\ Len(q) \in Nat
  BY <1>1, HeadTailProperties
<1>3. queue' = [queue EXCEPT ![Writer] = Tail(q)] /\ recent' = Remembered(recent, Head(q))
      /\ UNCHANGED <<busVars, hand, conn, tier, delivered, replayed, joined, excused>>
  BY DEF BufferEvent
<1>4. Len(q) <= QueueCapacity
  BY <1>1 DEF TransportTypeOK
<1> HIDE DEF q
<1>5. Remembered(recent, Head(q)) \in Seq(Items) /\ Len(Remembered(recent, Head(q))) <= RecentCapacity
  <2>1. RecentCapacity \in Nat \ {0} /\ Len(recent) \in Nat
    BY <1>1, TransportAssumption DEF TransportAssumption
  <2>2. CASE Len(recent) >= RecentCapacity
    <3>1. recent # <<>>
      BY <2>1, <2>2
    <3>2. Tail(recent) \in Seq(Items) /\ Len(Tail(recent)) = Len(recent) - 1
      BY <1>1, <3>1, HeadTailProperties
    <3>3. Remembered(recent, Head(q)) = Append(Tail(recent), Head(q))
      BY <2>2 DEF Remembered
    <3> QED BY <1>1, <1>2, <2>1, <3>2, <3>3, AppendProperties
  <2>3. CASE Len(recent) < RecentCapacity
    <3>1. Remembered(recent, Head(q)) = Append(recent, Head(q))
      BY <2>1, <2>3 DEF Remembered
    <3> QED BY <1>1, <1>2, <2>1, <2>3, <3>1, AppendProperties
  <2> QED BY <2>1, <2>2, <2>3
<1>6. /\ queue' \in [Subscribers -> Seq(Items)]
      /\ \A s \in Subscribers : Len(queue'[s]) <= QueueCapacity
  <2>1. \A s \in Subscribers : queue'[s] = queue[s] \/ queue'[s] = Tail(q)
    BY <1>3 DEF TransportTypeOK
  <2>2. Len(Tail(q)) <= QueueCapacity
    BY <1>2, <1>4, TransportAssumption DEF TransportAssumption
  <2>3. queue' \in [Subscribers -> Seq(Items)]
    BY <1>2, <1>3 DEF TransportTypeOK
  <2> QED BY <2>1, <2>2, <2>3 DEF TransportTypeOK
<1> QED BY <1>3, <1>5, <1>6 DEF TransportTypeOK

LEMMA DisconnectTypes ==
    ASSUME TransportTypeOK, NEW c \in Clients, Disconnect(c)
    PROVE  TransportTypeOK'
<1>1. <<>> \in Seq(Items) /\ Len(<<>>) = 0 /\ QueueCapacity \in Nat
  BY EmptySeq, TransportAssumption DEF TransportAssumption
<1>2. /\ conn' \in [Clients -> {"offline", "subscribing", "open"}] /\ UNCHANGED <<tier, recent>>
      /\ queue' \in [Subscribers -> Seq(Items)] /\ hand' \in [Subscribers -> [Topics -> Seq(Items)]]
      /\ delivered' \in [Clients -> Seq(Items)] /\ replayed' \in [Clients -> Nat]
      /\ joined' \in [Subscribers -> [Topics -> Nat]] /\ excused' \in [Clients -> SUBSET Items]
  BY <1>1 DEF Disconnect, TransportTypeOK, Nowhere
<1>3. \A s \in Subscribers : /\ queue'[s] = queue[s] \/ queue'[s] = <<>>
                             /\ \A t \in Topics : hand'[s][t] = hand[s][t] \/ hand'[s][t] = <<>>
  BY DEF Disconnect, TransportTypeOK
<1>4. \A s \in Subscribers : Len(queue'[s]) <= QueueCapacity /\ \A t \in Topics : Len(hand'[s][t]) <= 1
  BY <1>1, <1>3 DEF TransportTypeOK
<1>5. \A d \in Clients : \/ replayed'[d] = 0 /\ delivered'[d] = <<>>
                         \/ replayed'[d] = replayed[d] /\ delivered'[d] = delivered[d]
  BY DEF Disconnect, TransportTypeOK
<1>6. \A d \in Clients : replayed'[d] <= Len(delivered'[d])
  BY <1>1, <1>5 DEF TransportTypeOK
<1> QED BY <1>2, <1>4, <1>6 DEF TransportTypeOK

LEMMA SubscribeTypes ==
    ASSUME BusTypeOK, TransportTypeOK, NEW s \in Subscribers, NEW t \in Topics,
           joined' = [joined EXCEPT ![s][t] = Len(log[t]) + 1],
           UNCHANGED <<hand, conn, tier, queue, recent, delivered, replayed, excused>>
    PROVE  TransportTypeOK'
<1>1. Len(log[t]) + 1 \in Nat
  BY LogIsSeq
<1>2. joined' \in [Subscribers -> [Topics -> Nat]]
  BY <1>1 DEF TransportTypeOK
<1> QED BY <1>2 DEF TransportTypeOK

(* A step of transport keeps the types.                                    *)
LEMMA TypesStay ==
    ASSUME IInv, TransportTypeOK, [TransportNext]_vars
    PROVE  TransportTypeOK'
<1>1. BusTypeOK
  BY DEF IInv
<1>2. CASE \E p \in Publishers : Publishing(p)
  BY <1>2 DEF Publishing, transportVars, TransportTypeOK
<1>3. ASSUME NEW s \in Subscribers, NEW t \in Topics, Take(s, t) \/ Offer(s, t) \/ SkipMissed(s, t)
      PROVE  TransportTypeOK'
  BY <1>1, <1>3, TakeTypes, OfferTypes, SkipTypes
<1>4. ASSUME NEW t \in Topics, StartWriter(t)
      PROVE  TransportTypeOK'
  BY <1>1, <1>4, ClientsSubscribe, SubscribeTypes DEF StartWriter
<1>5. ASSUME NEW c \in Clients, NEW t \in Topics, SubscribeTopic(c, t)
      PROVE  TransportTypeOK'
  BY <1>1, <1>5, ClientsSubscribe, SubscribeTypes DEF SubscribeTopic
<1>6. ASSUME NEW c \in Clients, Replay(c) \/ Deliver(c) \/ Disconnect(c)
      PROVE  TransportTypeOK'
  BY <1>6, ReplayTypes, DeliverTypes, DisconnectTypes
<1>7. ASSUME NEW c \in Clients, Connect(c) \/ UpdateTier(c)
      PROVE  TransportTypeOK'
  BY <1>7 DEF Connect, UpdateTier, TransportTypeOK
<1>8. CASE BufferEvent
  BY <1>8, BufferTypes
<1>9. CASE UNCHANGED vars
  BY <1>9 DEF vars, transportVars, TransportTypeOK
<1> QED BY <1>2, <1>3, <1>4, <1>5, <1>6, <1>7, <1>8, <1>9 DEF TransportNext, Forwarder, Handler

-----------------------------------------------------------------------------
(* Places in the logs.                                                     *)
LEMMA PlacesStay ==
    ASSUME BusTypeOK, LogGrows
    PROVE  \A a, b \in Items : /\ \A n : At(a, n) => At(a, n)'
                               /\ Before(a, b) => Before(a, b)'
<1>1. \A a \in Items : a.topic \in Topics
  BY DEF Items
<1>2. \A a \in Items : \A n : At(a, n) => At(a, n)'
  BY <1>1 DEF At, LogGrows
<1>3. \A a \in Items : DOMAIN log[a.topic] \subseteq DOMAIN log'[a.topic]
  BY <1>1 DEF LogGrows
<1> QED BY <1>2, <1>3 DEF Before

LEMMA TakenStays ==
    ASSUME BusTypeOK, BusTypeOK', LogGrows, NEW c \in Clients,
           \A t \in Topics : cursor[c][t] <= cursor'[c][t]
    PROVE  \A a \in Items : Taken(c, a) => Taken(c, a)'
<1> SUFFICES ASSUME NEW a \in Items, Taken(c, a) PROVE Taken(c, a)'
  OBVIOUS
<1>1. a.topic \in Topics
  BY DEF Items
<1>2. PICK n \in DOMAIN log[a.topic] : At(a, n) /\ n < cursor[c][a.topic]
  BY DEF Taken
<1>3. At(a, n)' /\ n \in DOMAIN log'[a.topic]
  BY <1>1, <1>2, PlacesStay DEF LogGrows
<1>4. n \in Nat /\ cursor[c][a.topic] \in Nat /\ cursor'[c][a.topic] \in Nat
  BY <1>1, <1>2, LogIsSeq, ClientsSubscribe DEF BusTypeOK
<1>5. n < cursor'[c][a.topic]
  BY <1>1, <1>2, <1>4
<1> QED BY <1>3, <1>5 DEF Taken

LEMMA OutIsSeq ==
    TransportTypeOK =>
        \A c \in Clients : /\ Live(c) \in Seq(Items) /\ queue[c] \in Seq(Items) /\ Out(c) \in Seq(Items)
                           /\ \A i \in DOMAIN Out(c) : i \in Nat /\ Out(c)[i] \in Items
<1> SUFFICES ASSUME TransportTypeOK, NEW c \in Clients
             PROVE  /\ Live(c) \in Seq(Items) /\ queue[c] \in Seq(Items) /\ Out(c) \in Seq(Items)
                    /\ \A i \in DOMAIN Out(c) : i \in Nat /\ Out(c)[i] \in Items
  OBVIOUS
<1>1. queue[c] \in Seq(Items) /\ delivered[c] \in Seq(Items) /\ replayed[c] \in Nat
  BY ClientsSubscribe DEF TransportTypeOK
<1>2. Live(c) \in Seq(Items)
  <2>1. Len(delivered[c]) \in Nat /\ \A i \in replayed[c] + 1 .. Len(delivered[c]) : delivered[c][i] \in Items
    BY <1>1
  <2> QED BY <2>1, <1>1, SubSeqProperties DEF Live
<1>3. Out(c) \in Seq(Items)
  BY <1>1, <1>2, ConcatProperties DEF Out
<1> QED BY <1>1, <1>2, <1>3

(* A step that takes nothing new on a client's way, or drops some of it.   *)
LEMMA PipelineThins ==
    ASSUME IInv, IInv', TransportTypeOK, TransportTypeOK', LogGrows, NEW c \in Clients,
           \A t \in Topics : cursor[c][t] <= cursor'[c][t],
           NEW out2 \in Seq(Items), out2 = Out(c)',
           PartOf(out2, Out(c)),
           hand'[c] = hand[c], StartsEmpty(c)', Pipeline(c)
    PROVE  Pipeline(c)'
<1>1. BusTypeOK /\ BusTypeOK'
  BY DEF IInv
<1>2. PICK out \in Seq(Items) : out = Out(c)
  BY OutIsSeq
<1>3. \A i \in DOMAIN out : out[i] \in Items
  BY <1>2
<1>4. \A a, b \in Items : (Taken(c, a) => Taken(c, a)') /\ (Before(a, b) => Before(a, b)')
  BY <1>1, TakenStays, PlacesStay
<1>5. /\ \A i \in DOMAIN out2 : \E m \in DOMAIN out : out2[i] = out[m]
      /\ \A i, j \in DOMAIN out2 : i < j =>
             \E m, n \in DOMAIN out : m < n /\ out2[i] = out[m] /\ out2[j] = out[n]
  BY <1>2 DEF PartOf
<1>6. ASSUME NEW i \in DOMAIN out2 PROVE Taken(c, out2[i])'
  <2>1. PICK m \in DOMAIN out, a \in Items : a = out[m] /\ a = out2[i]
    BY <1>3, <1>5
  <2>2. Taken(c, a)
    BY <1>2, <2>1 DEF Pipeline, AllTaken
  <2> QED BY <1>4, <2>1, <2>2
<1>7. ASSUME NEW i \in DOMAIN out2, NEW j \in DOMAIN out2, i < j, out2[i].topic = out2[j].topic
      PROVE  Before(out2[i], out2[j])'
  <2>1. PICK m \in DOMAIN out, n \in DOMAIN out : m < n /\ out2[i] = out[m] /\ out2[j] = out[n]
    BY <1>5, <1>7
  <2>2. PICK a \in Items, b \in Items : a = out[m] /\ b = out[n]
    BY <1>3
  <2>3. Before(a, b)
    BY <1>2, <1>7, <2>1, <2>2 DEF Pipeline, OutInOrder
  <2> QED BY <1>4, <2>1, <2>2, <2>3
<1>8. ASSUME NEW t \in Topics PROVE HandIsNext(c, t)'
  <2> hand[c][t] \in Seq(Items)
    BY ClientsSubscribe DEF TransportTypeOK
  <2>1. PICK inHand \in Seq(Items) : inHand = hand[c][t]
    OBVIOUS
  <2>2. inHand = hand'[c][t] /\ \A k \in DOMAIN inHand : inHand[k] \in Items
    BY <2>1
  <2>3. ASSUME NEW k \in DOMAIN inHand
        PROVE  /\ inHand[k].topic = t /\ Taken(c, inHand[k])'
               /\ \A i \in DOMAIN out2 : out2[i].topic = t => Before(out2[i], inHand[k])'
    <3>1. PICK b \in Items : b = inHand[k]
      BY <2>2
    <3>2. b.topic = t /\ Taken(c, b) /\ \A i \in DOMAIN out : out[i].topic = t => Before(out[i], b)
      BY <1>2, <2>1, <3>1 DEF Pipeline, HandIsNext
    <3>3. ASSUME NEW i \in DOMAIN out2, out2[i].topic = t PROVE Before(out2[i], b)'
      <4>1. PICK m \in DOMAIN out, a \in Items : a = out[m] /\ a = out2[i]
        BY <1>3, <1>5
      <4>2. Before(a, b)
        BY <3>2, <3>3, <4>1
      <4> QED BY <1>4, <4>1, <4>2
    <3> QED BY <1>4, <3>1, <3>2, <3>3
  <2> QED BY <2>2, <2>3 DEF HandIsNext
<1> QED BY <1>6, <1>7, <1>8 DEF Pipeline, AllTaken, OutInOrder

LEMMA PipelineStays ==
    ASSUME IInv, IInv', TransportTypeOK, TransportTypeOK', LogGrows, NEW c \in Clients,
           \A t \in Topics : cursor[c][t] <= cursor'[c][t],
           Out(c)' = Out(c), hand'[c] = hand[c], StartsEmpty(c)', Pipeline(c)
    PROVE  Pipeline(c)'
<1>1. PICK out \in Seq(Items) : out = Out(c)
  BY OutIsSeq
<1>2. PartOf(out, Out(c))
  BY <1>1 DEF PartOf
<1> QED BY <1>1, <1>2, PipelineThins



(* A step in which nothing of the client's way moves.                      *)
Same(c) ==
    /\ hand'[c] = hand[c] /\ queue'[c] = queue[c] /\ cursor'[c] = cursor[c] /\ joined'[c] = joined[c]
    /\ delivered'[c] = delivered[c] /\ replayed'[c] = replayed[c] /\ excused'[c] = excused[c]
    /\ conn'[c] # "open" => conn[c] # "open"

OwnStep(c) ==
    \/ \E t \in Topics : Take(c, t) \/ Offer(c, t) \/ SkipMissed(c, t) \/ SubscribeTopic(c, t)
    \/ Replay(c) \/ Deliver(c) \/ Disconnect(c)

LEMMA OthersStay ==
    ASSUME BusTypeOK, TransportTypeOK, NEW c \in Clients, [TransportNext]_vars
    PROVE  Same(c) \/ OwnStep(c)
<1>1. /\ hand \in [Subscribers -> [Topics -> Seq(Items)]] /\ queue \in [Subscribers -> Seq(Items)]
      /\ cursor \in [Subscribers -> [Topics -> Nat]] /\ joined \in [Subscribers -> [Topics -> Nat]]
      /\ delivered \in [Clients -> Seq(Items)] /\ replayed \in [Clients -> Nat]
      /\ excused \in [Clients -> SUBSET Items] /\ c \in Subscribers /\ c # Writer
      /\ conn \in [Clients -> {"offline", "subscribing", "open"}]
  BY ClientsSubscribe DEF BusTypeOK, TransportTypeOK
<1>2. CASE \E p \in Publishers : Publishing(p)
  <2>1. UNCHANGED <<transportVars, cursor>>
    BY <1>2 DEF Publishing, Publish, PublisherStep, Tick, NextSequence, Send
  <2> QED BY <2>1 DEF transportVars, Same
<1>3. ASSUME NEW s \in Subscribers, NEW t \in Topics, Take(s, t) \/ Offer(s, t) \/ SkipMissed(s, t), s # c
      PROVE  Same(c)
  <2>1. CASE Take(s, t)
    BY <1>1, <1>3, <2>1 DEF Take, Receive, Same
  <2>2. CASE Offer(s, t)
    BY <1>1, <1>3, <2>2 DEF Offer, Enqueue, busVars, Same
  <2>3. CASE SkipMissed(s, t)
    BY <1>1, <1>3, <2>3 DEF SkipMissed, Lag, Same
  <2> QED BY <1>3, <2>1, <2>2, <2>3
<1>4. ASSUME NEW t \in Topics, StartWriter(t)
      PROVE  Same(c)
  BY <1>1, <1>4 DEF StartWriter, Subscribe, Same
<1>5. ASSUME NEW d \in Clients, NEW t \in Topics, SubscribeTopic(d, t), d # c
      PROVE  Same(c)
  BY <1>1, <1>5 DEF SubscribeTopic, Subscribe, Same
<1>6. ASSUME NEW d \in Clients, Replay(d) \/ Deliver(d) \/ Disconnect(d), d # c
      PROVE  Same(c)
  <2>1. CASE Replay(d)
    BY <1>1, <1>6, <2>1 DEF Replay, busVars, Same
  <2>2. CASE Deliver(d)
    BY <1>1, <1>6, <2>2 DEF Deliver, busVars, Same
  <2>3. CASE Disconnect(d)
    BY <1>1, <1>6, <2>3 DEF Disconnect, Same
  <2> QED BY <1>6, <2>1, <2>2, <2>3
<1>7. ASSUME NEW d \in Clients, Connect(d) \/ UpdateTier(d)
      PROVE  Same(c)
  BY <1>1, <1>7 DEF Connect, UpdateTier, busVars, Same
<1>8. CASE BufferEvent
  BY <1>1, <1>8 DEF BufferEvent, busVars, Same
<1>9. CASE UNCHANGED vars
  BY <1>9 DEF vars, busVars, transportVars, Same
<1> QED BY <1>2, <1>3, <1>4, <1>5, <1>6, <1>7, <1>8, <1>9
        DEF TransportNext, Forwarder, Handler, OwnStep

LEMMA SamePipeline ==
    ASSUME IInv, IInv', TransportTypeOK, TransportTypeOK', LogGrows, NEW c \in Clients,
           Same(c), Pipeline(c)
    PROVE  Pipeline(c)'
<1>1. Out(c)' = Out(c) /\ hand'[c] = hand[c]
  BY DEF Same, Out, Live
<1>2. StartsEmpty(c)'
  BY DEF Same, Pipeline, StartsEmpty
<1>3. \A t \in Topics : cursor[c][t] <= cursor'[c][t]
  BY ClientsSubscribe DEF Same, IInv, BusTypeOK
<1> QED BY <1>1, <1>2, <1>3, PipelineStays

-----------------------------------------------------------------------------
(* The steps of a client's own way.                                        *)
LEMMA TakePipeline ==
    ASSUME IInv, IInv', TransportTypeOK, TransportTypeOK', LogGrows, NEW c \in Clients,
           NEW t \in Topics, Take(c, t), Pipeline(c)
    PROVE  Pipeline(c)'
<1>1. BusTypeOK /\ BusTypeOK' /\ c \in Subscribers
  BY ClientsSubscribe DEF IInv
<1>2. PICK item \in Items : item = Item(t, NextEvent(c, t))
  BY <1>1, ReceivedIsItem DEF Take
<1>3. PICK n \in DOMAIN log[t] : n = cursor[c][t] /\ item.topic = t /\ item.event = log[t][n]
  BY <1>1, <1>2, ReceivedIsItem DEF Take
<1>4. n \in Nat /\ cursor' = [cursor EXCEPT ![c][t] = n + 1]
      /\ hand' = [hand EXCEPT ![c][t] = <<item>>]
  BY <1>1, <1>2, <1>3, ReceivedIsItem, TakeTypes, LogIsSeq DEF Take
<1>5. cursor \in [Subscribers -> [Topics -> Nat]] /\ hand \in [Subscribers -> [Topics -> Seq(Items)]]
  BY <1>1 DEF BusTypeOK, TransportTypeOK
<1>6. \A u \in Topics : cursor[c][u] <= cursor'[c][u]
  BY <1>1, <1>3, <1>4, <1>5
<1>7. Out(c)' = Out(c) /\ conn' = conn /\ delivered' = delivered /\ replayed' = replayed
  BY DEF Take, Out, Live
<1>8. PICK out \in Seq(Items) : out = Out(c)
  BY OutIsSeq
<1>9. out = Out(c)' /\ \A i \in DOMAIN out : out[i] \in Items
  BY <1>7, <1>8
<1>10. \A a, b \in Items : (Taken(c, a) => Taken(c, a)') /\ (Before(a, b) => Before(a, b)')
  BY <1>1, <1>6, TakenStays, PlacesStay
<1>11. AllTaken(c)' /\ OutInOrder(c)' /\ StartsEmpty(c)'
  BY <1>7, <1>8, <1>9, <1>10 DEF Pipeline, AllTaken, OutInOrder, StartsEmpty
<1>12. At(item, n) /\ At(item, n)'
  BY <1>1, <1>3, PlacesStay DEF At
<1>13. Taken(c, item)'
  <2>1. n < cursor'[c][t] /\ n \in DOMAIN log'[t]
    BY <1>1, <1>3, <1>4, <1>5 DEF LogGrows
  <2> QED BY <2>1, <1>3, <1>12 DEF Taken
<1>14. ASSUME NEW i \in DOMAIN out, out[i].topic = t
       PROVE  Before(out[i], item)'
  <2>1. PICK a \in Items : a = out[i]
    BY <1>9
  <2>2. PICK m \in DOMAIN log[t] : At(a, m) /\ m < n
    BY <1>3, <1>8, <1>14, <2>1 DEF Pipeline, AllTaken, Taken
  <2>3. Before(a, item)
    BY <1>3, <1>12, <1>14, <2>1, <2>2 DEF Before
  <2> QED BY <1>10, <2>1, <2>3
<1>15. HandIsNext(c, t)'
  <2>1. hand'[c][t] = <<item>>
    BY <1>1, <1>4, <1>5
  <2>2. \A k \in DOMAIN <<item>> : <<item>>[k] = item
    OBVIOUS
  <2> QED BY <1>3, <1>9, <1>13, <1>14, <2>1, <2>2 DEF HandIsNext
<1>16. ASSUME NEW u \in Topics, u # t PROVE HandIsNext(c, u)'
  <2>1. PICK inHand \in Seq(Items) : inHand = hand[c][u]
    BY <1>1, <1>5
  <2>2. inHand = hand'[c][u] /\ \A k \in DOMAIN inHand : inHand[k] \in Items
    BY <1>1, <1>4, <1>5, <1>16, <2>1
  <2>3. ASSUME NEW k \in DOMAIN inHand
        PROVE  /\ inHand[k].topic = u /\ Taken(c, inHand[k])'
               /\ \A i \in DOMAIN out : out[i].topic = u => Before(out[i], inHand[k])'
    <3>1. PICK b \in Items : b = inHand[k]
      BY <2>2
    <3>2. b.topic = u /\ Taken(c, b) /\ \A i \in DOMAIN out : out[i].topic = u => Before(out[i], b)
      BY <1>8, <2>1, <3>1 DEF Pipeline, HandIsNext
    <3>3. ASSUME NEW i \in DOMAIN out, out[i].topic = u PROVE Before(out[i], b)'
      <4>1. PICK a \in Items : a = out[i]
        BY <1>9
      <4>2. Before(a, b)
        BY <3>2, <3>3, <4>1
      <4> QED BY <1>10, <4>1, <4>2
    <3> QED BY <1>10, <3>1, <3>2, <3>3
  <2> QED BY <1>9, <2>2, <2>3 DEF HandIsNext
<1> QED BY <1>11, <1>15, <1>16 DEF Pipeline

LEMMA OfferPipeline ==
    ASSUME IInv, IInv', TransportTypeOK, TransportTypeOK', LogGrows, NEW c \in Clients,
           NEW t \in Topics, Offer(c, t), Pipeline(c)
    PROVE  Pipeline(c)'
<1>1. BusTypeOK /\ BusTypeOK' /\ c \in Subscribers
  BY ClientsSubscribe DEF IInv
<1>2. PICK item \in Items : item = hand[c][t][1]
  BY <1>1, OfferTypes
<1>3. /\ hand[c][t] = <<item>> /\ queue' = [queue EXCEPT ![c] = Append(queue[c], item)]
      /\ hand' = [hand EXCEPT ![c][t] = <<>>]
      /\ UNCHANGED <<cursor, log, conn, delivered, replayed>>
  BY <1>1, <1>2, OfferTypes DEF Offer, busVars
<1>4. PICK out \in Seq(Items) : out = Out(c)
  BY OutIsSeq
<1>5. Out(c)' = Append(out, item)
  <2>1. queue'[c] = Append(queue[c], item) /\ Live(c)' = Live(c)
    BY <1>1, <1>3 DEF TransportTypeOK, Live
  <2>2. Live(c) \in Seq(Items) /\ queue[c] \in Seq(Items)
    BY OutIsSeq
  <2> QED BY <2>1, <2>2, <1>4, LastInChannel DEF Out
<1>6. PICK out2 \in Seq(Items) : out2 = Append(out, item)
  BY AppendProperties
<1>7. /\ Len(out) \in Nat /\ DOMAIN out = 1 .. Len(out) /\ DOMAIN out2 = 1 .. Len(out) + 1
      /\ out2[Len(out) + 1] = item /\ \A i \in DOMAIN out : out2[i] = out[i] /\ out[i] \in Items
  BY <1>6, AppendProperties
<1>8. out2 = Out(c)' /\ \A i \in DOMAIN out2 : i \in DOMAIN out \/ i = Len(out) + 1
  BY <1>5, <1>6, <1>7
<1>9. \A a, b \in Items : (Taken(c, a) => Taken(c, a)') /\ (Before(a, b) => Before(a, b)')
  <2>1. \A u \in Topics : cursor[c][u] <= cursor'[c][u]
    BY <1>1, <1>3 DEF BusTypeOK
  <2> QED BY <1>1, <2>1, TakenStays, PlacesStay
<1>10. /\ item.topic = t /\ Taken(c, item)
       /\ \A i \in DOMAIN out : out[i].topic = t => Before(out[i], item)
  <2>1. 1 \in DOMAIN hand[c][t] /\ hand[c][t][1] = item
    BY <1>3
  <2> QED BY <1>4, <2>1 DEF Pipeline, HandIsNext
<1>11. AllTaken(c)'
  <2>1. ASSUME NEW i \in DOMAIN out2 PROVE Taken(c, out2[i])'
    <3>1. CASE i \in DOMAIN out
      <4>1. PICK a \in Items : a = out[i]
        BY <1>7, <3>1
      <4>2. Taken(c, a)
        BY <1>4, <3>1, <4>1 DEF Pipeline, AllTaken
      <4> QED BY <1>7, <1>9, <3>1, <4>1, <4>2
    <3>2. CASE i = Len(out) + 1
      BY <1>7, <1>9, <1>10, <3>2
    <3> QED BY <1>8, <3>1, <3>2
  <2> QED BY <1>8, <2>1 DEF AllTaken
<1>12. OutInOrder(c)'
  <2>1. ASSUME NEW i \in DOMAIN out2, NEW j \in DOMAIN out2, i < j, out2[i].topic = out2[j].topic
        PROVE  Before(out2[i], out2[j])'
    <3>1. i \in DOMAIN out
      BY <1>7, <2>1
    <3>2. PICK a \in Items : a = out[i] /\ a = out2[i]
      BY <1>7, <3>1
    <3>3. CASE j \in DOMAIN out
      <4>1. PICK b \in Items : b = out[j] /\ b = out2[j]
        BY <1>7, <3>3
      <4>2. Before(a, b)
        BY <1>4, <2>1, <3>1, <3>2, <3>3, <4>1 DEF Pipeline, OutInOrder
      <4> QED BY <1>9, <3>2, <4>1, <4>2
    <3>4. CASE j = Len(out) + 1
      <4>1. Before(a, item)
        BY <1>7, <1>10, <2>1, <3>1, <3>2, <3>4
      <4> QED BY <1>7, <1>9, <3>2, <3>4, <4>1
    <3> QED BY <1>8, <3>3, <3>4
  <2> QED BY <1>8, <2>1 DEF OutInOrder
<1>13. StartsEmpty(c)'
  BY <1>3 DEF Pipeline, StartsEmpty
<1>14. hand \in [Subscribers -> [Topics -> Seq(Items)]]
  BY DEF TransportTypeOK
<1>15. HandIsNext(c, t)'
  BY <1>1, <1>3, <1>14 DEF HandIsNext
<1>16. ASSUME NEW u \in Topics, u # t PROVE HandIsNext(c, u)'
  <2>1. PICK inHand \in Seq(Items) : inHand = hand[c][u]
    BY <1>1, <1>14
  <2>2. inHand = hand'[c][u] /\ \A k \in DOMAIN inHand : inHand[k] \in Items
    BY <1>1, <1>3, <1>14, <1>16, <2>1
  <2>3. ASSUME NEW k \in DOMAIN inHand
        PROVE  /\ inHand[k].topic = u /\ Taken(c, inHand[k])'
               /\ \A i \in DOMAIN out2 : out2[i].topic = u => Before(out2[i], inHand[k])'
    <3>1. PICK b \in Items : b = inHand[k]
      BY <2>2
    <3>2. b.topic = u /\ Taken(c, b) /\ \A i \in DOMAIN out : out[i].topic = u => Before(out[i], b)
      BY <1>4, <2>1, <3>1 DEF Pipeline, HandIsNext
    <3>3. ASSUME NEW i \in DOMAIN out2, out2[i].topic = u PROVE Before(out2[i], b)'
      <4>1. i \in DOMAIN out
        BY <1>7, <1>8, <1>10, <1>16, <3>3
      <4>2. PICK a \in Items : a = out[i] /\ a = out2[i]
        BY <1>7, <4>1
      <4>3. Before(a, b)
        BY <3>2, <3>3, <4>1, <4>2
      <4> QED BY <1>9, <4>2, <4>3
    <3> QED BY <1>9, <3>1, <3>2, <3>3
  <2> QED BY <1>8, <2>2, <2>3 DEF HandIsNext
<1> QED BY <1>11, <1>12, <1>13, <1>15, <1>16 DEF Pipeline

(* What leaves the channel was sent, and is written behind what was sent   *)
(* before; or it is dropped.                                               *)
LEMMA DeliverPipeline ==
    ASSUME IInv, IInv', TransportTypeOK, TransportTypeOK', LogGrows, NEW c \in Clients,
           Deliver(c), Pipeline(c)
    PROVE  Pipeline(c)'
<1>1. c \in Subscribers /\ BusTypeOK
  BY ClientsSubscribe DEF IInv
<1>2. /\ conn[c] = "open" /\ UNCHANGED <<cursor, hand, conn, replayed>>
      /\ delivered[c] \in Seq(Items) /\ replayed[c] \in Nat /\ replayed[c] <= Len(delivered[c])
  BY DEF Deliver, busVars, TransportTypeOK
<1>3. queue[c] \in Seq(Items) /\ queue[c] # <<>> /\ Head(queue[c]) \in Items /\ queue'[c] = Tail(queue[c])
  BY <1>1, DeliverTypes DEF TransportTypeOK
<1>4. \A t \in Topics : cursor[c][t] <= cursor'[c][t]
  BY <1>1, <1>2 DEF BusTypeOK
<1>5. StartsEmpty(c)' /\ hand'[c] = hand[c]
  BY <1>2 DEF StartsEmpty
<1>6. CASE delivered'[c] = Append(delivered[c], Head(queue[c]))
  <2> DEFINE s == delivered[c]
             q == queue[c]
             k == replayed[c]
             sent == Append(s, Head(q))
  <2>2. SubSeq(sent, k + 1, Len(sent)) \o Tail(q) = SubSeq(s, k + 1, Len(s)) \o q
    <3> HIDE DEF s, q, k
    <3>1. s \in Seq(Items) /\ q \in Seq(Items) /\ q # <<>> /\ k \in Nat /\ k <= Len(s)
      BY <1>2, <1>3 DEF s, q, k
    <3> QED BY <3>1, HeadMovesOver
  <2>1. Out(c)' = Out(c)
    BY <1>2, <1>3, <1>6, <2>2 DEF Out, Live
  <2> HIDE DEF s, q, k, sent
  <2> QED BY <1>4, <1>5, <2>1, PipelineStays
<1>7. CASE delivered'[c] = delivered[c]
  <2>1. PICK live \in Seq(Items) : live = Live(c)
    BY OutIsSeq
  <2>2. Live(c)' = live
    BY <1>2, <1>7, <2>1 DEF Live
  <2>3. Out(c) = live \o queue[c] /\ Out(c)' = live \o Tail(queue[c])
    BY <1>3, <2>1, <2>2 DEF Out
  <2>4. PICK out2 \in Seq(Items) : out2 = live \o Tail(queue[c])
    <3>1. PICK q \in Seq(Items) : q = queue[c] /\ q # <<>>
      BY <1>3
    <3>2. Tail(q) \in Seq(Items)
      BY <3>1, HeadTailProperties
    <3> QED BY <3>1, <3>2, ConcatProperties
  <2>5. PartOf(live \o Tail(queue[c]), live \o queue[c])
    BY <1>3, HeadLeaves
  <2>6. PartOf(out2, Out(c)) /\ out2 = Out(c)'
    <3>1. out2 = Out(c)'
      BY <2>3, <2>4
    <3>2. PartOf(out2, live \o queue[c])
      BY <2>4, <2>5
    <3> QED BY <2>3, <3>1, <3>2
  <2> QED BY <1>4, <1>5, <2>6, PipelineThins
<1> QED BY <1>6, <1>7, DeliverTypes DEF TransportTypeOK

(* The replay is not part of the live events.                              *)
LEMMA ReplayPipeline ==
    ASSUME IInv, IInv', TransportTypeOK, TransportTypeOK', LogGrows, NEW c \in Clients,
           Replay(c), Pipeline(c)
    PROVE  Pipeline(c)'
<1>1. c \in Subscribers /\ BusTypeOK
  BY ClientsSubscribe DEF IInv
<1>2. conn[c] = "subscribing" /\ UNCHANGED <<cursor, hand, queue>>
      /\ conn'[c] = "open" /\ delivered'[c] = recent /\ replayed'[c] = Len(recent)
      /\ recent \in Seq(Items)
  BY DEF Replay, busVars, TransportTypeOK
<1>3. Live(c) = <<>>
  <2>1. delivered[c] = <<>> /\ replayed[c] = 0
    BY <1>2 DEF Pipeline, StartsEmpty
  <2> QED BY <2>1 DEF Live
<1>4. Live(c)' = <<>>
  BY <1>2 DEF Live
<1>5. Out(c)' = Out(c)
  BY <1>2, <1>3, <1>4 DEF Out
<1>6. StartsEmpty(c)'
  BY <1>2 DEF StartsEmpty
<1>7. \A t \in Topics : cursor[c][t] <= cursor'[c][t]
  BY <1>1, <1>2 DEF BusTypeOK
<1> QED BY <1>2, <1>5, <1>6, <1>7, PipelineStays

LEMMA SubscribePipeline ==
    ASSUME IInv, IInv', TransportTypeOK, TransportTypeOK', LogGrows, NEW c \in Clients,
           NEW t \in Topics, SubscribeTopic(c, t) \/ SkipMissed(c, t), Pipeline(c)
    PROVE  Pipeline(c)'
<1>1. c \in Subscribers /\ BusTypeOK /\ cursor \in [Subscribers -> [Topics -> Nat]]
  BY ClientsSubscribe DEF IInv, BusTypeOK
<1>2. UNCHANGED <<hand, queue, conn, delivered, replayed>>
  BY DEF SubscribeTopic, SkipMissed
<1>3. Out(c)' = Out(c) /\ StartsEmpty(c)'
  BY <1>2 DEF Out, Live, Pipeline, StartsEmpty
<1>4. \A u \in Topics : cursor[c][u] <= cursor'[c][u]
  <2>1. CASE SubscribeTopic(c, t)
    <3>1. PICK n \in Nat : n = Len(log[t]) + 1
      BY <1>1, LogIsSeq
    <3>2. cursor' = [cursor EXCEPT ![c][t] = n] /\ cursor[c][t] = 0
      BY <2>1, <3>1 DEF SubscribeTopic, Subscribe
    <3> QED BY <1>1, <3>1, <3>2
  <2>2. CASE SkipMissed(c, t)
    <3>1. PICK n \in Nat : n = Oldest(t)
      BY <1>1, OldestInLog, LogIsSeq
    <3>2. cursor' = [cursor EXCEPT ![c][t] = n] /\ cursor[c][t] < n
      BY <2>2, <3>1 DEF SkipMissed, Lag, Lagging
    <3> QED BY <1>1, <3>1, <3>2
  <2> QED BY <2>1, <2>2
<1> QED BY <1>2, <1>3, <1>4, PipelineStays

LEMMA DisconnectPipeline ==
    ASSUME TransportTypeOK, NEW c \in Clients, Disconnect(c)
    PROVE  Pipeline(c)'
<1>1. /\ delivered'[c] = <<>> /\ replayed'[c] = 0 /\ queue'[c] = <<>>
      /\ \A t \in Topics : hand'[c][t] = <<>>
  BY ClientsSubscribe DEF Disconnect, TransportTypeOK
<1>2. Out(c)' = <<>>
  BY <1>1 DEF Out, Live
<1> QED BY <1>1, <1>2 DEF Pipeline, AllTaken, OutInOrder, StartsEmpty, HandIsNext

LEMMA PipelineGoesOn ==
    ASSUME TransportInv, IInv', TransportTypeOK', LogGrows, [TransportNext]_vars, NEW c \in Clients
    PROVE  Pipeline(c)'
<1>1. IInv /\ BusTypeOK /\ TransportTypeOK /\ Pipeline(c)
  BY DEF TransportInv, IInv
<1>2. CASE Same(c)
  BY <1>1, <1>2, SamePipeline
<1>3. ASSUME NEW t \in Topics, Take(c, t) PROVE Pipeline(c)'
  BY <1>1, <1>3, TakePipeline
<1>4. ASSUME NEW t \in Topics, Offer(c, t) PROVE Pipeline(c)'
  BY <1>1, <1>4, OfferPipeline
<1>5. ASSUME NEW t \in Topics, SubscribeTopic(c, t) \/ SkipMissed(c, t) PROVE Pipeline(c)'
  BY <1>1, <1>5, SubscribePipeline
<1>6. CASE Replay(c)
  BY <1>1, <1>6, ReplayPipeline
<1>7. CASE Deliver(c)
  BY <1>1, <1>7, DeliverPipeline
<1>8. CASE Disconnect(c)
  BY <1>1, <1>8, DisconnectPipeline
<1> QED BY <1>1, <1>2, <1>3, <1>4, <1>5, <1>6, <1>7, <1>8, OthersStay DEF OwnStep

-----------------------------------------------------------------------------
(* Cursors stay in the logs.                                               *)
LEMMA CursorsStay ==
    ASSUME TransportInv, IInv', LogGrows, \A t \in Topics : Len(log[t]) <= Len(log'[t]),
           [TransportNext]_vars
    PROVE  CursorsInLog'
<1>1. BusTypeOK /\ BusTypeOK' /\ CursorsInLog
  BY DEF TransportInv, IInv
<1>2. cursor \in [Subscribers -> [Topics -> Nat]]
  BY <1>1 DEF BusTypeOK
<1>3. \A t \in Topics : Len(log[t]) \in Nat /\ Len(log'[t]) \in Nat
  BY <1>1 DEF BusTypeOK
<1>4. CASE UNCHANGED cursor
  BY <1>1, <1>2, <1>3, <1>4 DEF CursorsInLog
<1>5. ASSUME NEW s \in Subscribers, NEW t \in Topics, NEW n \in Nat, n <= Len(log[t]) + 1,
             cursor' = [cursor EXCEPT ![s][t] = n]
      PROVE  CursorsInLog'
  <2>1. \A r \in Subscribers, u \in Topics :
            cursor'[r][u] = cursor[r][u] \/ (u = t /\ cursor'[r][u] = n)
    BY <1>2, <1>5
  <2>2. ASSUME NEW r \in Subscribers, NEW u \in Topics PROVE cursor'[r][u] <= Len(log'[u]) + 1
    <3>1. CASE cursor'[r][u] = cursor[r][u]
      BY <1>1, <1>2, <1>3, <3>1 DEF CursorsInLog
    <3>2. CASE u = t /\ cursor'[r][u] = n
      BY <1>3, <1>5, <3>2
    <3> QED BY <2>1, <3>1, <3>2
  <2> QED BY <2>2 DEF CursorsInLog
<1>6. ASSUME NEW s \in Subscribers, NEW t \in Topics, Receive(s, t) PROVE CursorsInLog'
  <2>1. PICK n \in Nat : n = cursor[s][t] + 1
    BY <1>2
  <2>2. cursor' = [cursor EXCEPT ![s][t] = n]
    BY <1>2, <1>6, <2>1 DEF Receive
  <2>3. n <= Len(log[t]) + 1
    BY <1>2, <1>3, <1>6, <2>1 DEF Receive, Readable
  <2> QED BY <1>5, <2>2, <2>3
<1>7. ASSUME NEW s \in Subscribers, NEW t \in Topics, Lag(s, t) PROVE CursorsInLog'
  <2>1. PICK n \in Nat : n = Oldest(t) /\ n <= Len(log[t]) + 1
    BY <1>1, <1>3, OldestInLog
  <2> QED BY <1>5, <1>7, <2>1 DEF Lag
<1>8. ASSUME NEW s \in Subscribers, NEW t \in Topics, Subscribe(s, t) PROVE CursorsInLog'
  <2>1. PICK n \in Nat : n = Len(log[t]) + 1
    BY <1>3
  <2>2. cursor' = [cursor EXCEPT ![s][t] = n] /\ n <= Len(log[t]) + 1
    BY <1>8, <2>1 DEF Subscribe
  <2> QED BY <1>5, <2>2
<1>9. CASE \E p \in Publishers : Publishing(p)
  BY <1>4, <1>9 DEF Publishing, Publish, PublisherStep, Tick, NextSequence, Send
<1>10. ASSUME NEW s \in Subscribers, NEW t \in Topics, Take(s, t) \/ SkipMissed(s, t) \/ Offer(s, t)
       PROVE  CursorsInLog'
  BY <1>4, <1>6, <1>7, <1>10 DEF Take, SkipMissed, Offer, busVars
<1>11. CASE BufferEvent
  BY <1>4, <1>11 DEF BufferEvent, busVars
<1>12. ASSUME NEW t \in Topics, StartWriter(t) \/ \E c \in Clients : SubscribeTopic(c, t)
       PROVE  CursorsInLog'
  BY <1>8, <1>12, ClientsSubscribe DEF StartWriter, SubscribeTopic
<1>13. ASSUME NEW c \in Clients, Disconnect(c) PROVE CursorsInLog'
  <2>1. \A s \in Subscribers, t \in Topics : cursor'[s][t] = cursor[s][t] \/ cursor'[s][t] = 0
    BY <1>2, <1>13 DEF Disconnect, Nowhere
  <2> QED BY <1>1, <1>2, <1>3, <2>1 DEF CursorsInLog
<1>14. CASE \E c \in Clients : Connect(c) \/ Replay(c) \/ Deliver(c) \/ UpdateTier(c)
  BY <1>4, <1>14 DEF Connect, Replay, Deliver, UpdateTier, busVars
<1>15. CASE UNCHANGED vars
  BY <1>4, <1>15 DEF vars, busVars
<1> QED BY <1>9, <1>10, <1>11, <1>12, <1>13, <1>14, <1>15 DEF TransportNext, Forwarder, Handler

-----------------------------------------------------------------------------
(* What the receivers took is somewhere on the way, delivered or excused.  *)
Accounted(c, t) == ToSet(delivered[c]) \cup ToSet(queue[c]) \cup ToSet(hand[c][t]) \cup excused[c]

(* A step that forgets nothing and takes nothing new.                      *)
LEMMA NothingForgotten ==
    ASSUME TransportInv, LogGrows, NEW c \in Clients,
           \A t \in Topics : Accounted(c, t) \subseteq Accounted(c, t)',
           \A t \in Topics : cursor'[c][t] = cursor[c][t] /\ joined'[c][t] = joined[c][t]
    PROVE  NoLoss(c)'
<1>1. c \in Subscribers /\ BusTypeOK /\ CursorsInLog /\ NoLoss(c)
  BY ClientsSubscribe DEF TransportInv, IInv
<1>2. joined \in [Subscribers -> [Topics -> Nat]] /\ cursor \in [Subscribers -> [Topics -> Nat]]
  BY DEF TransportInv, IInv, BusTypeOK, TransportTypeOK
<1>3. ASSUME NEW t \in Topics, NEW i \in joined[c][t] .. cursor[c][t] - 1, i > 0
      PROVE  Item(t, log'[t][i]) \in Accounted(c, t)'
  <2>1. Item(t, log[t][i]) \in Accounted(c, t)
    BY <1>1, <1>3 DEF NoLoss, Accounted
  <2>2. i \in DOMAIN log[t]
    BY <1>1, <1>2, <1>3, LogIsSeq DEF CursorsInLog
  <2>3. log'[t][i] = log[t][i]
    BY <2>2 DEF LogGrows
  <2> QED BY <2>1, <2>3
<1>4. ASSUME NEW t \in Topics, NEW i \in joined'[c][t] .. cursor'[c][t] - 1, i > 0
      PROVE  Item(t, log'[t][i]) \in Accounted(c, t)'
  BY <1>3, <1>4
<1> QED BY <1>4 DEF NoLoss, Accounted

LEMMA TakeForgetsNothing ==
    ASSUME TransportInv, IInv', LogGrows, NEW c \in Clients, NEW t \in Topics, Take(c, t)
    PROVE  NoLoss(c)'
<1>1. c \in Subscribers /\ BusTypeOK /\ TransportTypeOK /\ CursorsInLog /\ NoLoss(c)
  BY ClientsSubscribe DEF TransportInv, IInv
<1>2. PICK item \in Items : item = Item(t, NextEvent(c, t))
  BY <1>1, ReceivedIsItem DEF Take
<1>3. PICK n \in DOMAIN log[t] : n = cursor[c][t] /\ item = Item(t, log[t][n])
  BY <1>1, <1>2, ReceivedIsItem DEF Take, NextEvent
<1>4. n \in Nat /\ cursor' = [cursor EXCEPT ![c][t] = n + 1]
      /\ hand' = [hand EXCEPT ![c][t] = <<item>>] /\ hand[c][t] = <<>>
      /\ UNCHANGED <<log, delivered, queue, excused, joined>>
  BY <1>1, <1>2, <1>3, ReceivedIsItem, TakeTypes, LogIsSeq DEF Take, Receive
<1>5. cursor \in [Subscribers -> [Topics -> Nat]] /\ hand \in [Subscribers -> [Topics -> Seq(Items)]]
      /\ joined \in [Subscribers -> [Topics -> Nat]]
  BY <1>1 DEF BusTypeOK, TransportTypeOK
<1>6. cursor'[c][t] = n + 1 /\ hand'[c][t] = <<item>>
      /\ \A u \in Topics : u # t => cursor'[c][u] = cursor[c][u] /\ hand'[c][u] = hand[c][u]
  BY <1>1, <1>4, <1>5
<1>7. ASSUME NEW u \in Topics, NEW i \in joined[c][u] .. cursor'[c][u] - 1, i > 0
      PROVE  Item(u, log[u][i]) \in Accounted(c, u)'
  <2>1. CASE u # t
    BY <1>1, <1>4, <1>6, <1>7, <2>1 DEF NoLoss, Accounted
  <2>2. CASE u = t /\ i < n
    <3> i \in joined[c][t] .. cursor[c][t] - 1
      BY <1>1, <1>3, <1>4, <1>5, <1>6, <1>7, <2>2
    <3>1. Item(t, log[t][i]) \in Accounted(c, t)
      BY <1>1, <1>7 DEF NoLoss, Accounted
    <3>2. ToSet(hand[c][t]) = {}
      BY <1>4 DEF ToSet
    <3> QED BY <1>4, <2>2, <3>1, <3>2 DEF Accounted
  <2>3. CASE u = t /\ i = n
    <3>1. item \in ToSet(hand'[c][t])
      BY <1>6 DEF ToSet
    <3> QED BY <1>3, <2>3, <3>1 DEF Accounted
  <2>4. u # t \/ i < n \/ i = n
    BY <1>4, <1>5, <1>6, <1>7
  <2> QED BY <2>1, <2>2, <2>3, <2>4
<1> QED BY <1>4, <1>7 DEF NoLoss, Accounted

(* The positions a receiver is told it missed are excused.                 *)
LEMMA SkipForgetsNothing ==
    ASSUME TransportInv, IInv', LogGrows, NEW c \in Clients, NEW t \in Topics, SkipMissed(c, t)
    PROVE  NoLoss(c)'
<1>1. c \in Subscribers /\ c # Writer /\ BusTypeOK /\ TransportTypeOK /\ CursorsInLog /\ NoLoss(c)
  BY ClientsSubscribe DEF TransportInv, IInv
<1>2. PICK n \in Nat : n = Oldest(t)
  BY <1>1, OldestInLog, LogIsSeq
<1>3. cursor \in [Subscribers -> [Topics -> Nat]] /\ joined \in [Subscribers -> [Topics -> Nat]]
      /\ excused \in [Clients -> SUBSET Items]
  BY <1>1 DEF BusTypeOK, TransportTypeOK
<1>4. /\ cursor' = [cursor EXCEPT ![c][t] = n] /\ cursor[c][t] < n
      /\ UNCHANGED <<log, hand, delivered, queue, joined>>
      /\ excused'[c] = excused[c] \cup {Item(t, log[t][i]) : i \in cursor[c][t] .. n - 1}
  BY <1>1, <1>2, <1>3 DEF SkipMissed, Lag, Lagging
<1>5. cursor'[c][t] = n /\ \A u \in Topics : u # t => cursor'[c][u] = cursor[c][u]
  BY <1>1, <1>3, <1>4
<1>6. ASSUME NEW u \in Topics PROVE Accounted(c, u) \subseteq Accounted(c, u)'
  BY <1>4 DEF Accounted
<1>7. ASSUME NEW u \in Topics, NEW i \in joined[c][u] .. cursor'[c][u] - 1, i > 0
      PROVE  Item(u, log[u][i]) \in Accounted(c, u)'
  <2>1. CASE i \in joined[c][u] .. cursor[c][u] - 1
    BY <1>1, <1>6, <1>7, <2>1 DEF NoLoss, Accounted
  <2>2. CASE u = t /\ i \in cursor[c][t] .. n - 1
    <3>1. Item(t, log[t][i]) \in excused'[c]
      BY <1>4, <2>2
    <3> QED BY <2>2, <3>1 DEF Accounted
  <2>3. i \in joined[c][u] .. cursor[c][u] - 1 \/ (u = t /\ i \in cursor[c][t] .. n - 1)
    <3>1. CASE u = t
      BY <1>1, <1>3, <1>5, <1>7, <3>1
    <3>2. CASE u # t
      BY <1>5, <1>7, <3>2
    <3> QED BY <3>1, <3>2
  <2> QED BY <2>1, <2>2, <2>3
<1> QED BY <1>4, <1>7 DEF NoLoss, Accounted

LEMMA SubscribeForgetsNothing ==
    ASSUME TransportInv, IInv', LogGrows, NEW c \in Clients, NEW t \in Topics, SubscribeTopic(c, t)
    PROVE  NoLoss(c)'
<1>1. c \in Subscribers /\ BusTypeOK /\ TransportTypeOK /\ NoLoss(c)
  BY ClientsSubscribe DEF TransportInv, IInv
<1>2. cursor \in [Subscribers -> [Topics -> Nat]] /\ joined \in [Subscribers -> [Topics -> Nat]]
  BY <1>1 DEF BusTypeOK, TransportTypeOK
<1>3. PICK n \in Nat : n = Len(log[t]) + 1
  BY <1>1, LogIsSeq
<1>4. /\ cursor' = [cursor EXCEPT ![c][t] = n] /\ joined' = [joined EXCEPT ![c][t] = n]
      /\ UNCHANGED <<log, hand, delivered, queue, excused>>
  BY <1>3 DEF SubscribeTopic, Subscribe
<1>5. cursor'[c][t] = n /\ joined'[c][t] = n
      /\ \A u \in Topics : u # t => cursor'[c][u] = cursor[c][u] /\ joined'[c][u] = joined[c][u]
  BY <1>1, <1>2, <1>4
<1>6. ASSUME NEW u \in Topics, NEW i \in joined'[c][u] .. cursor'[c][u] - 1, i > 0
      PROVE  u # t
  BY <1>5, <1>6
<1> QED BY <1>1, <1>4, <1>5, <1>6 DEF NoLoss

LEMMA DisconnectForgetsNothing ==
    ASSUME TransportInv, NEW c \in Clients, Disconnect(c)
    PROVE  NoLoss(c)'
<1>1. c \in Subscribers /\ cursor \in [Subscribers -> [Topics -> Nat]]
  BY ClientsSubscribe DEF TransportInv, IInv, BusTypeOK
<1>2. \A t \in Topics : cursor'[c][t] = 0
  BY <1>1 DEF Disconnect, Nowhere
<1>3. joined \in [Subscribers -> [Topics -> Nat]]
  BY DEF TransportInv, TransportTypeOK
<1>4. \A t \in Topics : joined'[c][t] = 0
  BY <1>1, <1>3 DEF Disconnect, Nowhere
<1> QED BY <1>2, <1>4 DEF NoLoss

LEMMA NoLossGoesOn ==
    ASSUME TransportInv, IInv', LogGrows, [TransportNext]_vars, NEW c \in Clients
    PROVE  NoLoss(c)'
<1>1. c \in Subscribers /\ BusTypeOK /\ TransportTypeOK /\ Pipeline(c)
  BY ClientsSubscribe DEF TransportInv, IInv
<1>2. /\ queue \in [Subscribers -> Seq(Items)] /\ hand \in [Subscribers -> [Topics -> Seq(Items)]]
      /\ delivered \in [Clients -> Seq(Items)] /\ excused \in [Clients -> SUBSET Items]
  BY <1>1 DEF TransportTypeOK
<1>3. CASE Same(c)
  <2>1. \A t \in Topics : Accounted(c, t)' = Accounted(c, t)
    BY <1>3 DEF Same, Accounted
  <2> QED BY <1>3, <2>1, NothingForgotten DEF Same
<1>4. ASSUME NEW t \in Topics, Offer(c, t) PROVE NoLoss(c)'
  <2>1. PICK item \in Items : item = hand[c][t][1]
    BY <1>1, <1>4, OfferTypes
  <2>2. /\ hand[c][t] = <<item>> /\ queue' = [queue EXCEPT ![c] = Append(queue[c], item)]
        /\ hand' = [hand EXCEPT ![c][t] = <<>>]
        /\ UNCHANGED <<cursor, joined, delivered, excused>>
    BY <1>1, <1>4, <2>1, OfferTypes DEF Offer, busVars
  <2>3. /\ queue'[c] = Append(queue[c], item)
        /\ \A u \in Topics : u # t => hand'[c][u] = hand[c][u]
    BY <1>1, <1>2, <2>2
  <2>4. ToSet(queue'[c]) = ToSet(queue[c]) \cup {item}
    BY <1>1, <1>2, <2>3, SetOfAppend
  <2>5. ToSet(hand[c][t]) = {item}
    BY <2>2 DEF ToSet
  <2>6. ASSUME NEW u \in Topics PROVE Accounted(c, u) \subseteq Accounted(c, u)'
    <3>1. CASE u = t
      BY <2>2, <2>4, <2>5, <3>1 DEF Accounted
    <3>2. CASE u # t
      BY <2>2, <2>3, <2>4, <3>2 DEF Accounted
    <3> QED BY <3>1, <3>2
  <2> QED BY <2>2, <2>6, NothingForgotten
<1>5. CASE Deliver(c)
  <2>1. /\ queue[c] \in Seq(Items) /\ queue[c] # <<>> /\ queue'[c] = Tail(queue[c])
        /\ Head(queue[c]) \in Items
    BY <1>1, <1>2, <1>5, DeliverTypes
  <2>2. UNCHANGED <<cursor, joined, hand>>
    BY <1>5 DEF Deliver, busVars
  <2>3. ToSet(queue[c]) = ToSet(queue'[c]) \cup {Head(queue[c])}
    BY <2>1, SetOfTail
  <2>4. \/ delivered'[c] = Append(delivered[c], Head(queue[c])) /\ excused'[c] = excused[c]
        \/ excused'[c] = excused[c] \cup {Head(queue[c])} /\ delivered'[c] = delivered[c]
    BY <1>1, <1>2, <1>5, DeliverTypes
  <2>5. \/ /\ ToSet(delivered'[c]) = ToSet(delivered[c]) \cup {Head(queue[c])}
           /\ excused'[c] = excused[c]
        \/ /\ excused'[c] = excused[c] \cup {Head(queue[c])}
           /\ ToSet(delivered'[c]) = ToSet(delivered[c])
    <3>1. ToSet(Append(delivered[c], Head(queue[c]))) = ToSet(delivered[c]) \cup {Head(queue[c])}
      BY <1>2, <2>1, SetOfAppend
    <3> QED BY <2>4, <3>1
  <2>6. \A u \in Topics : Accounted(c, u) \subseteq Accounted(c, u)'
    BY <2>2, <2>3, <2>5 DEF Accounted
  <2> QED BY <2>2, <2>6, NothingForgotten
<1>6. CASE Replay(c)
  <2>1. delivered[c] = <<>> /\ UNCHANGED <<cursor, joined, hand, queue, excused>>
    BY <1>1, <1>6 DEF Pipeline, StartsEmpty, Replay, busVars
  <2>2. ToSet(delivered[c]) = {}
    BY <2>1 DEF ToSet
  <2>3. \A u \in Topics : Accounted(c, u) \subseteq Accounted(c, u)'
    BY <2>1, <2>2 DEF Accounted
  <2> QED BY <2>1, <2>3, NothingForgotten
<1> QED BY <1>1, <1>3, <1>4, <1>5, <1>6, OthersStay, TakeForgetsNothing, SkipForgetsNothing,
           SubscribeForgetsNothing, DisconnectForgetsNothing DEF OwnStep

-----------------------------------------------------------------------------
LEMMA NextTransportInv == TransportInv /\ [TransportNext]_vars => TransportInv'
<1> SUFFICES ASSUME TransportInv, [TransportNext]_vars PROVE TransportInv'
  OBVIOUS
<1>1. IInv /\ TransportTypeOK
  BY DEF TransportInv
<1>2. IInv' /\ TransportTypeOK' /\ LogGrows /\ \A t \in Topics : Len(log[t]) <= Len(log'[t])
  BY <1>1, BusGoesOn, TypesStay, LogsGrow
<1>3. CursorsInLog'
  BY <1>2, CursorsStay
<1>4. \A c \in Clients : Pipeline(c)' /\ NoLoss(c)'
  BY <1>2, PipelineGoesOn, NoLossGoesOn
<1> QED BY <1>2, <1>3, <1>4 DEF TransportInv

(* An event has one place in the log of its topic.                         *)
LEMMA PlaceIsUnique ==
    ASSUME IInv, NEW item \in Items, NEW m, NEW n, At(item, m), At(item, n)
    PROVE  m = n
<1>1. m \in DOMAIN log[item.topic] /\ n \in DOMAIN log[item.topic] /\ item.topic \in Topics
      /\ log[item.topic][m] = log[item.topic][n]
  BY DEF At, Items
<1> QED BY <1>1 DEF IInv, EventsAreOrdered, TotalOrder

(* What was sent live comes first on a client's way.                       *)
LEMMA LiveLeads ==
    ASSUME TransportTypeOK, NEW c \in Clients
    PROVE  \A i \in DOMAIN Live(c) : i \in DOMAIN Out(c) /\ Out(c)[i] = Live(c)[i]
<1>1. PICK live \in Seq(Items), q \in Seq(Items) : live = Live(c) /\ q = queue[c]
  BY OutIsSeq
<1>2. /\ live \o q \in Seq(Items) /\ Len(live \o q) = Len(live) + Len(q)
      /\ \A i \in 1 .. Len(live) + Len(q) : (live \o q)[i] = IF i <= Len(live) THEN live[i] ELSE q[i - Len(live)]
  BY ConcatProperties
<1>3. \A i \in DOMAIN live : i \in DOMAIN (live \o q) /\ (live \o q)[i] = live[i]
  BY <1>2
<1> QED BY <1>1, <1>3 DEF Out

LEMMA InvDelivers == TransportInv => LiveDelivery
<1> SUFFICES ASSUME TransportInv PROVE LiveDelivery
  OBVIOUS
<1>1. NoSilentLoss
  BY DEF TransportInv, NoLoss, NoSilentLoss
<1>2. IInv /\ TransportTypeOK /\ BusTypeOK
  BY DEF TransportInv, IInv
<1> DEFINE Position(item) == CHOOSE n \in DOMAIN log[item.topic] : log[item.topic][n] = item.event
<1>3. ASSUME NEW item \in Items, NEW n, At(item, n) PROVE Position(item) = n
  <2>1. At(item, Position(item))
    BY <1>3 DEF At
  <2> HIDE DEF Position
  <2> QED BY <1>2, <1>3, <2>1, PlaceIsUnique
<1> HIDE DEF Position
<1>4. ASSUME NEW c \in Clients, NEW i \in DOMAIN Live(c), NEW j \in DOMAIN Live(c),
             i < j, Live(c)[i].topic = Live(c)[j].topic
      PROVE  Position(Live(c)[i]) < Position(Live(c)[j])
  <2>1. i \in DOMAIN Out(c) /\ j \in DOMAIN Out(c) /\ Out(c)[i] = Live(c)[i] /\ Out(c)[j] = Live(c)[j]
    BY <1>2, LiveLeads
  <2>2. PICK a \in Items, b \in Items : a = Live(c)[i] /\ b = Live(c)[j]
    BY <1>2, <2>1, OutIsSeq
  <2>3. Before(a, b)
    BY <1>4, <2>1, <2>2 DEF TransportInv, Pipeline, OutInOrder
  <2>4. PICK m \in DOMAIN log[a.topic], n \in DOMAIN log[b.topic] : At(a, m) /\ At(b, n) /\ m < n
    BY <2>3 DEF Before
  <2>5. Position(a) = m /\ Position(b) = n
    BY <1>3, <2>4
  <2> QED BY <2>2, <2>4, <2>5
<1>5. LiveInOrder
  BY <1>4 DEF LiveInOrder, Position
<1> QED BY <1>1, <1>5 DEF LiveDelivery

(* The invariant: on every connection, what its receivers took from the    *)
(* bus keeps the order of the logs through a forwarder's hand, the channel *)
(* and the stream, and none of it disappears on the way.                   *)
THEOREM EventsKeepTheirPlace == TransportSpec => []TransportInv
<1>1. TransportInit => TransportInv
  BY InitTransportInv
<1>2. TransportInv /\ [TransportNext]_vars => TransportInv'
  BY NextTransportInv
<1> QED BY <1>1, <1>2, PTL DEF TransportSpec

(* LiveDelivery: a connection loses no event silently, and its live events *)
(* reach the client once, in the order of the bus (handle_connection and   *)
(* the forwarder tasks).                                                   *)
THEOREM EventsReachClients == TransportSpec => []LiveDelivery
BY EventsKeepTheirPlace, InvDelivers, PTL
=============================================================================
