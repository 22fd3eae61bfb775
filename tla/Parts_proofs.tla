---------------------------- MODULE Parts_proofs ----------------------------
(***************************************************************************)
(* Proofs about three of the small parts that the run parts checks.        *)
(***************************************************************************)
EXTENDS ProxyConfig, AdaptiveQuality, ApiKeys, SequenceFacts

(***************************************************************************)
(* AdaptiveQuality, for any round-trip times, window and hysteresis count. *)
(* The two properties speak about the samples, the code counts: IInv says  *)
(* what the counter knows of the samples.  The window slides under it, so  *)
(* both directions rest on SlideShifts.                                    *)
(***************************************************************************)
(* The counter is a run that the samples show ...                          *)
CountIsSeen == LastSamples(rtt_samples, consecutive_different, pending_tier)

(* ... and every run of another tier in the samples is counted.            *)
SeenIsCounted ==
    \A t \in Tier \ {current_tier}, n \in 1 .. HysteresisCount :
        LastSamples(rtt_samples, n, t) => n <= consecutive_different /\ t = pending_tier

IInv ==
    /\ TypeOK
    /\ Len(rtt_samples) <= WindowSize
    /\ CountIsSeen
    /\ SeenIsCounted

-----------------------------------------------------------------------------
(* from_rtt is the documented table.                                       *)
LEMMA TableIsTierOf ==
    ASSUME NEW rtt \in Nat, NEW t \in Tier
    PROVE  Suggests(rtt, t) <=> TierOf(rtt) = t
BY DEF Suggests, TierOf, Tier

(* A sample slid in: the last n+1 samples are the last n before it and     *)
(* itself, as long as they fit into the window.                            *)
LEMMA SlideShifts ==
    ASSUME NEW s \in Seq(Rtts), Len(s) <= WindowSize,
           NEW rtt \in Rtts, NEW n \in 0 .. WindowSize - 1, NEW t \in Tier,
           NEW s2, s2 = Append(IF Len(s) >= WindowSize THEN Tail(s) ELSE s, rtt)
    PROVE  LastSamples(s2, n + 1, t) <=> LastSamples(s, n, t) /\ Suggests(rtt, t)
<1> USE QualityAssumption DEF QualityAssumption
<1>1. CASE Len(s) >= WindowSize
  <2>1. /\ Len(s) = WindowSize /\ s2 = Append(Tail(s), rtt)
        /\ Len(s2) = WindowSize /\ s2[WindowSize] = rtt
        /\ \A i \in 1 .. WindowSize - 1 : s2[i] = s[i + 1]
    BY <1>1
  <2>2. ASSUME LastSamples(s2, n + 1, t) PROVE LastSamples(s, n, t) /\ Suggests(rtt, t)
    <3>1. \A i \in WindowSize - n .. WindowSize : Suggests(s2[i], t)
      <4>1. Len(s2) - (n + 1) + 1 = WindowSize - n
        BY <2>1
      <4> QED BY <2>1, <2>2, <4>1 DEF LastSamples
    <3>2. ASSUME NEW i \in WindowSize - n + 1 .. WindowSize PROVE Suggests(s[i], t)
      <4>1. i - 1 \in 1 .. WindowSize - 1 /\ i - 1 \in WindowSize - n .. WindowSize
        OBVIOUS
      <4>2. s2[i - 1] = s[i]
        BY <2>1, <4>1
      <4> QED BY <3>1, <4>1, <4>2
    <3>3. Suggests(rtt, t)
      BY <2>1, <3>1
    <3> QED BY <2>1, <3>2, <3>3 DEF LastSamples
  <2>3. ASSUME LastSamples(s, n, t), Suggests(rtt, t) PROVE LastSamples(s2, n + 1, t)
    <3>1. ASSUME NEW i \in WindowSize - n .. WindowSize PROVE Suggests(s2[i], t)
      <4>1. CASE i = WindowSize
        BY <2>1, <2>3, <4>1
      <4>2. CASE i < WindowSize
        <5>1. i \in 1 .. WindowSize - 1 /\ i + 1 \in Len(s) - n + 1 .. Len(s)
          BY <2>1, <4>2
        <5> QED BY <2>1, <2>3, <5>1 DEF LastSamples
      <4>3. i = WindowSize \/ i < WindowSize
        OBVIOUS
      <4> QED BY <4>1, <4>2, <4>3
    <3>2. Len(s2) - (n + 1) + 1 = WindowSize - n /\ Len(s2) >= n + 1
      BY <2>1
    <3> QED BY <2>1, <3>1, <3>2 DEF LastSamples
  <2> QED BY <2>2, <2>3
<1>2. CASE Len(s) < WindowSize
  <2> DEFINE L == Len(s)
  <2>1. /\ L \in Nat /\ s2 = Append(s, rtt) /\ Len(s2) = L + 1 /\ s2[L + 1] = rtt
        /\ \A i \in 1 .. L : s2[i] = s[i]
    BY <1>2
  <2>2. ASSUME LastSamples(s2, n + 1, t) PROVE LastSamples(s, n, t) /\ Suggests(rtt, t)
    <3>1. Len(s2) - (n + 1) + 1 = L + 1 - n /\ L >= n
      BY <2>1, <2>2 DEF LastSamples
    <3>2. \A i \in L + 1 - n .. L + 1 : Suggests(s2[i], t)
      BY <2>1, <2>2, <3>1 DEF LastSamples
    <3>3. \A i \in L - n + 1 .. L : Suggests(s[i], t)
      BY <2>1, <3>1, <3>2
    <3> QED BY <2>1, <3>1, <3>2, <3>3 DEF LastSamples
  <2>3. ASSUME LastSamples(s, n, t), Suggests(rtt, t) PROVE LastSamples(s2, n + 1, t)
    BY <2>1, <2>3 DEF LastSamples
  <2> QED BY <2>2, <2>3
<1> QED BY <1>1, <1>2

(* The window stays a sequence of samples within its size.                 *)
LEMMA SlideKeepsWindow ==
    ASSUME IInv, NEW rtt \in Rtts, Slide(rtt)
    PROVE  rtt_samples' \in Seq(Rtts) /\ Len(rtt_samples') <= WindowSize
<1> USE QualityAssumption DEF QualityAssumption, IInv, TypeOK, Slide
<1>1. CASE Len(rtt_samples) >= WindowSize
  <2>1. Tail(rtt_samples) \in Seq(Rtts) /\ Len(Tail(rtt_samples)) = WindowSize - 1
    BY <1>1
  <2> QED BY <1>1, <2>1
<1>2. CASE Len(rtt_samples) < WindowSize
  BY <1>2
<1> QED BY <1>1, <1>2

(* What a step does to the runs that the samples show.                     *)
LEMMA StepShifts ==
    ASSUME IInv, NEW rtt \in Rtts, Slide(rtt),
           NEW n \in 0 .. HysteresisCount - 1, NEW t \in Tier
    PROVE  LastSamples(rtt_samples', n + 1, t)
             <=> LastSamples(rtt_samples, n, t) /\ TierOf(rtt) = t
<1>1. rtt_samples \in Seq(Rtts) /\ Len(rtt_samples) <= WindowSize /\ rtt \in Nat
  BY QualityAssumption DEF QualityAssumption, IInv, TypeOK
<1>2. n \in 0 .. WindowSize - 1
  BY QualityAssumption DEF QualityAssumption
<1>3. LastSamples(rtt_samples', n + 1, t)
        <=> LastSamples(rtt_samples, n, t) /\ Suggests(rtt, t)
  BY <1>1, <1>2, SlideShifts DEF Slide
<1> QED BY <1>1, <1>3, TableIsTierOf
-----------------------------------------------------------------------------
LEMMA InitEstablishes == Init => IInv
BY QualityAssumption DEF QualityAssumption, Init, IInv, TypeOK, CountIsSeen,
   SeenIsCounted, LastSamples, Tier

(* A sample of the current tier: no run of another tier ends in it.        *)
LEMMA SteadyPreserves ==
    ASSUME IInv, NEW rtt \in Rtts, Slide(rtt), TierOf(rtt) = current_tier, Steady
    PROVE  IInv'
<1> USE QualityAssumption DEF QualityAssumption
<1>1. TypeOK' /\ (Len(rtt_samples) <= WindowSize)'
  BY SlideKeepsWindow DEF IInv, TypeOK, Steady
<1>2. CountIsSeen'
  BY <1>1 DEF CountIsSeen, LastSamples, Steady, TypeOK
<1>3. SeenIsCounted'
  <2> SUFFICES ASSUME NEW t \in Tier \ {current_tier}, NEW n \in 1 .. HysteresisCount,
                      LastSamples(rtt_samples', n, t)
               PROVE  FALSE
    BY DEF SeenIsCounted, Steady
  <2>1. n - 1 \in 0 .. HysteresisCount - 1 /\ (n - 1) + 1 = n
    OBVIOUS
  <2>2. TierOf(rtt) = t
    BY <2>1, StepShifts
  <2> QED BY <2>2
<1> QED BY <1>1, <1>2, <1>3 DEF IInv

(* A sample of another tier: the counter follows the run of its tier and   *)
(* is reset when that tier becomes the current one.                        *)
LEMMA HysteresisPreserves ==
    ASSUME IInv, NEW rtt \in Rtts, Slide(rtt), TierOf(rtt) # current_tier,
           Hysteresis(TierOf(rtt))
    PROVE  /\ IInv'
           /\ current_tier' # current_tier
                => LastSamples(rtt_samples', HysteresisCount, current_tier')
<1> USE QualityAssumption DEF QualityAssumption
<1> DEFINE t0 == TierOf(rtt)
           run == IF t0 = pending_tier THEN consecutive_different + 1 ELSE 1
<1>1. /\ t0 \in Tier /\ pending_tier' = t0
      /\ run \in 1 .. HysteresisCount
      /\ current_tier' = IF run >= HysteresisCount THEN t0 ELSE current_tier
      /\ consecutive_different' = IF run >= HysteresisCount THEN 0 ELSE run
  BY DEF Hysteresis, IInv, TypeOK, TierOf, Tier
<1>2. LastSamples(rtt_samples', run, t0)
  <2>1. CASE t0 = pending_tier
    BY <1>1, <2>1, StepShifts DEF IInv, TypeOK, CountIsSeen
  <2>2. CASE t0 # pending_tier
    <3>1. LastSamples(rtt_samples, 0, t0)
      BY DEF LastSamples, IInv, TypeOK
    <3>2. 0 \in 0 .. HysteresisCount - 1 /\ 0 + 1 = 1
      OBVIOUS
    <3> QED BY <1>1, <2>2, <3>1, <3>2, StepShifts
  <2> QED BY <2>1, <2>2
<1>3. TypeOK' /\ (Len(rtt_samples) <= WindowSize)'
  BY <1>1, SlideKeepsWindow DEF IInv, TypeOK
<1>4. CountIsSeen'
  <2>1. CASE run >= HysteresisCount
    BY <1>1, <1>3, <2>1 DEF CountIsSeen, LastSamples, TypeOK
  <2>2. CASE ~(run >= HysteresisCount)
    BY <1>1, <1>2, <2>2 DEF CountIsSeen
  <2> QED BY <2>1, <2>2
<1>5. SeenIsCounted'
  <2> SUFFICES ASSUME NEW t \in Tier \ {current_tier'}, NEW n \in 1 .. HysteresisCount,
                      LastSamples(rtt_samples', n, t)
               PROVE  n <= consecutive_different' /\ t = pending_tier'
    BY DEF SeenIsCounted
  <2>1. n - 1 \in 0 .. HysteresisCount - 1 /\ (n - 1) + 1 = n
    OBVIOUS
  <2>2. t = t0 /\ LastSamples(rtt_samples, n - 1, t0)
    BY <2>1, StepShifts
  <2>3. run < HysteresisCount /\ consecutive_different' = run
    BY <1>1, <2>2
  <2>4. n <= run
    <3>1. CASE n = 1
      BY <1>1, <3>1
    <3>2. CASE n # 1
      <4>1. n - 1 \in 1 .. HysteresisCount
        BY <3>2
      <4>2. n - 1 <= consecutive_different /\ t0 = pending_tier
        BY <1>1, <2>2, <4>1 DEF IInv, SeenIsCounted
      <4> QED BY <4>2 DEF IInv, TypeOK
    <3> QED BY <3>1, <3>2
  <2> QED BY <1>1, <2>2, <2>3, <2>4
<1>6. current_tier' # current_tier => LastSamples(rtt_samples', HysteresisCount, current_tier')
  <2> HAVE current_tier' # current_tier
  <2>1. run = HysteresisCount /\ current_tier' = t0
    BY <1>1
  <2> QED BY <1>2, <2>1
<1> QED BY <1>3, <1>4, <1>5, <1>6 DEF IInv

LEMMA StepPreserves == IInv /\ [Next]_vars => IInv'
<1> SUFFICES ASSUME IInv, [Next]_vars PROVE IInv'
  OBVIOUS
<1>1. ASSUME NEW rtt \in Rtts, UpdateRtt(rtt) PROVE IInv'
  <2>1. CASE TierOf(rtt) = current_tier
    BY <1>1, <2>1, SteadyPreserves DEF UpdateRtt
  <2>2. CASE TierOf(rtt) # current_tier
    BY <1>1, <2>2, HysteresisPreserves DEF UpdateRtt
  <2> QED BY <2>1, <2>2
<1>2. CASE UNCHANGED vars
  BY <1>2 DEF vars, IInv, TypeOK, CountIsSeen, SeenIsCounted
<1> QED BY <1>1, <1>2 DEF Next

(* The counter and the samples agree in every reachable state.             *)
THEOREM InvariantHolds == Spec => []IInv
BY InitEstablishes, StepPreserves, PTL DEF Spec

(* update_rtt never counts to HYSTERESIS_COUNT without a switch.           *)
THEOREM TypeCorrect == Spec => []TypeOK
BY InvariantHolds, PTL DEF IInv

(* HYSTERESIS_COUNT consecutive samples that agree put their tier in       *)
(* force, whatever came before them.                                       *)
THEOREM AgreementSettlesTier == Spec => []AgreementDecides
<1>1. IInv => AgreementDecides
  <2> SUFFICES ASSUME IInv, NEW t \in Tier, LastSamples(rtt_samples, HysteresisCount, t),
                      t # current_tier
               PROVE  FALSE
    BY DEF AgreementDecides
  <2>1. HysteresisCount \in 1 .. HysteresisCount
    BY QualityAssumption DEF QualityAssumption
  <2>2. HysteresisCount <= consecutive_different
    BY <2>1 DEF IInv, SeenIsCounted
  <2> QED BY <2>2, QualityAssumption DEF QualityAssumption, IInv, TypeOK
<1> QED BY <1>1, InvariantHolds, PTL

(* And the tier never changes on less.                                     *)
THEOREM TierNeverFlaps == Spec => NoFlapping
<1>1. IInv /\ [Next]_vars
        => [current_tier' # current_tier
              => LastSamples(rtt_samples', HysteresisCount, current_tier')]_vars
  <2> SUFFICES ASSUME IInv, Next, current_tier' # current_tier
               PROVE  LastSamples(rtt_samples', HysteresisCount, current_tier')
    BY DEF vars
  <2>1. PICK rtt \in Rtts : UpdateRtt(rtt)
    BY DEF Next
  <2>2. TierOf(rtt) # current_tier
    BY <2>1 DEF UpdateRtt, Steady
  <2> QED BY <2>1, <2>2, HysteresisPreserves DEF UpdateRtt
<1> QED BY <1>1, InvariantHolds, PTL DEF Spec, NoFlapping

-----------------------------------------------------------------------------
(***************************************************************************)
(* ProxyConfig, for every set of calls and number of crashes: the stored   *)
(* configuration settles on what the stores hold.  SettledConfigIsSaved    *)
(* only speaks of quiet states; SettledInv says what leads there: the last *)
(* save under way, or the file, holds the stores unless a call that will   *)
(* save has begun, and what such a call has read or written is still true. *)
(***************************************************************************)
USE ConfigAssumption

Writers == Calls \cup {"default"}
Config == [FieldSet -> Writers]
CallState ==
    [pc : {"idle", "snapshot", "intercept", "inject", "rewrite", "rules", "schedule", "done"},
     kind : {"none", "mode", "inject", "rewrite", "rules", "all", "intercept"},
     read : Seq(Writers)]

(* Which calls take which way.                                             *)
OnItsWay(k) ==
    /\ k.pc = "idle" => k.kind = "none"
    /\ k.pc = "snapshot" => k.kind \in FieldSet /\ Len(k.read) <= Len(Fields)
    /\ k.pc = "intercept" => k.kind \in {"mode", "all"}
    /\ k.pc \in {"inject", "rewrite", "rules", "schedule"} => k.kind = "all"
    /\ k.pc # "snapshot" => k.read = <<>>

ConfigTypeOK ==
    /\ stores \in Config
    /\ modes \in [Calls -> {"auto", "manual"}]
    /\ intercept \in {"auto", "manual"}
    /\ call \in [Calls -> CallState]
    /\ \A c \in Calls : OnItsWay(call[c])
    /\ saves \in Seq(Config)
    /\ writing \subseteq Config
    /\ disk \in Config \cup {Missing, Torn}
    /\ raced \in BOOLEAN /\ mixed \in BOOLEAN

(* A call that has begun and will save, unless the server crashes.         *)
Begun(c) == call[c].pc \notin {"idle", "done"}

(* What the file comes to hold when no further save is spawned.            *)
Settled ==
    IF saves # <<>> THEN saves[Len(saves)]
    ELSE IF writing # {} THEN CHOOSE s \in writing : TRUE
    ELSE Load(disk)

(* What a snapshot has read is still in the stores ...                     *)
SnapshotIsCurrent(c) ==
    At(c, "snapshot") => \A i \in 1 .. Len(call[c].read) : call[c].read[i] = stores[Fields[i]]

(* ... and so is what the whole-configuration call has written.            *)
BodyIsCurrent(c) == call[c].kind = "all" =>
    /\ call[c].pc \in {"intercept", "inject", "rewrite", "rules", "schedule"} => stores["mode"] = c
    /\ call[c].pc \in {"rewrite", "rules", "schedule"} => stores["inject"] = c
    /\ call[c].pc \in {"rules", "schedule"} => stores["rewrite"] = c
    /\ call[c].pc = "schedule" => stores["rules"] = c

SavesInOrder == \A s, t \in writing : s = t

Unraced ==
    /\ \A c \in Calls : SnapshotIsCurrent(c) /\ BodyIsCurrent(c)
    /\ SavesInOrder
    /\ (\E c \in Calls : Begun(c)) \/ Settled = stores

(* The mode of the gate follows that of the proxy, or is about to.         *)
Unmixed ==
    /\ \A c \in Calls : At(c, "intercept") => stores["mode"] = c
    /\ (\E c \in Calls : At(c, "intercept")) \/ intercept = InterceptModeFor(stores["mode"])

SettledInv == ConfigTypeOK /\ (~raced => Unraced) /\ (~mixed => Unmixed)

-----------------------------------------------------------------------------
(* The four stores and the order in which a snapshot reads them.           *)
LEMMA TheFields ==
    /\ FieldSet = {"mode", "inject", "rewrite", "rules"}
    /\ Len(Fields) = 4 /\ DOMAIN Fields = 1 .. 4
    /\ Fields[1] = "mode" /\ Fields[2] = "inject" /\ Fields[3] = "rewrite" /\ Fields[4] = "rules"
    /\ \A i \in 1 .. 4 : Fields[i] \in FieldSet
<1>1. /\ Len(Fields) = 4 /\ DOMAIN Fields = 1 .. 4
      /\ Fields[1] = "mode" /\ Fields[2] = "inject" /\ Fields[3] = "rewrite" /\ Fields[4] = "rules"
  BY DEF Fields
<1>2. \A i \in 1 .. 4 : i = 1 \/ i = 2 \/ i = 3 \/ i = 4
  OBVIOUS
<1>3. FieldSet = {"mode", "inject", "rewrite", "rules"}
  BY <1>1, <1>2 DEF FieldSet
<1>4. QED
  BY <1>1, <1>2, <1>3

(* What a full snapshot has read of a store is at the store's place.       *)
LEMMA PlaceOfField ==
    ASSUME NEW f \in FieldSet
    PROVE  /\ (CHOOSE i \in DOMAIN Fields : Fields[i] = f) \in 1 .. 4
           /\ Fields[CHOOSE i \in DOMAIN Fields : Fields[i] = f] = f
<1>1. \E i \in DOMAIN Fields : Fields[i] = f
  BY DEF FieldSet
<1>2. QED
  BY <1>1, TheFields

(* A configuration read from a file is neither missing nor torn.           *)
LEMMA LoadsAsWritten ==
    ASSUME NEW config \in Config
    PROVE  Load(config) = config /\ config # Torn
<1>1. config["mode"] \notin {"missing", "torn"}
  BY TheFields DEF Config, Writers
<1>2. Missing["mode"] = "missing" /\ Torn["mode"] = "torn"
  BY TheFields DEF Missing, Torn
<1>3. QED
  BY <1>1, <1>2 DEF Load

LEMMA LoadsAConfig ==
    ASSUME NEW file \in Config \cup {Missing, Torn}
    PROVE  Load(file) \in Config
BY LoadsAsWritten DEF Load, Default, Config, Writers

-----------------------------------------------------------------------------
(* The type invariant.                                                     *)
LEMMA TypeInit == ConfigInit => ConfigTypeOK
<1> SUFFICES ASSUME ConfigInit PROVE ConfigTypeOK
  OBVIOUS
<1>1. Idle \in CallState /\ OnItsWay(Idle)
  BY DEF Idle, CallState, OnItsWay, Writers
<1>2. Default \in Config
  BY DEF Default, Config, Writers
<1>3. saves \in Seq(Config)
  BY DEF ConfigInit
<1>4. QED
  BY <1>1, <1>2, <1>3 DEF ConfigInit, ConfigTypeOK

(* A store takes the value of a call.                                      *)
LEMMA WriteKeepsType ==
    ASSUME ConfigTypeOK, NEW c \in Calls, NEW f \in FieldSet, Writes(c, f)
    PROVE  stores' \in Config /\ raced' \in BOOLEAN
BY DEF ConfigTypeOK, Writes, Config, Writers

(* A call that changes only its own record.                                *)
LEMMA CallKeepsType ==
    ASSUME ConfigTypeOK, NEW c \in Calls, NEW k \in CallState, OnItsWay(k),
           call' = [call EXCEPT ![c] = k]
    PROVE  call' \in [Calls -> CallState] /\ \A d \in Calls : OnItsWay(call'[d])
BY DEF ConfigTypeOK

(* What a call saves is a configuration.                                   *)
LEMMA SnapshotIsConfig ==
    ASSUME ConfigTypeOK, NEW c \in Calls, ScheduleSave(c)
    PROVE  Snapshot(c) \in Config
<1>1. call[c] \in CallState /\ OnItsWay(call[c])
  BY DEF ConfigTypeOK
<1>2. CASE call[c].kind = "all"
  BY <1>2 DEF Snapshot, Config, Writers
<1>3. CASE call[c].kind # "all"
  <2>1. Len(call[c].read) = 4 /\ call[c].read \in Seq(Writers)
    BY <1>1, <1>3, TheFields DEF ScheduleSave, OnItsWay, At, CallState
  <2>2. \A f \in FieldSet : call[c].read[CHOOSE i \in DOMAIN Fields : Fields[i] = f] \in Writers
    <3> TAKE f \in FieldSet
    <3>1. PICK i \in 1 .. 4 : i = CHOOSE j \in DOMAIN Fields : Fields[j] = f
      BY PlaceOfField
    <3>2. call[c].read[i] \in Writers
      BY <2>1
    <3>3. QED
      BY <3>1, <3>2
  <2>3. QED
    BY <1>3, <2>2 DEF Snapshot, Config
<1>4. QED
  BY <1>2, <1>3

(* A call that is over, whether it has answered or the server crashed.     *)
LEMMA DoneIsACall ==
    ASSUME ConfigTypeOK, NEW c \in Calls
    PROVE  /\ [call[c] EXCEPT !.pc = "done", !.read = <<>>] \in CallState
           /\ OnItsWay([call[c] EXCEPT !.pc = "done", !.read = <<>>])
<1>1. PICK k \in CallState : k = call[c]
  BY DEF ConfigTypeOK
<1>2. [k EXCEPT !.pc = "done", !.read = <<>>] = [pc |-> "done", kind |-> k.kind, read |-> <<>>]
  <2>1. k = [pc |-> k.pc, kind |-> k.kind, read |-> k.read]
    BY DEF CallState
  <2>2. PICK p, kind, r : k = [pc |-> p, kind |-> kind, read |-> r]
    BY <2>1
  <2>3. [k EXCEPT !.pc = "done"] = [pc |-> "done", kind |-> kind, read |-> r]
    BY <2>2
  <2>4. [[pc |-> "done", kind |-> kind, read |-> r] EXCEPT !.read = <<>>]
        = [pc |-> "done", kind |-> kind, read |-> <<>>]
    OBVIOUS
  <2>5. [k EXCEPT !.pc = "done", !.read = <<>>] = [[k EXCEPT !.pc = "done"] EXCEPT !.read = <<>>]
    OBVIOUS
  <2>6. QED
    BY <2>2, <2>3, <2>4, <2>5
<1>3. [pc |-> "done", kind |-> k.kind, read |-> <<>>] \in CallState
  <2>1. k.kind \in {"none", "mode", "inject", "rewrite", "rules", "all", "intercept"}
    BY DEF CallState
  <2>2. <<>> \in Seq(Writers)
    OBVIOUS
  <2>3. QED
    BY <2>1, <2>2 DEF CallState
<1>4. OnItsWay([pc |-> "done", kind |-> k.kind, read |-> <<>>])
  BY DEF OnItsWay
<1>5. QED
  BY <1>1, <1>2, <1>3, <1>4

LEMMA TypeStep ==
    ASSUME ConfigTypeOK, [ConfigNext]_configVars
    PROVE  ConfigTypeOK'
<1> USE DEF At
<1>t. \A c \in Calls : call[c] \in CallState /\ OnItsWay(call[c])
  BY DEF ConfigTypeOK
<1>1. ASSUME NEW c \in Calls, SetOne(c)
      PROVE  ConfigTypeOK'
  <2>1. PICK f \in FieldSet \ {"mode"} :
           /\ Writes(c, f)
           /\ call' = [call EXCEPT ![c] = [pc |-> "snapshot", kind |-> f, read |-> <<>>]]
    BY <1>1 DEF SetOne
  <2> DEFINE k == [pc |-> "snapshot", kind |-> f, read |-> <<>>]
  <2>2. k \in CallState /\ OnItsWay(k)
    BY TheFields DEF CallState, OnItsWay
  <2>3. call' \in [Calls -> CallState] /\ \A d \in Calls : OnItsWay(call'[d])
    BY <2>1, <2>2, CallKeepsType
  <2>4. stores' \in Config /\ raced' \in BOOLEAN
    BY <2>1, WriteKeepsType
  <2>5. QED
    BY <1>1, <2>3, <2>4 DEF SetOne, ConfigTypeOK
<1>2. ASSUME NEW c \in Calls, SetProxyMode(c)
      PROVE  ConfigTypeOK'
  <2>1. PICK kind \in {"mode", "all"} :
           call' = [call EXCEPT ![c] = [pc |-> "intercept", kind |-> kind, read |-> <<>>]]
    BY <1>2 DEF SetProxyMode
  <2> DEFINE k == [pc |-> "intercept", kind |-> kind, read |-> <<>>]
  <2>2. k \in CallState /\ OnItsWay(k)
    BY TheFields DEF CallState, OnItsWay
  <2>3. call' \in [Calls -> CallState] /\ \A d \in Calls : OnItsWay(call'[d])
    BY <2>1, <2>2, CallKeepsType
  <2>4. stores' \in Config /\ raced' \in BOOLEAN
    BY <1>2, WriteKeepsType, TheFields DEF SetProxyMode
  <2>5. mixed' \in BOOLEAN
    BY <1>2 DEF SetProxyMode
  <2>6. QED
    BY <1>2, <2>3, <2>4, <2>5 DEF SetProxyMode, ConfigTypeOK
<1>3. ASSUME NEW c \in Calls, FollowIntercept(c)
      PROVE  ConfigTypeOK'
  <2>1. PICK pc \in {"inject", "snapshot"} :
           /\ pc = (IF call[c].kind = "all" THEN "inject" ELSE "snapshot")
           /\ call' = [call EXCEPT ![c].pc = pc]
    BY <1>3 DEF FollowIntercept, Moves
  <2> DEFINE k == [call[c] EXCEPT !.pc = pc]
  <2>2. k \in CallState /\ OnItsWay(k)
    BY <1>t, <1>3, <2>1, TheFields DEF CallState, OnItsWay, FollowIntercept
  <2>3. call' = [call EXCEPT ![c] = k]
    BY <2>1
  <2>4. call' \in [Calls -> CallState] /\ \A d \in Calls : OnItsWay(call'[d])
    BY <2>2, <2>3, CallKeepsType
  <2>5. intercept' \in {"auto", "manual"}
    BY <1>3 DEF FollowIntercept, InterceptModeFor
  <2>6. QED
    BY <1>3, <2>4, <2>5 DEF FollowIntercept, ConfigTypeOK
<1>4. ASSUME NEW c \in Calls, SetInterceptMode(c)
      PROVE  ConfigTypeOK'
  <2> DEFINE k == [pc |-> "done", kind |-> "intercept", read |-> <<>>]
  <2>1. k \in CallState /\ OnItsWay(k)
    BY DEF CallState, OnItsWay
  <2>2. call' \in [Calls -> CallState] /\ \A d \in Calls : OnItsWay(call'[d])
    BY <1>4, <2>1, CallKeepsType DEF SetInterceptMode
  <2>3. QED
    BY <1>4, <2>2 DEF SetInterceptMode, ConfigTypeOK
<1>5. ASSUME NEW c \in Calls, SetRest(c)
      PROVE  ConfigTypeOK'
  <2>1. PICK i \in 2 .. 4 :
           /\ At(c, Fields[i]) /\ Writes(c, Fields[i])
           /\ Moves(c, IF i = 4 THEN "schedule" ELSE Fields[i + 1])
    BY <1>5 DEF SetRest
  <2>2. PICK pc \in {"rewrite", "rules", "schedule"} : Moves(c, pc)
    <3>1. i = 2 \/ i = 3 \/ i = 4
      OBVIOUS
    <3>2. QED
      BY <2>1, <3>1, TheFields
  <2> DEFINE k == [call[c] EXCEPT !.pc = pc]
  <2>3. Fields[i] \in {"inject", "rewrite", "rules"} /\ Fields[i] \in FieldSet
    <3>1. i = 2 \/ i = 3 \/ i = 4
      OBVIOUS
    <3>2. QED
      BY <3>1, TheFields
  <2>4. k \in CallState /\ OnItsWay(k)
    BY <1>t, <2>1, <2>3 DEF CallState, OnItsWay
  <2>5. call' = [call EXCEPT ![c] = k]
    BY <2>2 DEF Moves
  <2>6. call' \in [Calls -> CallState] /\ \A d \in Calls : OnItsWay(call'[d])
    BY <2>4, <2>5, CallKeepsType
  <2>7. stores' \in Config /\ raced' \in BOOLEAN
    BY <2>1, <2>3, WriteKeepsType
  <2>8. QED
    BY <1>5, <2>6, <2>7 DEF SetRest, ConfigTypeOK
<1>6. ASSUME NEW c \in Calls, ReadSnapshot(c)
      PROVE  ConfigTypeOK'
  <2>0. call[c].read \in Seq(Writers)
    BY <1>t DEF CallState
  <2>a. Len(call[c].read) \in Nat /\ Len(call[c].read) < 4
    BY <1>6, <2>0, TheFields DEF ReadSnapshot
  <2>b. PICK m \in 0 .. 3 : m = Len(call[c].read)
    <3>1. PICK m \in Nat : m = Len(call[c].read)
      BY <2>a
    <3>a. m < 4
      BY <2>a, <3>1
    <3>2. m \in 0 .. 3
      BY <3>a
    <3>3. QED
      BY <3>1, <3>2
  <2>1. call[c].read \in Seq(Writers) /\ Len(call[c].read) \in 0 .. 3
    BY <2>0, <2>b
  <2>2. PICK w \in Writers : w = stores[Fields[Len(call[c].read) + 1]]
    <3>a. PICK n \in 1 .. 4 : n = Len(call[c].read) + 1
      <4>1. PICK n \in 1 .. 4 : n = m + 1
        OBVIOUS
      <4>2. m + 1 = Len(call[c].read) + 1
        BY <2>b
      <4>3. QED
        BY <4>1, <4>2
    <3>1. Fields[Len(call[c].read) + 1] \in FieldSet
      BY <3>a, TheFields
    <3>2. QED
      BY <3>1 DEF ConfigTypeOK, Config
  <2> DEFINE k == [call[c] EXCEPT !.read = Append(call[c].read, w)]
  <2>3. Append(call[c].read, w) \in Seq(Writers) /\ Len(Append(call[c].read, w)) = Len(call[c].read) + 1
    BY <2>1
  <2>4. k \in CallState
    BY <1>t, <2>3 DEF CallState
  <2>5. k.pc = call[c].pc /\ k.kind = call[c].kind /\ k.read = Append(call[c].read, w)
    BY <1>t DEF CallState
  <2>6. OnItsWay(k)
    BY <1>t, <1>6, <2>1, <2>3, <2>5, TheFields DEF OnItsWay, ReadSnapshot
  <2>7. call' = [call EXCEPT ![c] = k]
    BY <1>6, <2>2 DEF ReadSnapshot
  <2>8. call' \in [Calls -> CallState] /\ \A d \in Calls : OnItsWay(call'[d])
    BY <2>4, <2>6, <2>7, CallKeepsType
  <2>9. QED
    BY <1>6, <2>8 DEF ReadSnapshot, ConfigTypeOK
<1>7. ASSUME NEW c \in Calls, ScheduleSave(c)
      PROVE  ConfigTypeOK'
  <2> DEFINE k == [call[c] EXCEPT !.pc = "done", !.read = <<>>]
  <2>1. k \in CallState /\ OnItsWay(k)
    BY DoneIsACall DEF ConfigTypeOK
  <2>2. call' = [call EXCEPT ![c] = k]
    BY <1>7 DEF ScheduleSave
  <2>3. call' \in [Calls -> CallState] /\ \A d \in Calls : OnItsWay(call'[d])
    BY <2>1, <2>2, CallKeepsType
  <2>4. PICK s \in Config : s = Snapshot(c)
    BY <1>7, SnapshotIsConfig
  <2>5. saves' \in Seq(Config)
    BY <1>7, <2>4 DEF ScheduleSave, ConfigTypeOK
  <2>6. QED
    BY <1>7, <2>3, <2>5 DEF ScheduleSave, ConfigTypeOK
<1>8. ASSUME SaveStarts
      PROVE  ConfigTypeOK'
  <2>0. saves \in Seq(Config)
    BY DEF ConfigTypeOK
  <2>a. DOMAIN saves = 1 .. Len(saves)
    BY <2>0
  <2>1. PICK i \in 1 .. Len(saves) :
           /\ writing' = writing \cup {saves[i]}
           /\ saves' = SubSeq(saves, 1, i - 1) \o SubSeq(saves, i + 1, Len(saves))
           /\ disk' = Torn
           /\ raced' = (raced \/ i > 1 \/ writing # {})
           /\ UNCHANGED <<stores, modes, intercept, call, crashes, mixed>>
    BY <1>8, <2>a DEF SaveStarts
  <2>2. SubSeq(saves, 1, i - 1) \in Seq(Config)
    BY <2>0, SubSeqProperties
  <2>3. SubSeq(saves, i + 1, Len(saves)) \in Seq(Config)
    BY <2>0, SubSeqProperties
  <2>4. saves' \in Seq(Config)
    BY <2>1, <2>2, <2>3, ConcatProperties
  <2>5. saves[i] \in Config
    BY <2>0
  <2>6. QED
    BY <2>1, <2>4, <2>5 DEF ConfigTypeOK
<1>9. ASSUME SaveEnds
      PROVE  ConfigTypeOK'
  BY <1>9 DEF SaveEnds, ConfigTypeOK
<1>10. ASSUME Crash
       PROVE  ConfigTypeOK'
  <2>1. disk' \in Config \cup {Missing, Torn}
    BY <1>10 DEF Crash, CleanupOldConfigs, ConfigTypeOK
  <2>2. stores' \in Config
    BY <1>10, <2>1, LoadsAConfig DEF Crash
  <2>3. \A c \in Calls : call'[c] \in CallState /\ OnItsWay(call'[c])
    <3> TAKE c \in Calls
    <3>1. /\ [call[c] EXCEPT !.pc = "done", !.read = <<>>] \in CallState
          /\ OnItsWay([call[c] EXCEPT !.pc = "done", !.read = <<>>])
      BY DoneIsACall
    <3>2. call'[c] \in {call[c], [call[c] EXCEPT !.pc = "done", !.read = <<>>]}
      BY <1>10 DEF Crash
    <3>4. QED
      BY <1>t, <3>1, <3>2
  <2>4. call' \in [Calls -> CallState]
    BY <1>10, <2>3 DEF Crash
  <2>5. intercept' \in {"auto", "manual"}
    BY <1>10 DEF Crash, Restored, InterceptModeFor
  <2>6. saves' \in Seq(Config) /\ writing' \subseteq Config
    <3>1. saves' = <<>> /\ writing' = {}
      BY <1>10 DEF Crash
    <3>2. QED
      BY <3>1
  <2>7. QED
    BY <1>10, <2>1, <2>2, <2>3, <2>4, <2>5, <2>6 DEF Crash, ConfigTypeOK
<1>11. CASE UNCHANGED configVars
  BY <1>11 DEF configVars, ConfigTypeOK
<1>12. QED
  BY <1>1, <1>2, <1>3, <1>4, <1>5, <1>6, <1>7, <1>8, <1>9, <1>10, <1>11
     DEF ConfigNext, Handler

-----------------------------------------------------------------------------
(* What is read and written stays true while no one overtakes.             *)

(* A write that makes no one's work untrue leaves what the others have     *)
(* read and written as it is.                                              *)
LEMMA OthersStayCurrent ==
    ASSUME ConfigTypeOK, NEW c \in Calls, NEW f \in FieldSet, Writes(c, f), ~raced',
           NEW d \in Calls, d # c, call'[d] = call[d],
           SnapshotIsCurrent(d), BodyIsCurrent(d)
    PROVE  SnapshotIsCurrent(d)' /\ BodyIsCurrent(d)'
<1>1. ~raced /\ ~HasRead(d, f)
  BY DEF Writes
<1>2. \A g \in FieldSet \ {f} : stores'[g] = stores[g]
  BY DEF ConfigTypeOK, Config, Writes
<1>3. call[d] \in CallState /\ OnItsWay(call[d])
  BY DEF ConfigTypeOK
<1>4. SnapshotIsCurrent(d)'
  <2>1. SUFFICES ASSUME At(d, "snapshot"), NEW i \in 1 .. Len(call[d].read)
                 PROVE  call[d].read[i] = stores'[Fields[i]]
    BY DEF SnapshotIsCurrent, At
  <2>2. Fields[i] # f
    BY <1>1, <2>1 DEF HasRead, At
  <2>3. i \in 1 .. 4
    BY <1>3, <2>1, TheFields DEF OnItsWay, At, CallState
  <2>4. stores'[Fields[i]] = stores[Fields[i]]
    BY <1>2, <2>2, <2>3, TheFields
  <2>5. QED
    BY <2>1, <2>4 DEF SnapshotIsCurrent
<1>5. BodyIsCurrent(d)'
  <2>1. call[d].kind = "all" => call[d].pc = "done"
    BY <1>1 DEF HasRead, At
  <2>2. QED
    BY <2>1 DEF BodyIsCurrent
<1>6. QED
  BY <1>4, <1>5

(* Without a write they stay true by themselves.                           *)
LEMMA StaysCurrent ==
    ASSUME NEW d \in Calls, call'[d] = call[d], UNCHANGED stores,
           SnapshotIsCurrent(d), BodyIsCurrent(d)
    PROVE  SnapshotIsCurrent(d)' /\ BodyIsCurrent(d)'
BY DEF SnapshotIsCurrent, BodyIsCurrent, At

(* A call about to save has what the stores hold.                          *)
LEMMA SavesTheStores ==
    ASSUME ConfigTypeOK, NEW c \in Calls, ScheduleSave(c), SnapshotIsCurrent(c), BodyIsCurrent(c)
    PROVE  Snapshot(c) = stores
<1>1. call[c] \in CallState /\ OnItsWay(call[c])
  BY DEF ConfigTypeOK
<1>2. stores = [f \in FieldSet |-> stores[f]]
  BY DEF ConfigTypeOK, Config
<1>3. CASE At(c, "schedule")
  <2>1. call[c].kind = "all"
    BY <1>1, <1>3 DEF OnItsWay, At
  <2>2. \A f \in FieldSet : stores[f] = c
    BY <1>3, <2>1, TheFields DEF BodyIsCurrent, At
  <2>3. QED
    BY <1>2, <2>1, <2>2 DEF Snapshot
<1>4. CASE At(c, "snapshot") /\ Len(call[c].read) = Len(Fields)
  <2>1. call[c].kind # "all"
    BY <1>1, <1>4, TheFields DEF OnItsWay, At
  <2>2. \A f \in FieldSet : call[c].read[CHOOSE i \in DOMAIN Fields : Fields[i] = f] = stores[f]
    <3> TAKE f \in FieldSet
    <3>1. PICK i \in 1 .. 4 : i = CHOOSE j \in DOMAIN Fields : Fields[j] = f
      BY PlaceOfField
    <3>2. Fields[i] = f
      BY <3>1, PlaceOfField
    <3>3. call[c].read[i] = stores[Fields[i]]
      BY <1>4, TheFields DEF SnapshotIsCurrent
    <3>4. QED
      BY <3>1, <3>2, <3>3
  <2>3. QED
    BY <1>2, <2>1, <2>2 DEF Snapshot
<1>5. QED
  BY <1>3, <1>4 DEF ScheduleSave

LEMMA UnracedStep ==
    ASSUME ConfigTypeOK, ~raced => Unraced, [ConfigNext]_configVars
    PROVE  ~raced' => Unraced'
<1> SUFFICES ASSUME ~raced' PROVE Unraced'
  OBVIOUS
<1>t. \A c \in Calls : call[c] \in CallState /\ OnItsWay(call[c])
  BY DEF ConfigTypeOK
\* The saves and the file are as they were, and the caller's save is still to come.
<1>a. ASSUME ~raced, UNCHANGED <<saves, writing, disk>>, NEW c \in Calls, Begun(c)',
             \A d \in Calls : SnapshotIsCurrent(d)' /\ BodyIsCurrent(d)'
      PROVE  Unraced'
  BY <1>a DEF Unraced, SavesInOrder
<1>1. ASSUME NEW c \in Calls, SetOne(c)
      PROVE  Unraced'
  <2>1. PICK f \in FieldSet \ {"mode"} :
           /\ Writes(c, f)
           /\ call' = [call EXCEPT ![c] = [pc |-> "snapshot", kind |-> f, read |-> <<>>]]
    BY <1>1 DEF SetOne
  <2>2. ~raced
    BY <2>1 DEF Writes
  <2>3. call'[c] = [pc |-> "snapshot", kind |-> f, read |-> <<>>]
    BY <2>1 DEF ConfigTypeOK
  <2>4. SnapshotIsCurrent(c)' /\ BodyIsCurrent(c)' /\ Begun(c)'
    BY <2>3, TheFields DEF SnapshotIsCurrent, BodyIsCurrent, Begun, At
  <2>5. \A d \in Calls : SnapshotIsCurrent(d)' /\ BodyIsCurrent(d)'
    <3> TAKE d \in Calls
    <3>1. d # c => call'[d] = call[d]
      BY <2>1 DEF ConfigTypeOK
    <3>2. QED
      BY <2>1, <2>2, <2>4, <3>1, OthersStayCurrent DEF Unraced
  <2>6. QED
    BY <1>1, <2>2, <2>4, <2>5, <1>a DEF SetOne
<1>2. ASSUME NEW c \in Calls, SetProxyMode(c)
      PROVE  Unraced'
  <2>1. PICK k \in {"mode", "all"} :
           call' = [call EXCEPT ![c] = [pc |-> "intercept", kind |-> k, read |-> <<>>]]
    BY <1>2 DEF SetProxyMode
  <2>2. ~raced /\ Writes(c, "mode")
    BY <1>2 DEF SetProxyMode, Writes
  <2>3. call'[c] = [pc |-> "intercept", kind |-> k, read |-> <<>>] /\ stores'["mode"] = c
    BY <2>1, <2>2, TheFields DEF ConfigTypeOK, Config, Writes
  <2>4. SnapshotIsCurrent(c)' /\ BodyIsCurrent(c)' /\ Begun(c)'
    BY <2>3, TheFields DEF SnapshotIsCurrent, BodyIsCurrent, Begun, At
  <2>5. \A d \in Calls : SnapshotIsCurrent(d)' /\ BodyIsCurrent(d)'
    <3> TAKE d \in Calls
    <3>1. d # c => call'[d] = call[d]
      BY <2>1 DEF ConfigTypeOK
    <3>2. QED
      BY <2>2, <2>4, <3>1, OthersStayCurrent, TheFields DEF Unraced
  <2>6. QED
    BY <1>2, <2>2, <2>4, <2>5, <1>a DEF SetProxyMode
<1>3. ASSUME NEW c \in Calls, FollowIntercept(c)
      PROVE  Unraced'
  <2>1. PICK pc \in {"inject", "snapshot"} :
           /\ pc = (IF call[c].kind = "all" THEN "inject" ELSE "snapshot")
           /\ call' = [call EXCEPT ![c].pc = pc]
    BY <1>3 DEF FollowIntercept, Moves
  <2>2. ~raced /\ UNCHANGED stores
    BY <1>3 DEF FollowIntercept
  <2>3. call'[c] = [call[c] EXCEPT !.pc = pc]
    BY <2>1 DEF ConfigTypeOK
  <2>4. call'[c].pc = pc /\ call'[c].kind = call[c].kind /\ call'[c].read = <<>>
    BY <1>t, <1>3, <2>3 DEF CallState, OnItsWay, FollowIntercept, At
  <2>5. SnapshotIsCurrent(c)' /\ Begun(c)'
    BY <2>4 DEF SnapshotIsCurrent, Begun, At
  <2>6. BodyIsCurrent(c)'
    BY <1>3, <2>1, <2>2, <2>4 DEF BodyIsCurrent, FollowIntercept, At, Unraced
  <2>7. \A d \in Calls : SnapshotIsCurrent(d)' /\ BodyIsCurrent(d)'
    <3> TAKE d \in Calls
    <3>1. d # c => call'[d] = call[d]
      BY <2>1 DEF ConfigTypeOK
    <3>2. QED
      BY <2>2, <2>5, <2>6, <3>1, StaysCurrent DEF Unraced
  <2>8. QED
    BY <1>3, <2>2, <2>5, <2>7, <1>a DEF FollowIntercept
<1>4. ASSUME NEW c \in Calls, SetInterceptMode(c)
      PROVE  Unraced'
  <2>1. call'[c] = [pc |-> "done", kind |-> "intercept", read |-> <<>>]
    BY <1>4 DEF ConfigTypeOK, SetInterceptMode
  <2>2. ~raced /\ UNCHANGED <<stores, saves, writing, disk>> /\ At(c, "idle")
    BY <1>4 DEF SetInterceptMode
  <2>3. \A d \in Calls \ {c} : call'[d] = call[d]
    BY <1>4 DEF ConfigTypeOK, SetInterceptMode
  <2>4. SnapshotIsCurrent(c)' /\ BodyIsCurrent(c)'
    BY <2>1 DEF SnapshotIsCurrent, BodyIsCurrent, At
  <2>5. \A d \in Calls : SnapshotIsCurrent(d)' /\ BodyIsCurrent(d)'
    BY <2>2, <2>3, <2>4, StaysCurrent DEF Unraced
  <2>6. (\E d \in Calls : Begun(d)) => (\E d \in Calls : Begun(d))'
    BY <2>2, <2>3 DEF Begun, At
  <2>7. Settled' = Settled
    BY <2>2 DEF Settled
  <2>8. QED
    BY <2>2, <2>5, <2>6, <2>7 DEF Unraced, SavesInOrder
<1>5. ASSUME NEW c \in Calls, SetRest(c)
      PROVE  Unraced'
  <2>1. PICK i \in 2 .. 4 :
           /\ At(c, Fields[i]) /\ Writes(c, Fields[i])
           /\ Moves(c, IF i = 4 THEN "schedule" ELSE Fields[i + 1])
    BY <1>5 DEF SetRest
  <2>i. i = 2 \/ i = 3 \/ i = 4
    OBVIOUS
  <2>2. Fields[i] \in FieldSet /\ Fields[i] \in {"inject", "rewrite", "rules"}
    BY <2>i, TheFields
  <2>3. ~raced
    BY <2>1 DEF Writes
  <2>4. PICK pc : pc = (IF i = 4 THEN "schedule" ELSE Fields[i + 1])
    OBVIOUS
  <2>5. call'[c].pc = pc /\ call'[c].kind = call[c].kind
    BY <1>t, <2>1, <2>4 DEF Moves, CallState, ConfigTypeOK
  <2>6. \/ i = 2 /\ call[c].pc = "inject" /\ pc = "rewrite"
        \/ i = 3 /\ call[c].pc = "rewrite" /\ pc = "rules"
        \/ i = 4 /\ call[c].pc = "rules" /\ pc = "schedule"
    BY <2>i, <2>1, <2>4, TheFields DEF At
  <2>7. /\ \A f \in FieldSet \ {Fields[i]} : stores'[f] = stores[f]
        /\ stores'[Fields[i]] = c
    BY <2>1, <2>2 DEF Writes, ConfigTypeOK, Config
  <2>8. SnapshotIsCurrent(c)' /\ Begun(c)'
    BY <2>5, <2>6 DEF SnapshotIsCurrent, Begun, At
  <2>9. BodyIsCurrent(c)'
    <3>0. BodyIsCurrent(c)
      BY <2>3 DEF Unraced
    <3>1. CASE i = 2
      BY <2>5, <2>6, <2>7, <3>0, <3>1, TheFields DEF BodyIsCurrent
    <3>2. CASE i = 3
      BY <2>5, <2>6, <2>7, <3>0, <3>2, TheFields DEF BodyIsCurrent
    <3>3. CASE i = 4
      BY <2>5, <2>6, <2>7, <3>0, <3>3, TheFields DEF BodyIsCurrent
    <3>4. QED
      BY <2>i, <3>1, <3>2, <3>3
  <2>10. \A d \in Calls : SnapshotIsCurrent(d)' /\ BodyIsCurrent(d)'
    <3> TAKE d \in Calls
    <3>1. d # c => call'[d] = call[d]
      BY <2>1 DEF ConfigTypeOK, Moves
    <3>2. QED
      BY <2>1, <2>2, <2>3, <2>8, <2>9, <3>1, OthersStayCurrent DEF Unraced
  <2>11. QED
    BY <1>5, <2>3, <2>8, <2>10, <1>a DEF SetRest
<1>6. ASSUME NEW c \in Calls, ReadSnapshot(c)
      PROVE  Unraced'
  <2>0. ~raced /\ UNCHANGED stores /\ At(c, "snapshot")
    BY <1>6 DEF ReadSnapshot
  <2>1. PICK s \in Seq(Writers) : s = call[c].read
    BY <1>t DEF CallState
  <2>2. PICK n \in 1 .. 4 : n = Len(s) + 1
    BY <1>6, <2>1, TheFields DEF ReadSnapshot
  <2>3. PICK w \in Writers : w = stores[Fields[n]]
    BY TheFields DEF ConfigTypeOK, Config
  <2>4. /\ call' = [call EXCEPT ![c].read = Append(s, w)]
        /\ call'[c].read = Append(s, w)
        /\ call'[c].pc = call[c].pc /\ call'[c].kind = call[c].kind
    BY <1>t, <1>6, <2>1, <2>2, <2>3 DEF ReadSnapshot, ConfigTypeOK, CallState
  <2>5. SnapshotIsCurrent(c)'
    <3>1. Len(Append(s, w)) = n /\ Append(s, w)[n] = w
      BY <2>2
    <3>2. \A i \in 1 .. Len(s) : Append(s, w)[i] = s[i] /\ s[i] = stores[Fields[i]]
      BY <2>0, <2>1 DEF Unraced, SnapshotIsCurrent
    <3>3. \A i \in 1 .. n : i \in 1 .. Len(s) \/ i = n
      BY <2>2
    <3>4. \A i \in 1 .. Len(Append(s, w)) : Append(s, w)[i] = stores[Fields[i]]
      BY <2>3, <3>1, <3>2, <3>3
    <3>5. QED
      BY <2>0, <2>4, <3>4 DEF SnapshotIsCurrent
  <2>6. BodyIsCurrent(c)' /\ Begun(c)'
    BY <2>0, <2>4 DEF Unraced, BodyIsCurrent, Begun, At
  <2>7. \A d \in Calls : SnapshotIsCurrent(d)' /\ BodyIsCurrent(d)'
    <3> TAKE d \in Calls
    <3>1. d # c => call'[d] = call[d]
      BY <2>4 DEF ConfigTypeOK
    <3>2. QED
      BY <2>0, <2>5, <2>6, <3>1, StaysCurrent DEF Unraced
  <2>8. QED
    BY <1>6, <2>0, <2>6, <2>7, <1>a DEF ReadSnapshot
<1>7. ASSUME NEW c \in Calls, ScheduleSave(c)
      PROVE  Unraced'
  <2>1. ~raced /\ UNCHANGED <<stores, writing, disk>>
    BY <1>7 DEF ScheduleSave
  <2>2. PICK s \in Config : s = Snapshot(c)
    BY <1>7, SnapshotIsConfig
  <2>3. s = stores
    BY <1>7, <2>1, <2>2, SavesTheStores DEF Unraced
  <2>4. saves' = Append(saves, s) /\ saves \in Seq(Config)
    BY <1>7, <2>2 DEF ScheduleSave, ConfigTypeOK
  <2>5. saves' # <<>> /\ saves'[Len(saves')] = s
    BY <2>4
  <2>6. Settled' = stores'
    BY <2>1, <2>3, <2>5 DEF Settled
  <2>7. call'[c].pc = "done"
    BY <1>t, <1>7 DEF ScheduleSave, ConfigTypeOK, CallState
  <2>8. SnapshotIsCurrent(c)' /\ BodyIsCurrent(c)'
    BY <2>7 DEF SnapshotIsCurrent, BodyIsCurrent, At
  <2>9. \A d \in Calls : SnapshotIsCurrent(d)' /\ BodyIsCurrent(d)'
    <3> TAKE d \in Calls
    <3>1. d # c => call'[d] = call[d]
      BY <1>7 DEF ConfigTypeOK, ScheduleSave
    <3>2. QED
      BY <2>1, <2>8, <3>1, StaysCurrent DEF Unraced
  <2>10. QED
    BY <2>1, <2>6, <2>9 DEF Unraced, SavesInOrder
<1>8. ASSUME SaveStarts
      PROVE  Unraced'
  <2>0. saves \in Seq(Config) /\ DOMAIN saves = 1 .. Len(saves)
    BY DEF ConfigTypeOK
  <2>1. PICK i \in 1 .. Len(saves) :
           /\ writing' = writing \cup {saves[i]}
           /\ saves' = SubSeq(saves, 1, i - 1) \o SubSeq(saves, i + 1, Len(saves))
           /\ raced' = (raced \/ i > 1 \/ writing # {})
           /\ UNCHANGED <<stores, call>>
    BY <1>8, <2>0 DEF SaveStarts
  <2>a. ~raced /\ ~(i > 1) /\ writing = {}
    BY <2>1, Zenon
  <2>2. ~raced /\ i = 1 /\ writing = {}
    BY <2>a
  <2>3. PICK s \in Config : s = saves[1]
    BY <2>0, <2>1, <2>2
  <2>4. writing' = {s}
    BY <2>1, <2>2, <2>3
  <2>5. saves' = Tail(saves)
    <3>1. SubSeq(saves, 1, 0) = <<>>
      BY <2>0
    <3>2. SubSeq(saves, 2, Len(saves)) = Tail(saves)
      BY <2>0, <2>1
    <3>3. Tail(saves) \in Seq(Config)
      BY <2>0, <2>1
    <3>4. <<>> \o Tail(saves) = Tail(saves)
      BY <3>3
    <3>5. QED
      BY <2>1, <2>2, <3>1, <3>2, <3>4
  <2>6. Settled' = Settled
    <3>1. saves # <<>> /\ Len(saves) \in Nat /\ Len(saves) >= 1
      BY <2>0, <2>1
    <3>2. Settled = saves[Len(saves)]
      BY <3>1 DEF Settled
    <3>3. CASE Len(saves) = 1
      <4>1. saves' = <<>>
        BY <2>0, <2>5, <3>3
      <4>2. (CHOOSE x \in {s} : TRUE) = s
        OBVIOUS
      <4>3. Settled' = s
        BY <2>4, <4>1, <4>2 DEF Settled
      <4>4. QED
        BY <2>3, <3>2, <3>3, <4>3
    <3>4. CASE Len(saves) > 1
      <4>0. saves # <<>>
        BY <3>1
      <4>a. Len(Tail(saves)) = Len(saves) - 1
        BY <2>0, <4>0
      <4>1. Len(Tail(saves)) = Len(saves) - 1 /\ Tail(saves) # <<>>
        BY <4>a, <3>1, <3>4
      <4>2. Tail(saves)[Len(saves) - 1] = saves[Len(saves)]
        BY <2>0, <3>1, <3>4
      <4>3. QED
        BY <2>5, <3>2, <4>1, <4>2 DEF Settled
    <3>5. Len(saves) = 1 \/ Len(saves) > 1
      <4>1. PICK n \in Nat : n = Len(saves)
        BY <3>1
      <4>2. n >= 1
        BY <3>1, <4>1
      <4>3. n = 1 \/ n > 1
        BY <4>2
      <4>4. QED
        BY <4>1, <4>3
    <3>6. QED
      BY <3>3, <3>4, <3>5
  <2>7. SavesInOrder'
    BY <2>4 DEF SavesInOrder
  <2>8. \A d \in Calls : SnapshotIsCurrent(d)' /\ BodyIsCurrent(d)'
    BY <2>1, <2>2, StaysCurrent DEF Unraced
  <2>9. (\E d \in Calls : Begun(d)) => (\E d \in Calls : Begun(d))'
    BY <2>1 DEF Begun
  <2>10. QED
    BY <2>1, <2>2, <2>6, <2>7, <2>8, <2>9 DEF Unraced
<1>9. ASSUME SaveEnds
      PROVE  Unraced'
  <2>1. PICK s \in writing : writing' = writing \ {s} /\ disk' = s /\ UNCHANGED raced
    BY <1>9 DEF SaveEnds
  <2>2. ~raced /\ UNCHANGED <<stores, call, saves>>
    BY <1>9, <2>1 DEF SaveEnds
  <2>3. writing = {s} /\ writing' = {}
    BY <2>1, <2>2 DEF Unraced, SavesInOrder
  <2>4. s \in Config
    BY <2>1 DEF ConfigTypeOK
  <2>5. (CHOOSE x \in {s} : TRUE) = s
    OBVIOUS
  <2>6. Load(disk') = s
    BY <2>1, <2>4, LoadsAsWritten
  <2>7. Settled' = Settled
    <3>1. saves # <<>> => Settled' = Settled
      BY <2>2 DEF Settled
    <3>2. saves = <<>> => Settled = s
      BY <2>3, <2>5 DEF Settled
    <3>3. saves = <<>> => Settled' = Load(disk')
      BY <2>2, <2>3 DEF Settled, Load
    <3>4. QED
      BY <2>6, <3>1, <3>2, <3>3
  <2>8. \A d \in Calls : SnapshotIsCurrent(d)' /\ BodyIsCurrent(d)'
    BY <2>2, StaysCurrent DEF Unraced
  <2>9. (\E d \in Calls : Begun(d)) => (\E d \in Calls : Begun(d))'
    BY <2>2 DEF Begun
  <2>10. QED
    BY <2>2, <2>3, <2>7, <2>8, <2>9 DEF Unraced, SavesInOrder
<1>10. ASSUME Crash
       PROVE  Unraced'
  <2>1. \A d \in Calls : call'[d].pc \in {"idle", "done"}
    BY <1>10, <1>t DEF Crash, CallState, At
  <2>2. \A d \in Calls : SnapshotIsCurrent(d)' /\ BodyIsCurrent(d)'
    BY <2>1 DEF SnapshotIsCurrent, BodyIsCurrent, At
  <2>3. saves' = <<>> /\ writing' = {} /\ stores' = Load(disk')
    BY <1>10 DEF Crash
  <2>4. Settled' = stores'
    BY <2>3 DEF Settled, Load
  <2>5. QED
    BY <2>2, <2>3, <2>4 DEF Unraced, SavesInOrder
<1>11. CASE UNCHANGED configVars
  <2>1. ~raced /\ UNCHANGED <<stores, call, saves, writing, disk>>
    BY <1>11 DEF configVars
  <2>2. \A d \in Calls : SnapshotIsCurrent(d)' /\ BodyIsCurrent(d)'
    BY <2>1, StaysCurrent DEF Unraced
  <2>3. Settled' = Settled /\ ((\E d \in Calls : Begun(d)) => (\E d \in Calls : Begun(d))')
    BY <2>1 DEF Settled, Begun
  <2>4. QED
    BY <2>1, <2>2, <2>3 DEF Unraced, SavesInOrder
<1>12. QED
  BY <1>1, <1>2, <1>3, <1>4, <1>5, <1>6, <1>7, <1>8, <1>9, <1>10, <1>11
     DEF ConfigNext, Handler

-----------------------------------------------------------------------------
(* The gate follows the proxy mode.                                        *)

(* A step that leaves both modes alone, and whoever is about to change the *)
(* second.                                                                 *)
LEMMA ModesStay ==
    ASSUME Unmixed, UNCHANGED <<modes, intercept>>, stores'["mode"] = stores["mode"],
           \A c \in Calls : At(c, "intercept")' <=> At(c, "intercept")
    PROVE  Unmixed'
BY DEF Unmixed, InterceptModeFor

LEMMA UnmixedStep ==
    ASSUME ConfigTypeOK, ~mixed => Unmixed, [ConfigNext]_configVars
    PROVE  ~mixed' => Unmixed'
<1> SUFFICES ASSUME ~mixed' PROVE Unmixed'
  OBVIOUS
<1>t. \A c \in Calls : call[c] \in CallState /\ OnItsWay(call[c])
  BY DEF ConfigTypeOK
<1>1. ASSUME NEW c \in Calls, SetOne(c)
      PROVE  Unmixed'
  <2>1. PICK f \in FieldSet \ {"mode"} :
           /\ Writes(c, f)
           /\ call' = [call EXCEPT ![c] = [pc |-> "snapshot", kind |-> f, read |-> <<>>]]
    BY <1>1 DEF SetOne
  <2>2. stores'["mode"] = stores["mode"]
    BY <2>1 DEF Writes, ConfigTypeOK, Config
  <2>3. \A d \in Calls : At(d, "intercept")' <=> At(d, "intercept")
    BY <1>1, <2>1 DEF At, ConfigTypeOK, SetOne
  <2>4. QED
    BY <1>1, <2>2, <2>3, ModesStay DEF SetOne
<1>2. ASSUME NEW c \in Calls, SetProxyMode(c)
      PROVE  Unmixed'
  <2>1. PICK k \in {"mode", "all"} :
           call' = [call EXCEPT ![c] = [pc |-> "intercept", kind |-> k, read |-> <<>>]]
    BY <1>2 DEF SetProxyMode
  <2>2. stores'["mode"] = c
    BY <1>2, TheFields DEF SetProxyMode, Writes, ConfigTypeOK, Config
  <2>3. At(c, "intercept")'
    BY <2>1 DEF At, ConfigTypeOK
  <2>4. \A d \in Calls \ {c} : ~SettingModes(d)
    BY <1>2 DEF SetProxyMode
  <2>5. \A d \in Calls \ {c} : At(d, "intercept")' => At(d, "intercept")
    BY <2>1 DEF At, ConfigTypeOK
  <2>6. \A d \in Calls \ {c} : ~At(d, "intercept")
    BY <1>t, <2>4 DEF SettingModes, OnItsWay, At
  <2>7. QED
    BY <2>2, <2>3, <2>5, <2>6 DEF Unmixed
<1>3. ASSUME NEW c \in Calls, FollowIntercept(c)
      PROVE  Unmixed'
  <2>1. Unmixed /\ At(c, "intercept") /\ UNCHANGED <<stores, modes>>
    BY <1>3 DEF FollowIntercept
  <2>2. intercept' = InterceptModeFor(stores["mode"])
    BY <1>3, <2>1 DEF FollowIntercept, Unmixed
  <2>3. \A d \in Calls : At(d, "intercept")' => At(d, "intercept")
    BY <1>3 DEF FollowIntercept, Moves, At, ConfigTypeOK
  <2>4. QED
    BY <2>1, <2>2, <2>3 DEF Unmixed, InterceptModeFor
<1>4. ASSUME NEW c \in Calls, SetInterceptMode(c)
      PROVE  Unmixed'
  BY <1>4 DEF SetInterceptMode
<1>5. ASSUME NEW c \in Calls, SetRest(c)
      PROVE  Unmixed'
  <2>1. PICK i \in 2 .. 4 :
           /\ At(c, Fields[i]) /\ Writes(c, Fields[i])
           /\ Moves(c, IF i = 4 THEN "schedule" ELSE Fields[i + 1])
    BY <1>5 DEF SetRest
  <2>i. i = 2 \/ i = 3 \/ i = 4
    OBVIOUS
  <2>2. Fields[i] \in {"inject", "rewrite", "rules"} /\ Fields[i] \in FieldSet
    BY <2>i, TheFields
  <2>3. stores'["mode"] = stores["mode"]
    BY <2>1, <2>2, TheFields DEF Writes, ConfigTypeOK, Config
  <2>4. PICK pc \in {"rewrite", "rules", "schedule"} : Moves(c, pc)
    BY <2>i, <2>1, TheFields
  <2>5. \A d \in Calls : At(d, "intercept")' <=> At(d, "intercept")
    <3>1. \A d \in Calls \ {c} : call'[d] = call[d]
      BY <2>4 DEF ConfigTypeOK, Moves
    <3>2. call'[c].pc = pc
      BY <1>t, <2>4 DEF ConfigTypeOK, Moves, CallState
    <3>3. call[c].pc # "intercept"
      BY <2>1, <2>2 DEF At
    <3>4. QED
      BY <3>1, <3>2, <3>3 DEF At
  <2>6. QED
    BY <1>5, <2>3, <2>5, ModesStay DEF SetRest
<1>6. ASSUME NEW c \in Calls, ReadSnapshot(c) \/ ScheduleSave(c)
      PROVE  Unmixed'
  <2>1. Unmixed /\ UNCHANGED <<stores, modes, intercept>>
    BY <1>6 DEF ReadSnapshot, ScheduleSave
  <2>2. \A d \in Calls \ {c} : call'[d] = call[d]
    BY <1>6 DEF ReadSnapshot, ScheduleSave, ConfigTypeOK
  <2>3. call[c].pc # "intercept" /\ call'[c].pc # "intercept"
    <3>1. CASE ReadSnapshot(c)
      BY <1>t, <3>1 DEF ReadSnapshot, ConfigTypeOK, At, CallState
    <3>2. CASE ScheduleSave(c)
      BY <1>t, <3>2 DEF ScheduleSave, ConfigTypeOK, At, CallState
    <3>3. QED
      BY <1>6, <3>1, <3>2
  <2>4. \A d \in Calls : At(d, "intercept")' <=> At(d, "intercept")
    BY <2>2, <2>3 DEF At
  <2>5. QED
    BY <2>1, <2>4, ModesStay
<1>7. CASE SaveStarts \/ SaveEnds \/ UNCHANGED configVars
  <2>1. Unmixed /\ UNCHANGED <<stores, modes, intercept, call>>
    BY <1>7 DEF SaveStarts, SaveEnds, configVars
  <2>2. \A d \in Calls : At(d, "intercept")' <=> At(d, "intercept")
    BY <2>1 DEF At
  <2>3. QED
    BY <2>1, <2>2, ModesStay
<1>8. CASE Crash
  <2>1. \A d \in Calls : call'[d].pc \in {"idle", "done"}
    BY <1>8, <1>t DEF Crash, CallState, At
  <2>2. intercept' = InterceptModeFor(stores'["mode"]) /\ UNCHANGED modes
    BY <1>8 DEF Crash, Restored
  <2>3. QED
    BY <2>1, <2>2 DEF Unmixed, At, InterceptModeFor
<1>9. QED
  BY <1>1, <1>2, <1>3, <1>4, <1>5, <1>6, <1>7, <1>8 DEF ConfigNext, Handler

-----------------------------------------------------------------------------
(* Init: no call has begun, the file is missing and the stores hold the    *)
(* defaults.                                                               *)
LEMMA SettledInit == ConfigInit => SettledInv
<1> SUFFICES ASSUME ConfigInit PROVE SettledInv
  OBVIOUS
<1>1. \A c \in Calls : call[c] = Idle
  BY DEF ConfigInit
<1>2. \A c \in Calls : SnapshotIsCurrent(c) /\ BodyIsCurrent(c) /\ ~At(c, "intercept")
  BY <1>1 DEF Idle, SnapshotIsCurrent, BodyIsCurrent, At
<1>3. Settled = stores
  BY DEF ConfigInit, Settled, Load
<1>4. stores["mode"] = "default"
  BY TheFields DEF ConfigInit, Default
<1>5. intercept = InterceptModeFor(stores["mode"])
  BY <1>4 DEF ConfigInit, InterceptModeFor
<1>6. SavesInOrder
  BY DEF ConfigInit, SavesInOrder
<1>7. QED
  BY <1>2, <1>3, <1>5, <1>6, TypeInit DEF SettledInv, Unraced, Unmixed

(* When nothing is under way the last save has reached the file.           *)
LEMMA SettledMeansSaved == SettledInv => SettledConfigIsSaved
<1> SUFFICES ASSUME SettledInv, Quiet PROVE
      /\ ~raced /\ disk # Torn => Load(disk) = stores
      /\ ~mixed => intercept = InterceptModeFor(stores["mode"])
  BY DEF SettledConfigIsSaved
<1>1. \A c \in Calls : ~Begun(c) /\ ~At(c, "intercept")
  BY DEF Quiet, Begun, At
<1>2. Settled = Load(disk)
  BY DEF Quiet, Settled
<1>3. QED
  BY <1>1, <1>2 DEF SettledInv, Unraced, Unmixed

(* Whatever number of calls set the configuration of a session, however    *)
(* they and their delayed saves interleave and wherever the server         *)
(* crashes: once nothing is under way the file holds what the stores hold  *)
(* and the gate follows the proxy mode, unless a write overtook another    *)
(* call's snapshot or save, or modes were set at once.                     *)
THEOREM ConfigSettles == ConfigSpec => []SettledConfigIsSaved
<1>1. SettledInv /\ [ConfigNext]_configVars => SettledInv'
  BY TypeStep, UnracedStep, UnmixedStep DEF SettledInv
<1>2. QED
  BY SettledInit, SettledMeansSaved, <1>1, PTL DEF ConfigSpec

-----------------------------------------------------------------------------
(***************************************************************************)
(* ApiKeys, for any number of keys, requests and calls.                    *)
(***************************************************************************)
KeysTypeOK ==
    /\ keys \in [KeyIds -> Status] /\ keysFile \in [KeyIds -> Status]
    /\ counter \in Nat /\ turns \in [KeyIds -> Nat]
    /\ editing \in [Editors -> [pc : {"idle", "changed", "listed"}, listed : [KeyIds -> Status]]]
    /\ DOMAIN asking = Requests

(* A request that picks has listed some keys, in order: those that were    *)
(* active.                                                                 *)
WellListed(a) == a.pc = "pick" => \E K \in SUBSET KeyIds : K # {} /\ a.listed \in Listing(K)

(* How many picks ago the i-th key of n was picked, when the counter       *)
(* points at p.                                                            *)
PicksAgo(i, p, n) == IF i <= p THEN p - i ELSE p - i + n

(* All keys of the list had t turns, those picked in the present round one *)
(* more.                                                                   *)
InRound(list, n, taken, c) ==
    \E t \in Nat, d \in 0 .. n - 1 :
        \A i \in 1 .. n :
            taken[list[i]] = IF PicksAgo(i, c % n, n) < d THEN t + 1 ELSE t

RoundsAreKept ==
    Active # {} =>
        \A list \in Listing(Active) : InRound(list, Cardinality(Active), turns, counter)

KeysInv == KeysTypeOK /\ (\A r \in Requests : WellListed(asking[r])) /\ RoundsAreKept

(* Counting on by one goes round the places 0 to n - 1.                    *)
LEMMA GoesRound == 
    ASSUME NEW c \in Nat, NEW n \in Nat \ {0}
    PROVE  /\ c % n \in 0 .. n - 1
           /\ (c + 1) % n = IF (c % n) + 1 = n THEN 0 ELSE (c % n) + 1
<1>1. c = n * (c \div n) + (c % n) /\ c \div n \in Nat /\ c % n \in 0..n-1
  OBVIOUS
<1>2. c + 1 = n * ((c+1) \div n) + ((c+1) % n) /\ (c+1) \div n \in Nat /\ (c+1) % n \in 0..n-1
  OBVIOUS
<1>q. ASSUME NEW x \in Nat, NEW y \in Nat, NEW u \in 0..n-1, NEW v \in 0..n-1, n * x + u + 1 = n * y + v PROVE v = IF u+1=n THEN 0 ELSE u+1
  <2>1. CASE y <= x - 1
    <3>1. n * y <= n * (x - 1)
      BY <2>1
    <3>. QED BY <3>1, <1>q
  <2>2. CASE y = x
    BY <2>2, <1>q
  <2>3. CASE y = x + 1
    BY <2>3, <1>q
  <2>4. CASE y >= x + 2
    <3>1. n * y >= n * (x + 2)
      BY <2>4
    <3>. QED BY <3>1, <1>q
  <2>. QED BY <2>1, <2>2, <2>3, <2>4
<1>3. PICK x \in Nat : x = c \div n
  BY <1>1
<1>4. PICK u \in 0 .. n - 1 : u = c % n
  BY <1>1
<1>5. PICK y \in Nat : y = (c + 1) \div n
  BY <1>2
<1>6. PICK v \in 0 .. n - 1 : v = (c + 1) % n
  BY <1>2
<1>7. c = n * x + u /\ c + 1 = n * y + v
  BY <1>1, <1>2, <1>3, <1>4, <1>5, <1>6
<1>8. v = IF u + 1 = n THEN 0 ELSE u + 1
  <2>1. n * x + u + 1 = n * y + v
    BY <1>7
  <2> QED BY <1>q, <2>1
<1> QED BY <1>1, <1>4, <1>6, <1>8

(* One more pick stays in the round, or ends it.                           *)
LEMMA PickKeepsRound ==
    ASSUME NEW n \in Nat \ {0}, NEW c \in Nat, NEW list \in [1 .. n -> KeyIds],
           \A i, j \in 1 .. n : list[i] = list[j] => i = j,
           NEW taken \in [KeyIds -> Nat], InRound(list, n, taken, c),
           NEW k, k = list[(c % n) + 1]
    PROVE  InRound(list, n, [taken EXCEPT ![k] = @ + 1], c + 1)
<1>1. PICK p \in 0 .. n - 1 : p = c % n
  BY GoesRound
<1>2. PICK p2 \in 0 .. n - 1 : p2 = (c + 1) % n /\ p2 = IF p + 1 = n THEN 0 ELSE p + 1
  <2>1. (c + 1) % n = IF (c % n) + 1 = n THEN 0 ELSE (c % n) + 1
    BY GoesRound
  <2>2. (c + 1) % n = IF p + 1 = n THEN 0 ELSE p + 1
    BY <1>1, <2>1
  <2>3. (IF p + 1 = n THEN 0 ELSE p + 1) \in 0 .. n - 1
    OBVIOUS
  <2> QED BY <2>2, <2>3
<1>3. PICK t \in Nat, d \in 0 .. n - 1 :
        \A i \in 1 .. n : taken[list[i]] = IF PicksAgo(i, p, n) < d THEN t + 1 ELSE t
  BY <1>1 DEF InRound
<1> DEFINE taken2 == [taken EXCEPT ![k] = @ + 1]
<1>4. p + 1 \in 1 .. n /\ k = list[p + 1] /\ k \in KeyIds
  BY <1>1
<1>5. PicksAgo(p + 1, p, n) = n - 1 /\ PicksAgo(p + 1, p2, n) = 0
  BY <1>2 DEF PicksAgo
<1>6. /\ taken2[list[p + 1]] = t + 1
      /\ \A i \in 1 .. n : i # p + 1 => taken2[list[i]] = taken[list[i]]
  <2>1. taken[list[p + 1]] = t
    BY <1>3, <1>4, <1>5
  <2>2. taken2[k] = t + 1
    BY <1>4, <2>1
  <2>3. ASSUME NEW i \in 1 .. n, i # p + 1 PROVE taken2[list[i]] = taken[list[i]]
    <3>1. list[i] # k /\ list[i] \in KeyIds
      BY <1>4, <2>3
    <3> QED BY <3>1
  <2> QED BY <1>4, <2>2, <2>3
<1> HIDE DEF taken2
<1>7. CASE d + 1 < n
  <2>1. \A i \in 1 .. n : taken2[list[i]] = IF PicksAgo(i, p2, n) < d + 1 THEN t + 1 ELSE t
    <3>1. ASSUME NEW i \in 1 .. n
          PROVE  taken2[list[i]] = IF PicksAgo(i, p2, n) < d + 1 THEN t + 1 ELSE t
      <4>1. CASE i = p + 1
        BY <1>5, <1>6, <4>1
      <4>2. CASE i # p + 1
        <5>1. PicksAgo(i, p2, n) < d + 1 <=> PicksAgo(i, p, n) < d
          <6>1. CASE p + 1 = n
            BY <1>2, <4>2, <6>1 DEF PicksAgo
          <6>2. CASE p + 1 # n
            BY <1>2, <4>2, <6>2 DEF PicksAgo
          <6> QED BY <6>1, <6>2
        <5>2. taken2[list[i]] = IF PicksAgo(i, p, n) < d THEN t + 1 ELSE t
          BY <1>3, <1>6, <4>2
        <5> QED BY <5>1, <5>2
      <4> QED BY <4>1, <4>2
    <3> QED BY <3>1
  <2>2. d + 1 \in 0 .. n - 1
    BY <1>7
  <2>3. InRound(list, n, taken2, c + 1)
    BY <1>2, <2>1, <2>2 DEF InRound
  <2> QED BY <2>3 DEF taken2
<1>8. CASE d + 1 = n
  <2>1. \A i \in 1 .. n : taken2[list[i]] = IF PicksAgo(i, p2, n) < 0 THEN (t + 1) + 1 ELSE t + 1
    <3>1. ASSUME NEW i \in 1 .. n PROVE taken2[list[i]] = t + 1
      <4>1. CASE i = p + 1
        BY <1>6, <4>1
      <4>2. CASE i # p + 1
        <5>1. PicksAgo(i, p, n) < d
          BY <1>8, <4>2 DEF PicksAgo
        <5> QED BY <1>3, <1>6, <4>2, <5>1
      <4> QED BY <4>1, <4>2
    <3>2. \A i \in 1 .. n : ~(PicksAgo(i, p2, n) < 0)
      BY DEF PicksAgo
    <3> QED BY <3>1, <3>2
  <2>2. 0 \in 0 .. n - 1 /\ t + 1 \in Nat
    OBVIOUS
  <2>3. InRound(list, n, taken2, c + 1)
    BY <1>2, <2>1, <2>2 DEF InRound
  <2> QED BY <2>3 DEF taken2
<1> QED BY <1>7, <1>8

(* A list of active keys is in order, whole, and the only one.             *)
LEMMA ListingOf ==
    ASSUME NEW K \in SUBSET KeyIds, NEW list \in Listing(K)
    PROVE  /\ Cardinality(K) \in Nat /\ (K # {} => Cardinality(K) # 0)
           /\ list \in [1 .. Cardinality(K) -> K] /\ Len(list) = Cardinality(K)
           /\ list \in Seq(K) /\ ToSet(list) = K
           /\ \A i, j \in 1 .. Cardinality(K) : list[i] = list[j] => i = j
           /\ \A other \in Listing(K) : other = list
<1>1. K \in SUBSET Nat /\ IsFiniteSet(K)
  <2>1. IsFiniteSet(KeyIds)
    BY KeysAssumption, FS_Interval DEF KeyIds, KeysAssumption
  <2>2. IsFiniteSet(K)
    BY <2>1, FS_Subset
  <2> QED BY <2>2 DEF KeyIds
<1>2. \A other \in Listing(K) : Increasing(other, K)
  BY DEF Listing, Increasing
<1>3. \A other \in Listing(K) : other = list
  BY <1>1, <1>2, IncreasingIsOne
<1>4. /\ list \in Seq(K) /\ Len(list) = Cardinality(K) /\ Cardinality(K) \in Nat
      /\ DOMAIN list = 1 .. Cardinality(K) /\ Range(list) = K /\ IsInjective(list)
  BY <1>1, <1>2, IncreasingIsAll
<1>5. list \in [1 .. Cardinality(K) -> K]
  BY DEF Listing
<1>6. \A i, j \in 1 .. Cardinality(K) : list[i] = list[j] => i = j
  BY <1>4 DEF IsInjective
<1>7. K # {} => Cardinality(K) # 0
  BY <1>1, FS_EmptySet
<1>8. ToSet(list) = K
  BY <1>4 DEF ToSet, Range
<1> QED BY <1>3, <1>4, <1>5, <1>6, <1>7, <1>8

(* Nobody had a turn yet.                                                  *)
LEMMA NoTurnsIsEven ==
    ASSUME NEW K \in SUBSET KeyIds, K # {}, NEW list \in Listing(K), NEW c \in Nat
    PROVE  InRound(list, Cardinality(K), NoTurns, c)
<1>1. PICK n \in Nat \ {0} : n = Cardinality(K)
  BY ListingOf
<1>2. 0 \in Nat /\ 0 \in 0 .. n - 1
  OBVIOUS
<1>3. \A i \in 1 .. n : NoTurns[list[i]] = 0
  <2>1. list \in [1 .. n -> K]
    BY <1>1, ListingOf
  <2> QED BY <2>1 DEF NoTurns
<1>4. \A i \in 1 .. n : NoTurns[list[i]] = IF PicksAgo(i, c % n, n) < 0 THEN 0 + 1 ELSE 0
  <2>1. ASSUME NEW i \in 1 .. n, PicksAgo(i, c % n, n) < 0 PROVE FALSE
    BY <2>1, GoesRound DEF PicksAgo
  <2> QED BY <1>3, <2>1
<1> QED BY <1>1, <1>2, <1>4 DEF InRound

(* What changes keys or begins again leaves a round nobody had a turn in.  *)
LEMMA NewRound ==
    ASSUME keys' \in [KeyIds -> Status], turns' = NoTurns, counter' \in Nat
    PROVE  RoundsAreKept'
<1>1. PICK K \in SUBSET KeyIds : K = Active'
  BY DEF Active
<1>2. PICK c \in Nat : c = counter'
  OBVIOUS
<1>3. K # {} => \A list \in Listing(K) : InRound(list, Cardinality(K), NoTurns, c)
  BY NoTurnsIsEven
<1> QED BY <1>1, <1>2, <1>3 DEF RoundsAreKept

(* The list of one request changes.                                        *)
LEMMA OneAsks ==
    ASSUME DOMAIN asking = Requests, \A r \in Requests : WellListed(asking[r]),
           NEW q \in Requests, NEW a, WellListed(a), NEW next, next = [asking EXCEPT ![q] = a]
    PROVE  DOMAIN next = Requests /\ \A r \in Requests : WellListed(next[r])
<1>1. \A r \in Requests : next[r] = IF r = q THEN a ELSE asking[r]
  OBVIOUS
<1>2. DOMAIN next = Requests
  OBVIOUS
<1> QED BY <1>1, <1>2

LEMMA KeysInitially == KeysInit => KeysInv
<1> SUFFICES ASSUME KeysInit PROVE KeysInv
  OBVIOUS
<1>1. keys = [k \in KeyIds |-> "absent"] /\ keys \in [KeyIds -> Status]
  BY DEF KeysInit, Status
<1>2. KeysTypeOK
  <2>1. keysFile \in [KeyIds -> Status] /\ counter \in Nat /\ turns \in [KeyIds -> Nat]
    BY <1>1 DEF KeysInit, NoTurns
  <2>2. editing \in [Editors -> [pc : {"idle", "changed", "listed"}, listed : [KeyIds -> Status]]]
    BY <1>1 DEF KeysInit
  <2>3. DOMAIN asking = Requests
    BY DEF KeysInit
  <2> QED BY <1>1, <2>1, <2>2, <2>3 DEF KeysTypeOK
<1>3. \A r \in Requests : WellListed(asking[r])
  BY DEF KeysInit, WellListed
<1>4. RoundsAreKept
  <2>1. Active = {}
    BY <1>1 DEF Active
  <2> QED BY <2>1 DEF RoundsAreKept
<1> QED BY <1>2, <1>3, <1>4 DEF KeysInv

LEMMA KeysStep == KeysInv /\ [KeysNext]_keysVars => KeysInv'
<1> SUFFICES ASSUME KeysInv, [KeysNext]_keysVars PROVE KeysInv'
  OBVIOUS
<1>t. /\ keys \in [KeyIds -> Status] /\ keysFile \in [KeyIds -> Status]
      /\ counter \in Nat /\ turns \in [KeyIds -> Nat]
      /\ editing \in [Editors -> [pc : {"idle", "changed", "listed"}, listed : [KeyIds -> Status]]]
      /\ DOMAIN asking = Requests
      /\ \A r \in Requests : WellListed(asking[r])
      /\ RoundsAreKept
  BY DEF KeysInv, KeysTypeOK
<1>s. ASSUME keys' = keys, turns' = turns, counter' = counter PROVE RoundsAreKept'
  BY <1>t, <1>s DEF RoundsAreKept, Active
<1>1. ASSUME NEW e \in Editors, ChangeKey(e) PROVE KeysInv'
  <2>1. keys' \in [KeyIds -> Status]
    <3>1. PICK k \in KeyIds, s \in Status : keys' = [keys EXCEPT ![k] = s]
      BY <1>1 DEF ChangeKey
    <3> QED BY <1>t, <3>1
  <2>2. editing' \in [Editors -> [pc : {"idle", "changed", "listed"}, listed : [KeyIds -> Status]]]
    BY <1>t, <1>1 DEF ChangeKey
  <2>3. turns' = NoTurns /\ keysFile' = keysFile /\ counter' = counter /\ asking' = asking
    BY <1>1 DEF ChangeKey
  <2>4. turns' \in [KeyIds -> Nat]
    BY <2>3 DEF NoTurns
  <2>5. RoundsAreKept'
    BY <1>t, <2>1, <2>3, NewRound
  <2>6. KeysTypeOK'
    BY <1>t, <2>1, <2>2, <2>3, <2>4 DEF KeysTypeOK
  <2> QED BY <1>t, <2>3, <2>5, <2>6 DEF KeysInv
<1>2. ASSUME NEW e \in Editors, ListKeys(e) PROVE KeysInv'
  <2>1. /\ keys' = keys /\ keysFile' = keysFile /\ counter' = counter
        /\ turns' = turns /\ asking' = asking
    BY <1>2 DEF ListKeys
  <2>2. editing' \in [Editors -> [pc : {"idle", "changed", "listed"}, listed : [KeyIds -> Status]]]
    BY <1>t, <1>2 DEF ListKeys
  <2>3. KeysTypeOK'
    BY <1>t, <2>1, <2>2 DEF KeysTypeOK
  <2> QED BY <1>s, <1>t, <2>1, <2>3 DEF KeysInv
<1>3. ASSUME NEW e \in Editors, SaveKeys(e) PROVE KeysInv'
  <2>1. keys' = keys /\ counter' = counter /\ turns' = turns /\ asking' = asking
    BY <1>3 DEF SaveKeys
  <2>2. editing' \in [Editors -> [pc : {"idle", "changed", "listed"}, listed : [KeyIds -> Status]]]
    BY <1>t, <1>3 DEF SaveKeys
  <2>3. keysFile' \in [KeyIds -> Status]
    BY <1>t, <1>3 DEF SaveKeys
  <2>4. KeysTypeOK'
    BY <1>t, <2>1, <2>2, <2>3 DEF KeysTypeOK
  <2> QED BY <1>s, <1>t, <2>1, <2>4 DEF KeysInv
<1>4. ASSUME NEW r \in Requests, HasActiveKeys(r) PROVE KeysInv'
  <2>1. /\ keys' = keys /\ keysFile' = keysFile /\ counter' = counter
        /\ turns' = turns /\ editing' = editing
    BY <1>4 DEF HasActiveKeys
  <2>2. asking' = [asking EXCEPT ![r] = [asking[r] EXCEPT !.pc = "list"]]
    BY <1>4 DEF HasActiveKeys
  <2>3. WellListed([asking[r] EXCEPT !.pc = "list"])
    <3>1. PICK a : a = asking[r]
      OBVIOUS
    <3>2. a.pc = "idle"
      BY <1>4, <3>1 DEF HasActiveKeys
    <3>3. [a EXCEPT !.pc = "list"].pc \in {a.pc, "list"}
      OBVIOUS
    <3> QED BY <3>1, <3>2, <3>3 DEF WellListed
  <2>4. DOMAIN asking' = Requests /\ \A q \in Requests : WellListed(asking'[q])
    BY <1>t, <2>2, <2>3, OneAsks
  <2>5. KeysTypeOK'
    BY <1>t, <2>1, <2>4 DEF KeysTypeOK
  <2> QED BY <1>s, <1>t, <2>1, <2>4, <2>5 DEF KeysInv
<1>5. ASSUME NEW r \in Requests, ListActive(r) PROVE KeysInv'
  <2>1. /\ keys' = keys /\ keysFile' = keysFile /\ counter' = counter
        /\ turns' = turns /\ editing' = editing
    BY <1>5 DEF ListActive
  <2>2. PICK list \in Listing(Active) :
           asking' = [asking EXCEPT ![r] = [pc |-> IF list = <<>> THEN "idle" ELSE "pick",
                                            listed |-> list]]
    BY <1>5 DEF ListActive
  <2>3. PICK K \in SUBSET KeyIds : K = Active
    BY DEF Active
  <2>4. ASSUME K = {} PROVE list = <<>>
    <3>1. Len(list) = 0 /\ list \in Seq(K)
      BY <2>2, <2>3, <2>4, ListingOf, FS_EmptySet
    <3> QED BY <3>1, EmptyIfNone
  <2>5. WellListed([pc |-> IF list = <<>> THEN "idle" ELSE "pick", listed |-> list])
    BY <2>2, <2>3, <2>4 DEF WellListed
  <2>6. DOMAIN asking' = Requests /\ \A q \in Requests : WellListed(asking'[q])
    BY <1>t, <2>2, <2>5, OneAsks
  <2>7. KeysTypeOK'
    BY <1>t, <2>1, <2>6 DEF KeysTypeOK
  <2> QED BY <1>s, <1>t, <2>1, <2>6, <2>7 DEF KeysInv
<1>6. ASSUME NEW r \in Requests, PickKey(r) PROVE KeysInv'
  <2>1. keys' = keys /\ keysFile' = keysFile /\ counter' = counter + 1 /\ editing' = editing
    BY <1>6 DEF PickKey
  <2>2. asking' = [asking EXCEPT ![r] = [pc |-> "idle", listed |-> <<>>]]
    BY <1>6 DEF PickKey
  <2>3. WellListed([pc |-> "idle", listed |-> <<>>])
    BY DEF WellListed
  <2>4. DOMAIN asking' = Requests /\ \A q \in Requests : WellListed(asking'[q])
    BY <1>t, <2>2, <2>3, OneAsks
  <2>l. PICK list : list = asking[r].listed
    OBVIOUS
  <2>5. PICK K \in SUBSET KeyIds : K # {} /\ list \in Listing(K)
    BY <1>t, <1>6, <2>l DEF PickKey, WellListed
  <2>6. PICK n \in Nat \ {0} : n = Cardinality(K)
    BY <2>5, ListingOf
  <2>7. /\ list \in [1 .. n -> K] /\ Len(list) = n /\ ToSet(list) = K
        /\ \A i, j \in 1 .. n : list[i] = list[j] => i = j
        /\ \A other \in Listing(K) : other = list
    BY <2>5, <2>6, ListingOf
  <2>8. PICK k : k = list[(counter % n) + 1]
    OBVIOUS
  <2>9. k \in KeyIds
    <3>1. (counter % n) + 1 \in 1 .. n
      BY <1>t, GoesRound
    <3> QED BY <2>7, <2>8, <3>1
  <2>10. turns' = IF K = Active THEN [turns EXCEPT ![k] = @ + 1] ELSE NoTurns
    BY <1>6, <2>l, <2>5, <2>7, <2>8 DEF PickKey
  <2>11. CASE K = Active
    <3>1. list \in Listing(Active) /\ Active # {} /\ n = Cardinality(Active)
      BY <2>5, <2>6, <2>11
    <3>2. InRound(list, n, turns, counter)
      BY <1>t, <3>1 DEF RoundsAreKept
    <3>3. list \in [1 .. n -> KeyIds]
      BY <2>7
    <3>4. InRound(list, n, [turns EXCEPT ![k] = @ + 1], counter + 1)
      BY <1>t, <2>7, <2>8, <3>2, <3>3, PickKeepsRound
    <3>5. Active' = K
      BY <2>1, <2>11 DEF Active
    <3>6. turns' = [turns EXCEPT ![k] = @ + 1] /\ turns' \in [KeyIds -> Nat]
      BY <1>t, <2>9, <2>10, <2>11
    <3>7. RoundsAreKept'
      BY <2>1, <2>6, <2>7, <3>4, <3>5, <3>6 DEF RoundsAreKept
    <3>8. KeysTypeOK'
      BY <1>t, <2>1, <2>4, <3>6 DEF KeysTypeOK
    <3> QED BY <2>4, <3>7, <3>8 DEF KeysInv
  <2>12. CASE K # Active
    <3>1. turns' = NoTurns /\ turns' \in [KeyIds -> Nat]
      BY <2>10, <2>12 DEF NoTurns
    <3>2. keys' \in [KeyIds -> Status] /\ counter' \in Nat
      BY <1>t, <2>1
    <3>3. RoundsAreKept'
      BY <3>1, <3>2, NewRound
    <3>4. KeysTypeOK'
      BY <1>t, <2>1, <2>4, <3>1, <3>2 DEF KeysTypeOK
    <3> QED BY <2>4, <3>3, <3>4 DEF KeysInv
  <2> QED BY <2>11, <2>12
<1>7. CASE Restart
  <2>1. /\ keys' = keysFile /\ keysFile' = keysFile /\ counter' = 0
        /\ turns' = NoTurns /\ editing' = editing
    BY <1>7 DEF Restart
  <2>2. DOMAIN asking' = Requests /\ \A q \in Requests : WellListed(asking'[q])
    BY <1>7 DEF Restart, WellListed
  <2>3. RoundsAreKept'
    BY <1>t, <2>1, NewRound
  <2>4. KeysTypeOK'
    BY <1>t, <2>1, <2>2 DEF KeysTypeOK, NoTurns
  <2> QED BY <2>2, <2>3, <2>4 DEF KeysInv
<1>8. CASE UNCHANGED keysVars
  BY <1>t, <1>s, <1>8 DEF keysVars, KeysInv, KeysTypeOK
<1> QED BY <1>1, <1>2, <1>3, <1>4, <1>5, <1>6, <1>7, <1>8 DEF KeysNext

LEMMA RoundMeansEven == KeysInv => RotationIsEven
<1> SUFFICES ASSUME KeysInv, NEW j \in Active, NEW k \in Active PROVE turns[j] <= turns[k] + 1
  BY DEF RotationIsEven
<1>1. PICK K \in SUBSET KeyIds : K = Active
  BY DEF Active
<1>2. PICK list : list \in Listing(K)
  <2>1. K \in SUBSET (0 .. (MaxKeys + 1) - 1) /\ MaxKeys + 1 \in Nat
    BY KeysAssumption DEF KeyIds, KeysAssumption
  <2>2. \E list : Increasing(list, K)
    BY <2>1, IncreasingExists
  <2> QED BY <2>2 DEF Increasing, Listing
<1>3. PICK n \in Nat : n = Cardinality(K)
  BY <1>2, ListingOf
<1>4. InRound(list, n, turns, counter)
  BY <1>1, <1>2, <1>3 DEF KeysInv, RoundsAreKept
<1>5. PICK t \in Nat : \A i \in 1 .. n : turns[list[i]] = t + 1 \/ turns[list[i]] = t
  BY <1>4 DEF InRound
<1>6. list \in Seq(K) /\ Len(list) = n /\ ToSet(list) = K
  BY <1>2, <1>3, ListingOf
<1>7. PICK a \in 1 .. n, b \in 1 .. n : j = list[a] /\ k = list[b]
  <2>1. ToSet(list) = {list[i] : i \in 1 .. n}
    BY <1>6 DEF ToSet
  <2> QED BY <1>1, <1>6, <2>1
<1> QED BY <1>5, <1>7

(* Round robin: no active key is ever two turns ahead of another, whatever *)
(* requests, changes of the keys and restarts interleave.                  *)
THEOREM KeysTakeTurns == KeysSpec => []RotationIsEven
<1>1. KeysInit => KeysInv
  BY KeysInitially
<1>2. KeysInv /\ [KeysNext]_keysVars => KeysInv'
  BY KeysStep
<1>3. KeysInv => RotationIsEven
  BY RoundMeansEven
<1> QED BY <1>1, <1>2, <1>3, PTL DEF KeysSpec
=============================================================================
