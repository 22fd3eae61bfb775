--------------------------- MODULE AdaptiveQuality ---------------------------
(***************************************************************************)
(* The quality tier of a connection: server/src/transport/adaptive.rs.     *)
(*                                                                         *)
(* A measured round-trip time is represented by the tier it suggests; the  *)
(* thresholds of 50 and 150 ms are in TierOf.  The average of the window   *)
(* and the batch interval, which nothing in the server acts on, are left   *)
(* out.                                                                    *)
(***************************************************************************)
EXTENDS Integers, Sequences

CONSTANTS Rtts,             \* the round-trip times that occur, in ms
          WindowSize,       \* WINDOW_SIZE = 10
          HysteresisCount   \* HYSTERESIS_COUNT = 3

ASSUME QualityAssumption ==
    /\ Rtts \subseteq Nat
    /\ HysteresisCount \in Nat \ {0}
    /\ WindowSize \in Nat /\ WindowSize >= HysteresisCount

VARIABLES current_tier, rtt_samples, consecutive_different, pending_tier

vars == <<current_tier, rtt_samples, consecutive_different, pending_tier>>

Tier == {"full", "batched", "critical"}

(* Mutant: a boundary of the classification is off by one.                 *)
TierOf_Inclusive(rtt) ==
    IF rtt <= 50 THEN "full" ELSE IF rtt <= 150 THEN "batched" ELSE "critical"

(* QualityTier::from_rtt                                                   *)
TierOf(rtt) ==
    IF rtt < 50 THEN "full" ELSE IF rtt <= 150 THEN "batched" ELSE "critical"

Init ==
    /\ current_tier = "full"
    /\ rtt_samples = <<>>
    /\ consecutive_different = 0
    /\ pending_tier = "full"

(* The window keeps the last WindowSize samples.                           *)
Slide(rtt) ==
    rtt_samples' = Append(IF Len(rtt_samples) >= WindowSize THEN Tail(rtt_samples)
                          ELSE rtt_samples, rtt)

(* A sample that differs from the current tier lengthens the run of its    *)
(* tier or starts one; a run that is long enough becomes the current tier. *)
Hysteresis(t) ==
    LET run == IF t = pending_tier THEN consecutive_different + 1 ELSE 1 IN
    /\ pending_tier' = t
    /\ current_tier' = IF run >= HysteresisCount THEN t ELSE current_tier
    /\ consecutive_different' = IF run >= HysteresisCount THEN 0 ELSE run

Steady ==
    /\ consecutive_different' = 0
    /\ pending_tier' = current_tier
    /\ UNCHANGED current_tier

UpdateRtt(rtt) ==
    /\ Slide(rtt)
    /\ IF TierOf(rtt) = current_tier THEN Steady ELSE Hysteresis(TierOf(rtt))

Next == \E rtt \in Rtts : UpdateRtt(rtt)

Spec == Init /\ [][Next]_vars
-----------------------------------------------------------------------------
(* Type invariant; the run never reaches the count without a switch.       *)
TypeOK ==
    /\ current_tier \in Tier /\ pending_tier \in Tier
    /\ rtt_samples \in Seq(Rtts)
    /\ consecutive_different \in 0 .. HysteresisCount - 1

(* adaptive.rs documents the thresholds as below 50 ms, 50 to 150 ms and   *)
(* above; Suggests is that table, independently of TierOf.                 *)
Suggests(rtt, t) ==
    /\ t = "full" <=> rtt \in 0 .. 49
    /\ t = "batched" <=> rtt \in 50 .. 150

(* The last n samples all suggest tier t.                                  *)
LastSamples(samples, n, t) ==
    /\ Len(samples) >= n
    /\ \A i \in Len(samples) - n + 1 .. Len(samples) : Suggests(samples[i], t)

(* Whenever the last HysteresisCount samples agree, their tier is in       *)
(* force, however the counting was disturbed before.                       *)
AgreementDecides ==
    \A t \in Tier : LastSamples(rtt_samples, HysteresisCount, t) => current_tier = t

(* And never otherwise: the tier changes only to one that as many          *)
(* consecutive samples have just suggested.                                *)
NoFlapping ==
    [][current_tier' # current_tier
       => LastSamples(rtt_samples', HysteresisCount, current_tier')]_vars
=============================================================================
