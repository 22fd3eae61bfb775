-------------------------- MODULE SupervisedRequest --------------------------
(***************************************************************************)
(* What the intercept gate promises about one proxied request, with no     *)
(* maps, modes, channels or tasks: a gated request is delivered only after *)
(* a verdict that lets it go, the verdict is given once, a delivery        *)
(* happens at most once, and an answer follows a delivery.                 *)
(* InterceptGate implements it.                                            *)
(***************************************************************************)
EXTENDS Naturals

CONSTANT Requests

VARIABLES stage,       \* how far each request has come
          gated,       \* whether it has to be held
          verdict,     \* what ended its hold
          deliveries   \* how often the provider received it

vars == <<stage, gated, verdict, deliveries>>

Stage == {"new", "held", "released", "delivered", "answered", "relayed",
          "refused", "abandoned"}
Verdicts == {"forward", "drop", "closed"}

Init ==
    /\ stage = [r \in Requests |-> "new"]
    /\ gated = [r \in Requests |-> FALSE]
    /\ verdict = [r \in Requests |-> "none"]
    /\ deliveries = [r \in Requests |-> 0]

Move(r, from, to) == stage[r] \in from /\ stage' = [stage EXCEPT ![r] = to]

(* The decision whether the request must be held.                          *)
Sample(r) ==
    /\ stage[r] = "new"
    /\ \E b \in BOOLEAN : gated' = [gated EXCEPT ![r] = b]
    /\ UNCHANGED <<stage, verdict, deliveries>>

Pass(r) == ~gated[r] /\ Move(r, {"new"}, "released") /\ UNCHANGED <<gated, verdict, deliveries>>

Hold(r) == gated[r] /\ Move(r, {"new"}, "held") /\ UNCHANGED <<gated, verdict, deliveries>>

(* A verdict may end several holds at once.                                *)
Decide(R, v) ==
    /\ \A r \in R : stage[r] = "held" /\ verdict[r] = "none"
    /\ verdict' = [r \in Requests |-> IF r \in R THEN v ELSE verdict[r]]
    /\ UNCHANGED <<stage, gated, deliveries>>

Release(r) ==
    /\ verdict[r] \in {"forward", "closed"}
    /\ Move(r, {"held"}, "released")
    /\ UNCHANGED <<gated, verdict, deliveries>>

Deliver(r) ==
    /\ Move(r, {"released"}, "delivered")
    /\ deliveries' = [deliveries EXCEPT ![r] = @ + 1]
    /\ UNCHANGED <<gated, verdict>>

(* A WebSocket is relayed, outside the gate; the relay may fail after the  *)
(* provider accepted the connection.                                       *)
Relay(r) ==
    /\ \E to \in {"relayed", "refused"} : Move(r, {"new"}, to)
    /\ deliveries' = [deliveries EXCEPT ![r] = @ + 1]
    /\ UNCHANGED <<gated, verdict>>

(* A delivery under way may arrive although nobody learns of it.           *)
MayArrive(r) ==
    \/ UNCHANGED deliveries
    \/ stage[r] = "released" /\ deliveries' = [deliveries EXCEPT ![r] = @ + 1]

(* An error reply.                                                         *)
Refuse(r) ==
    /\ stage[r] = "held" => verdict[r] \in {"drop", "forward"}
    /\ Move(r, {"new", "held", "released"}, "refused")
    /\ MayArrive(r)
    /\ UNCHANGED <<gated, verdict>>

Answer(r) == Move(r, {"delivered"}, "answered") /\ UNCHANGED <<gated, verdict, deliveries>>

(* The client gives up.                                                    *)
Abandon(r) ==
    /\ Move(r, {"new", "held", "released", "delivered"}, "abandoned")
    /\ MayArrive(r)
    /\ UNCHANGED <<gated, verdict>>

Next ==
    \/ \E r \in Requests :
          \/ Sample(r) \/ Pass(r) \/ Hold(r) \/ Release(r) \/ Deliver(r)
          \/ Relay(r) \/ Refuse(r) \/ Answer(r) \/ Abandon(r)
    \/ \E R \in SUBSET Requests, v \in Verdicts : Decide(R, v)

Spec == Init /\ [][Next]_vars
=============================================================================
