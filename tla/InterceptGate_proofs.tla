------------------------- MODULE InterceptGate_proofs -------------------------
(***************************************************************************)
(* Proofs about InterceptGate for every set of requests, sessions and      *)
(* operators.  The invariants the model checker looks at are not inductive *)
(* on their own; RequestInv ties the position of a handler task to its map *)
(* entry, its channel and the deliveries it has made.                      *)
(***************************************************************************)
EXTENDS InterceptGate, TLAPS

USE GateAssumption

(* Before the hold of a request, or without one.                           *)
Undecided == {"idle", "received", "transform", "gate", "blocked"}
Undelivered == Undecided \cup {"held", "dropped", "sending", "retrying"}
Unanswered == Undelivered \cup {"failed", "tunnel", "responded", "buffered"}
Sent == {"sending", "retrying", "responded", "streaming", "ended", "orphaned",
         "buffered", "held_response", "logging", "replying", "answered"}

(* The entry in the request map is there exactly while the hold lasts, or  *)
(* is left behind by a client that went away.                              *)
HoldInv(r) ==
    /\ r \in pending_intercepts => decision[r] = "none" /\ handler[r] \in {"held", "cancelled"}
    /\ handler[r] = "held" /\ decision[r] = "none" => r \in pending_intercepts
    /\ handler[r] \in Undecided => decision[r] = "none"

(* The same for the response map.                                          *)
ResponseInv(r) ==
    /\ r \in pending_response_intercepts
          => response_decision[r] = "none" /\ handler[r] \in {"held_response", "cancelled"}
    /\ handler[r] = "held_response" /\ response_decision[r] = "none"
          => r \in pending_response_intercepts
    /\ handler[r] \in Unanswered => response_decision[r] = "none"

(* How often, and after which decision, the provider was reached.          *)
DeliveryInv(r) ==
    /\ upstream[r] <= 1
    /\ handler[r] \in Undelivered => upstream[r] = 0
    /\ decision[r] = "drop" => upstream[r] = 0 /\ handler[r] \in {"held", "dropped", "cancelled"}
    /\ handler[r] \in {"idle", "received", "tunnel"} => ~should_intercept[r]
    /\ handler[r] \in {"gate", "held"} => should_intercept[r]
    /\ should_intercept[r] /\ (handler[r] \in Sent \/ upstream[r] > 0)
          => decision[r] \in {"forward", "closed"}

(* A row is missing only where the task that is to write it is still on    *)
(* its way, or where nobody has seen an answer.                            *)
CaptureInv(r) ==
    /\ handler[r] \in {"replying", "answered"} => r \in captured
    /\ r \in replied /\ r \notin captured => handler[r] \in {"streaming", "ended", "orphaned"}
    /\ handler[r] \in {"streaming", "ended", "orphaned"} => r \in replied

RequestInv(r) == HoldInv(r) /\ ResponseInv(r) /\ DeliveryInv(r) /\ CaptureInv(r)

IInv == TypeOK /\ \A r \in Requests : RequestInv(r)

-----------------------------------------------------------------------------
(* Every variable keeps its type, whatever the handlers, the clients and   *)
(* the operators do.                                                       *)
THEOREM TypeCorrect == Spec => []TypeOK
<1> USE DEF HandlerState, Waiting, Finished, Refused, Decision, OperatorState,
        InterceptMode, ProxyMode, InterceptModeFor
<1>1. Init => TypeOK
  BY DEF Init, TypeOK
<1>2. TypeOK /\ [Next]_vars => TypeOK'
  <2> SUFFICES ASSUME TypeOK, [Next]_vars
               PROVE  TypeOK'
    OBVIOUS
  <2>1. ASSUME NEW r \in Requests, Receive(r)
        PROVE  TypeOK'
    BY <2>1 DEF Receive, TypeOK, modeVars, requestVars, holdVars, responseVars, effectVars, Goto
  <2>2. ASSUME NEW r \in Requests, UpgradeWebSocket(r)
        PROVE  TypeOK'
    BY <2>2 DEF UpgradeWebSocket, AttemptFails, TypeOK, modeVars, requestVars, holdVars, responseVars, effectVars, Goto
  <2>3. ASSUME NEW r \in Requests, ReadGate(r)
        PROVE  TypeOK'
    BY <2>3 DEF ReadGate, Manual, TypeOK, modeVars, requestVars, holdVars, responseVars, effectVars, Goto
  <2>4. ASSUME NEW r \in Requests, BodyError(r)
        PROVE  TypeOK'
    BY <2>4 DEF BodyError, TypeOK, modeVars, requestVars, holdVars, responseVars, effectVars, Goto
  <2>5. ASSUME NEW r \in Requests, Transform(r)
        PROVE  TypeOK'
    BY <2>5 DEF Transform, TypeOK, modeVars, requestVars, holdVars, responseVars, effectVars, Goto
  <2>6. ASSUME NEW r \in Requests, Hold(r)
        PROVE  TypeOK'
    BY <2>6 DEF Hold, TypeOK, modeVars, requestVars, holdVars, responseVars, effectVars, Goto
  <2>7. ASSUME NEW r \in Requests, Resume(r)
        PROVE  TypeOK'
    BY <2>7 DEF Resume, TypeOK, modeVars, requestVars, holdVars, responseVars, effectVars, Goto
  <2>8. ASSUME NEW r \in Requests, Send(r)
        PROVE  TypeOK'
    BY <2>8 DEF Send, AttemptFails, AttemptSucceeds, TypeOK, modeVars, requestVars, holdVars, responseVars, effectVars, Goto
  <2>9. ASSUME NEW r \in Requests, Retry(r)
        PROVE  TypeOK'
    BY <2>9 DEF Retry, AttemptFails, AttemptSucceeds, TypeOK, modeVars, requestVars, holdVars, responseVars, effectVars, Goto
  <2>10. ASSUME NEW r \in Requests, ReadResponseGate(r)
        PROVE  TypeOK'
    BY <2>10 DEF ReadResponseGate, Manual, TypeOK, modeVars, requestVars, holdVars, responseVars, effectVars, Goto
  <2>11. ASSUME NEW r \in Requests, HoldResponse(r)
        PROVE  TypeOK'
    BY <2>11 DEF HoldResponse, TypeOK, modeVars, requestVars, holdVars, responseVars, effectVars, Goto
  <2>12. ASSUME NEW r \in Requests, ResumeResponse(r)
        PROVE  TypeOK'
    BY <2>12 DEF ResumeResponse, TypeOK, modeVars, requestVars, holdVars, responseVars, effectVars, Goto
  <2>13. ASSUME NEW r \in Requests, Log(r)
        PROVE  TypeOK'
    BY <2>13 DEF Log, TypeOK, modeVars, requestVars, holdVars, responseVars, effectVars, Goto
  <2>14. ASSUME NEW r \in Requests, StreamEnd(r)
        PROVE  TypeOK'
    BY <2>14 DEF StreamEnd, TypeOK, modeVars, requestVars, holdVars, responseVars, effectVars, Goto
  <2>r. ASSUME NEW r \in Requests, Reply(r)
        PROVE  TypeOK'
    BY <2>r DEF Reply, TypeOK, modeVars, requestVars, holdVars, responseVars, effectVars, Goto
  <2>l. ASSUME NEW r \in Requests, StreamLog(r)
        PROVE  TypeOK'
    BY <2>l DEF StreamLog, TypeOK, modeVars, requestVars, holdVars, responseVars, effectVars, Goto
  <2>15. ASSUME NEW r \in Requests, Disconnect(r)
        PROVE  TypeOK'
    BY <2>15 DEF Disconnect, TypeOK, modeVars, requestVars, holdVars, responseVars, effectVars, Goto
  <2>16. ASSUME NEW r \in Requests, NEW s \in Sessions, ForwardIntercept(r, s)
        PROVE  TypeOK'
    BY <2>16 DEF ForwardIntercept, Decide, Verdict, TypeOK, modeVars, requestVars, holdVars, responseVars, effectVars, Goto
  <2>17. ASSUME NEW r \in Requests, NEW s \in Sessions, DropIntercept(r, s)
        PROVE  TypeOK'
    BY <2>17 DEF DropIntercept, Decide, Verdict, TypeOK, modeVars, requestVars, holdVars, responseVars, effectVars, Goto
  <2>18. ASSUME NEW r \in Requests, NEW s \in Sessions, ForwardResponseIntercept(r, s)
        PROVE  TypeOK'
    BY <2>18 DEF ForwardResponseIntercept, Verdict, TypeOK, modeVars, requestVars, holdVars, responseVars, effectVars, Goto
  <2>19. ASSUME NEW o \in Operators, NEW s \in Sessions, NEW m \in ModesInUse, SetProxyMode(o, s, m)
        PROVE  TypeOK'
    BY <2>19 DEF SetProxyMode, TypeOK, modeVars, requestVars, holdVars, responseVars, effectVars, Goto
  <2>20. ASSUME NEW o \in Operators, NEW s \in Sessions, NEW m \in InterceptMode, SetInterceptMode(o, s, m)
        PROVE  TypeOK'
    BY <2>20 DEF SetInterceptMode, TypeOK, modeVars, requestVars, holdVars, responseVars, effectVars, Goto
  <2>21. ASSUME NEW o \in Operators, WriteInterceptMode(o)
        PROVE  TypeOK'
    BY <2>21 DEF WriteInterceptMode, TypeOK, modeVars, requestVars, holdVars, responseVars, effectVars, Goto
  <2>22. ASSUME NEW o \in Operators, Drain(o)
        PROVE  TypeOK'
    <3>1. pending_intercepts' \subseteq Requests /\ pending_response_intercepts' \subseteq Requests
      BY <2>22 DEF Drain, TypeOK
    <3>2. decision' \in [Requests -> Decision] /\ response_decision' \in [Requests -> Decision]
      BY <2>22 DEF Drain, TypeOK
    <3>3. operator' \in [Operators -> OperatorState]
      BY <2>22 DEF Drain, TypeOK
    <3>4. \A q \in Operators : operator'[q].at # "idle" => operator'[q].session \in Sessions
      BY <2>22 DEF Drain, TypeOK
    <3>5. QED
      BY <2>22, <3>1, <3>2, <3>3, <3>4 DEF Drain, TypeOK, modeVars, requestVars, holdVars, responseVars, effectVars, Goto
  <2>23. CASE UNCHANGED vars
    BY <2>23 DEF vars, TypeOK, modeVars, requestVars, holdVars, responseVars, effectVars, Goto
  <2>24. QED
    BY <2>1, <2>2, <2>3, <2>4, <2>5, <2>6, <2>7, <2>8, <2>9, <2>10, <2>11,
       <2>12, <2>13, <2>14, <2>r, <2>l, <2>15, <2>16, <2>17, <2>18, <2>19, <2>20, <2>21,
       <2>22, <2>23
       DEF Next, HandlerStep, SupervisorStep, SwitchStep, BeginSwitch
<1>3. QED
  BY <1>1, <1>2, PTL DEF Spec

-----------------------------------------------------------------------------
(* No step of the program breaks the invariant of a request: each action   *)
(* is taken in turn, for the request it moves and for every other.         *)
LEMMA InvariantStep ==
    ASSUME IInv, TypeOK', [Next]_vars, NEW q \in Requests
    PROVE  RequestInv(q)'
<1> USE DEF IInv, TypeOK, RequestInv, HoldInv, ResponseInv, DeliveryInv, CaptureInv,
        Undecided, Undelivered, Unanswered, Sent,
        HandlerState, Waiting, Finished, Refused, Decision,
        modeVars, requestVars, holdVars, responseVars, effectVars, Goto
<1>1. ASSUME NEW r \in Requests, Receive(r)
      PROVE  RequestInv(q)'
  BY <1>1 DEF Receive
<1>2. ASSUME NEW r \in Requests, UpgradeWebSocket(r)
      PROVE  RequestInv(q)'
  BY <1>2 DEF UpgradeWebSocket, AttemptFails
<1>3. ASSUME NEW r \in Requests, ReadGate(r)
      PROVE  RequestInv(q)'
  BY <1>3 DEF ReadGate, Manual
<1>4. ASSUME NEW r \in Requests, BodyError(r)
      PROVE  RequestInv(q)'
  BY <1>4 DEF BodyError
<1>5. ASSUME NEW r \in Requests, Transform(r)
      PROVE  RequestInv(q)'
  BY <1>5 DEF Transform
<1>6. ASSUME NEW r \in Requests, Hold(r)
      PROVE  RequestInv(q)'
  BY <1>6 DEF Hold
<1>7. ASSUME NEW r \in Requests, Resume(r)
      PROVE  RequestInv(q)'
  BY <1>7 DEF Resume
<1>8. ASSUME NEW r \in Requests, Send(r)
      PROVE  RequestInv(q)'
  BY <1>8 DEF Send, AttemptFails, AttemptSucceeds
<1>9. ASSUME NEW r \in Requests, Retry(r)
      PROVE  RequestInv(q)'
  BY <1>9 DEF Retry, AttemptFails, AttemptSucceeds
<1>10. ASSUME NEW r \in Requests, ReadResponseGate(r)
      PROVE  RequestInv(q)'
  BY <1>10 DEF ReadResponseGate, Manual
<1>11. ASSUME NEW r \in Requests, HoldResponse(r)
      PROVE  RequestInv(q)'
  BY <1>11 DEF HoldResponse
<1>12. ASSUME NEW r \in Requests, ResumeResponse(r)
      PROVE  RequestInv(q)'
  BY <1>12 DEF ResumeResponse
<1>13. ASSUME NEW r \in Requests, Log(r)
      PROVE  RequestInv(q)'
  BY <1>13 DEF Log
<1>14. ASSUME NEW r \in Requests, StreamEnd(r)
      PROVE  RequestInv(q)'
  BY <1>14 DEF StreamEnd
<1>r. ASSUME NEW r \in Requests, Reply(r)
      PROVE  RequestInv(q)'
  BY <1>r DEF Reply
<1>l. ASSUME NEW r \in Requests, StreamLog(r)
      PROVE  RequestInv(q)'
  BY <1>l DEF StreamLog
<1>15. ASSUME NEW r \in Requests, Disconnect(r)
      PROVE  RequestInv(q)'
  BY <1>15 DEF Disconnect
<1>16. ASSUME NEW r \in Requests, NEW s \in Sessions, ForwardIntercept(r, s)
      PROVE  RequestInv(q)'
  BY <1>16 DEF ForwardIntercept, Decide, Verdict
<1>17. ASSUME NEW r \in Requests, NEW s \in Sessions, DropIntercept(r, s)
      PROVE  RequestInv(q)'
  BY <1>17 DEF DropIntercept, Decide, Verdict
<1>18. ASSUME NEW r \in Requests, NEW s \in Sessions, ForwardResponseIntercept(r, s)
      PROVE  RequestInv(q)'
  BY <1>18 DEF ForwardResponseIntercept, Verdict
<1>19. ASSUME NEW o \in Operators, NEW s \in Sessions, NEW m \in ModesInUse, SetProxyMode(o, s, m)
      PROVE  RequestInv(q)'
  BY <1>19 DEF SetProxyMode
<1>20. ASSUME NEW o \in Operators, NEW s \in Sessions, NEW m \in InterceptMode, SetInterceptMode(o, s, m)
      PROVE  RequestInv(q)'
  BY <1>20 DEF SetInterceptMode
<1>21. ASSUME NEW o \in Operators, WriteInterceptMode(o)
      PROVE  RequestInv(q)'
  BY <1>21 DEF WriteInterceptMode
<1>22. ASSUME NEW o \in Operators, Drain(o)
      PROVE  RequestInv(q)'
  BY <1>22 DEF Drain, SameSession
<1>23. CASE UNCHANGED vars
  BY <1>23 DEF vars
<1>24. QED
  BY <1>1, <1>2, <1>3, <1>4, <1>5, <1>6, <1>7, <1>8, <1>9, <1>10, <1>11,
     <1>12, <1>13, <1>14, <1>r, <1>l, <1>15, <1>16, <1>17, <1>18, <1>19, <1>20, <1>21,
     <1>22, <1>23
     DEF Next, HandlerStep, SupervisorStep, SwitchStep, BeginSwitch

(* The strengthened invariant holds throughout.                            *)
THEOREM InvariantHolds == Spec => []IInv
<1>1. Init => IInv
  BY DEF Init, IInv, TypeOK, RequestInv, HoldInv, ResponseInv, DeliveryInv, CaptureInv,
         HandlerState, Waiting, Finished, Refused, Decision, OperatorState,
         InterceptMode, ProxyMode, Undelivered, Undecided, Unanswered, Sent
<1>2. IInv /\ TypeOK' /\ [Next]_vars => IInv'
  <2>1. ASSUME IInv, TypeOK', [Next]_vars, NEW q \in Requests
        PROVE  RequestInv(q)'
    BY <2>1, InvariantStep
  <2>2. QED
    BY <2>1 DEF IInv
<1>3. QED
  BY <1>1, <1>2, TypeCorrect, PTL DEF Spec

(* The properties of the safety run, for every instance.  A task that      *)
(* awaits a decision can be found and decided.                             *)
THEOREM HeldRequestsAreReachable == Spec => []HeldIsReachable
<1>1. IInv => HeldIsReachable
  BY DEF IInv, RequestInv, HoldInv, ResponseInv, HeldIsReachable
<1>2. QED
  BY <1>1, InvariantHolds, PTL

(* A dropped request never reaches the provider.                           *)
THEOREM DropsAreFinal == Spec => []DropIsFinal
<1>1. IInv => DropIsFinal
  BY DEF IInv, RequestInv, DeliveryInv, DropIsFinal
<1>2. QED
  BY <1>1, InvariantHolds, PTL

(* The provider receives no request twice.                                 *)
THEOREM DeliveredAtMostOnce == Spec => []AtMostOnceUpstream
<1>1. IInv => AtMostOnceUpstream
  BY DEF IInv, RequestInv, DeliveryInv, AtMostOnceUpstream
<1>2. QED
  BY <1>1, InvariantHolds, PTL

(* A gated request is sent only after its hold ended.                      *)
THEOREM GatedRequestsWait == Spec => []HeldUntilReleased
<1>1. IInv => HeldUntilReleased
  BY DEF IInv, RequestInv, DeliveryInv, HeldUntilReleased
<1>2. QED
  BY <1>1, InvariantHolds, PTL

(* Of what the provider received, the log misses only failed attempts,     *)
(* relayed WebSockets and requests whose client left unanswered.           *)
THEOREM DeliveriesCaptured == Spec => []DeliveriesAreCaptured
<1>1. IInv => DeliveriesAreCaptured
  BY DEF IInv, TypeOK, RequestInv, DeliveryInv, CaptureInv, DeliveriesAreCaptured,
         Finished, Refused, Undelivered, Undecided
<1>2. QED
  BY <1>1, InvariantHolds, PTL

-----------------------------------------------------------------------------
(* What the maps and the one-shot channels give: a decision is never       *)
(* revised, because deciding takes the entry away.                         *)
THEOREM DecisionsStand == Spec => DecisionsAreFinal
<1> DEFINE Stands == \A r \in Requests :
        /\ decision[r] # "none" => decision'[r] = decision[r]
        /\ response_decision[r] # "none" => response_decision'[r] = response_decision[r]
<1>1. IInv /\ [Next]_vars => [Stands]_vars
  <2> SUFFICES ASSUME IInv, Next
               PROVE  Stands
    OBVIOUS
  <2> USE DEF IInv, TypeOK, RequestInv, HoldInv, ResponseInv, holdVars, responseVars
  <2>1. ASSUME NEW r \in Requests, Receive(r) \/ HandlerStep(r) \/ Disconnect(r)
        PROVE  UNCHANGED <<decision, response_decision>>
    BY <2>1 DEF HandlerStep, Receive, UpgradeWebSocket, ReadGate, BodyError, Transform, Hold,
                Resume, Send, Retry, ReadResponseGate, HoldResponse, ResumeResponse, Log,
                Reply, StreamEnd, StreamLog, Disconnect
  <2>2. ASSUME NEW r \in Requests, SupervisorStep(r)
        PROVE  Stands
    BY <2>2 DEF SupervisorStep, ForwardIntercept, DropIntercept, ForwardResponseIntercept, Decide
  <2>3. ASSUME NEW o \in Operators, Drain(o)
        PROVE  Stands
    BY <2>3 DEF Drain, SameSession
  <2>4. ASSUME NEW o \in Operators, WriteInterceptMode(o) \/ BeginSwitch(o)
        PROVE  UNCHANGED <<decision, response_decision>>
    BY <2>4 DEF WriteInterceptMode, BeginSwitch, SetProxyMode, SetInterceptMode
  <2>5. QED
    BY <2>1, <2>2, <2>3, <2>4 DEF Next, SwitchStep
<1>2. QED
  BY <1>1, InvariantHolds, PTL DEF Spec, DecisionsAreFinal
(* A switch touches the channels of the session it switches and of no      *)
(* other: the drain looks every entry's session up before it answers it.   *)
THEOREM SwitchesStayInTheirSession == Spec => SwitchReleasesOwnSession
<1> DEFINE Own == \A r \in Requests :
        decision[r] # decision'[r] /\ operator # operator'
        => \E o \in Operators : /\ operator[o].at = "drain"
                                /\ operator[o].session = session[r]
<1>1. IInv /\ [Next]_vars => [Own]_vars
  <2> SUFFICES ASSUME IInv, Next
               PROVE  Own
    OBVIOUS
  <2> USE DEF IInv, TypeOK, holdVars
  <2>1. ASSUME NEW r \in Requests, Receive(r) \/ HandlerStep(r) \/ Disconnect(r)
        PROVE  UNCHANGED operator
    BY <2>1 DEF HandlerStep, Receive, UpgradeWebSocket, ReadGate, BodyError, Transform, Hold,
                Resume, Send, Retry, ReadResponseGate, HoldResponse, ResumeResponse, Log,
                Reply, StreamEnd, StreamLog, Disconnect
  <2>2. ASSUME NEW r \in Requests, SupervisorStep(r)
        PROVE  UNCHANGED operator
    BY <2>2 DEF SupervisorStep, ForwardIntercept, DropIntercept, ForwardResponseIntercept, Decide
  <2>3. ASSUME NEW o \in Operators, Drain(o)
        PROVE  Own
    BY <2>3 DEF Drain, SameSession
  <2>4. ASSUME NEW o \in Operators, WriteInterceptMode(o) \/ BeginSwitch(o)
        PROVE  UNCHANGED decision
    BY <2>4 DEF WriteInterceptMode, BeginSwitch, SetProxyMode, SetInterceptMode
  <2>5. QED
    BY <2>1, <2>2, <2>3, <2>4 DEF Next, SwitchStep
<1>2. QED
  BY <1>1, InvariantHolds, PTL DEF Spec, SwitchReleasesOwnSession

-----------------------------------------------------------------------------
(* InterceptGate implements SupervisedRequest, for every instance.        *)

(* The abstract stage of every position a task can be in.                  *)
LEMMA Stages ==
    /\ \A state \in {"idle", "received", "transform", "gate"} : StageOf(state) = "new"
    /\ StageOf("held") = "held"
    /\ \A state \in {"sending", "retrying"} : StageOf(state) = "released"
    /\ \A state \in {"responded", "streaming", "buffered", "held_response", "logging",
                     "replying"} : StageOf(state) = "delivered"
    /\ \A state \in {"ended", "answered"} : StageOf(state) = "answered"
    /\ StageOf("tunnel") = "relayed"
    /\ \A state \in {"blocked", "dropped", "failed"} : StageOf(state) = "refused"
    /\ \A state \in {"orphaned", "cancelled"} : StageOf(state) = "abandoned"
BY DEF StageOf, Refused

(* A task that goes from one position to another moves its request's stage *)
(* and no other's.                                                         *)
LEMMA StageMoves ==
    ASSUME TypeOK, NEW r \in Requests, NEW state, Goto(r, state)
    PROVE  [q \in Requests |-> StageOf(handler[q])]'
           = [[q \in Requests |-> StageOf(handler[q])] EXCEPT ![r] = StageOf(state)]
BY DEF TypeOK, Goto

(* A move between positions of the same stage changes no stage.            *)
LEMMA StageStays ==
    ASSUME TypeOK, NEW r \in Requests, NEW state, Goto(r, state),
           StageOf(state) = StageOf(handler[r])
    PROVE  UNCHANGED [q \in Requests |-> StageOf(handler[q])]
BY DEF TypeOK, Goto

(* A failed attempt was delivered once more or not at all.                 *)
LEMMA FailureCounts ==
    ASSUME TypeOK, NEW r \in Requests, AttemptFails(r)
    PROVE  UNCHANGED upstream \/ upstream' = [upstream EXCEPT ![r] = @ + 1]
<1>1. PICK n \in {0, 1} : upstream' = [upstream EXCEPT ![r] = @ + n]
  BY DEF AttemptFails
<1>2. CASE n = 0
  <2>1. upstream \in [Requests -> Nat] /\ upstream' = [upstream EXCEPT ![r] = upstream[r] + 0]
    BY <1>1, <1>2 DEF TypeOK
  <2>2. upstream[r] + 0 = upstream[r]
    BY <2>1
  <2>3. upstream' = upstream
    BY <2>1, <2>2
  <2>4. QED
    BY <2>3
<1>3. CASE n = 1
  BY <1>1, <1>3
<1>4. QED
  BY <1>2, <1>3

(* Every step of the gate is a step of the abstract specification, or none.*)
LEMMA RefinementStep ==
    ASSUME IInv, [Next]_vars
    PROVE  [Abstract!Next]_(Abstract!vars)
<1> USE DEF modeVars, requestVars, holdVars, responseVars, effectVars
<1> DEFINE bar == [q \in Requests |-> StageOf(handler[q])]
<1>t. TypeOK /\ \A q \in Requests : RequestInv(q)
  BY DEF IInv
<1>b. \A q \in Requests : bar[q] = StageOf(handler[q])
  OBVIOUS
<1>1. ASSUME NEW r \in Requests, Receive(r)
      PROVE  UNCHANGED Abstract!vars \/ Abstract!Refuse(r)
  <2>1. CASE Goto(r, "blocked")
    <3>1. bar' = [bar EXCEPT ![r] = "refused"] /\ bar[r] = "new"
      BY <1>1, <2>1, <1>t, Stages, StageMoves DEF Receive
    <3>2. QED
      BY <1>1, <3>1 DEF Receive, Abstract!Refuse, Abstract!MayArrive, Abstract!Move
  <2>2. CASE Goto(r, "received")
    BY <1>1, <2>2, <1>t, Stages, StageStays DEF Receive, Abstract!vars
  <2>3. QED
    BY <1>1, <2>1, <2>2 DEF Receive
<1>2. ASSUME NEW r \in Requests, UpgradeWebSocket(r)
      PROVE  Abstract!Relay(r) \/ Abstract!Refuse(r)
  <2>1. CASE Goto(r, "tunnel") /\ upstream' = [upstream EXCEPT ![r] = @ + 1]
    <3>1. bar' = [bar EXCEPT ![r] = "relayed"] /\ bar[r] = "new"
      BY <1>2, <2>1, <1>t, Stages, StageMoves DEF UpgradeWebSocket
    <3>2. QED
      BY <1>2, <2>1, <3>1 DEF UpgradeWebSocket, Abstract!Relay, Abstract!Move
  <2>2. CASE AttemptFails(r)
    <3>1. bar' = [bar EXCEPT ![r] = "refused"] /\ bar[r] = "new"
      BY <1>2, <2>2, <1>t, Stages, StageMoves DEF UpgradeWebSocket, AttemptFails
    <3>2. UNCHANGED upstream \/ upstream' = [upstream EXCEPT ![r] = @ + 1]
      BY <2>2, <1>t, FailureCounts DEF AttemptFails
    <3>3. QED
      BY <1>2, <3>1, <3>2 DEF UpgradeWebSocket, Abstract!Relay, Abstract!Refuse, Abstract!MayArrive, Abstract!Move
  <2>3. QED
    BY <1>2, <2>1, <2>2 DEF UpgradeWebSocket
<1>3. ASSUME NEW r \in Requests, ReadGate(r)
      PROVE  Abstract!Sample(r)
  <2>1. UNCHANGED bar /\ bar[r] = "new"
    BY <1>3, <1>t, Stages, StageStays DEF ReadGate
  <2>2. Manual(r) \in BOOLEAN
    BY DEF Manual
  <2>3. QED
    BY <1>3, <2>1, <2>2 DEF ReadGate, Abstract!Sample
<1>4. ASSUME NEW r \in Requests, BodyError(r)
      PROVE  Abstract!Refuse(r)
  <2>1. bar' = [bar EXCEPT ![r] = "refused"] /\ bar[r] = "new"
    BY <1>4, <1>t, Stages, StageMoves DEF BodyError
  <2>2. QED
    BY <1>4, <2>1 DEF BodyError, Abstract!Refuse, Abstract!MayArrive, Abstract!Move
<1>5. ASSUME NEW r \in Requests, Transform(r)
      PROVE  UNCHANGED Abstract!vars \/ Abstract!Pass(r) \/ Abstract!Refuse(r)
  <2>1. CASE should_intercept[r] /\ Goto(r, "gate")
    BY <1>5, <2>1, <1>t, Stages, StageStays DEF Transform, Abstract!vars
  <2>2. CASE ~should_intercept[r] /\ Goto(r, "sending")
    <3>1. bar' = [bar EXCEPT ![r] = "released"] /\ bar[r] = "new"
      BY <1>5, <2>2, <1>t, Stages, StageMoves DEF Transform
    <3>2. QED
      BY <1>5, <2>2, <3>1 DEF Transform, Abstract!Pass, Abstract!Move
  <2>3. CASE Goto(r, "failed")
    <3>1. bar' = [bar EXCEPT ![r] = "refused"] /\ bar[r] = "new"
      BY <1>5, <2>3, <1>t, Stages, StageMoves DEF Transform
    <3>2. QED
      BY <1>5, <3>1 DEF Transform, Abstract!Refuse, Abstract!MayArrive, Abstract!Move
  <2>4. QED
    BY <1>5, <2>1, <2>2, <2>3, <1>t DEF Transform, TypeOK
<1>6. ASSUME NEW r \in Requests, Hold(r)
      PROVE  Abstract!Hold(r)
  <2>1. bar' = [bar EXCEPT ![r] = "held"] /\ bar[r] = "new"
    BY <1>6, <1>t, Stages, StageMoves DEF Hold
  <2>2. should_intercept[r]
    BY <1>6, <1>t DEF Hold, RequestInv, DeliveryInv
  <2>3. QED
    BY <1>6, <2>1, <2>2 DEF Hold, Abstract!Hold, Abstract!Move
<1>7. ASSUME NEW r \in Requests, Resume(r)
      PROVE  Abstract!Release(r) \/ Abstract!Refuse(r)
  <2>1. CASE decision[r] \in {"forward", "closed"} /\ Goto(r, "sending")
    <3>1. bar' = [bar EXCEPT ![r] = "released"] /\ bar[r] = "held"
      BY <1>7, <2>1, <1>t, Stages, StageMoves DEF Resume
    <3>2. QED
      BY <1>7, <2>1, <3>1 DEF Resume, Abstract!Release, Abstract!Move
  <2>2. CASE \/ decision[r] = "forward" /\ Goto(r, "failed")
             \/ decision[r] = "drop" /\ Goto(r, "dropped")
    <3>1. bar' = [bar EXCEPT ![r] = "refused"] /\ bar[r] = "held"
      BY <1>7, <2>2, <1>t, Stages, StageMoves DEF Resume
    <3>2. QED
      BY <1>7, <2>2, <3>1 DEF Resume, Abstract!Refuse, Abstract!MayArrive, Abstract!Move
  <2>3. QED
    BY <1>7, <2>1, <2>2, Zenon DEF Resume
<1>8. ASSUME NEW r \in Requests, Send(r) \/ Retry(r)
      PROVE  UNCHANGED Abstract!vars \/ Abstract!Deliver(r) \/ Abstract!Refuse(r)
  <2>a. handler[r] \in {"sending", "retrying"} /\ UNCHANGED <<should_intercept, decision>>
    BY <1>8 DEF Send, Retry
  <2>0. bar[r] = "released" /\ UNCHANGED <<should_intercept, decision>>
    BY <2>a, Stages
  <2>1. CASE AttemptSucceeds(r)
    <3>1. bar' = [bar EXCEPT ![r] = "delivered"]
      BY <2>1, <1>t, Stages, StageMoves DEF AttemptSucceeds
    <3>2. QED
      BY <2>0, <2>1, <3>1 DEF AttemptSucceeds, Abstract!Deliver, Abstract!Move
  <2>2. CASE AttemptFails(r)
    <3>1. bar' = [bar EXCEPT ![r] = "refused"]
      BY <2>2, <1>t, Stages, StageMoves DEF AttemptFails
    <3>2. UNCHANGED upstream \/ upstream' = [upstream EXCEPT ![r] = @ + 1]
      BY <2>2, <1>t, FailureCounts DEF AttemptFails
    <3>3. QED
      BY <2>0, <3>1, <3>2 DEF Abstract!Refuse, Abstract!MayArrive, Abstract!Move
  <2>3. CASE handler[r] = "sending" /\ Goto(r, "retrying") /\ UNCHANGED upstream
    BY <2>0, <2>3, <1>t, Stages, StageStays DEF Abstract!vars
  <2>4. QED
    BY <1>8, <2>1, <2>2, <2>3 DEF Send, Retry
<1>9. ASSUME NEW r \in Requests, ReadResponseGate(r) \/ HoldResponse(r) \/ ResumeResponse(r)
      PROVE  UNCHANGED Abstract!vars
  <2>1. PICK next \in {"buffered", "streaming", "logging", "held_response"} : Goto(r, next)
    BY <1>9 DEF ReadResponseGate, HoldResponse, ResumeResponse
  <2>2. StageOf(next) = StageOf(handler[r])
    BY <1>9, Stages DEF ReadResponseGate, HoldResponse, ResumeResponse
  <2>3. QED
    BY <1>9, <2>1, <2>2, <1>t, StageStays DEF ReadResponseGate, HoldResponse, ResumeResponse, Abstract!vars
<1>10. ASSUME NEW r \in Requests, Log(r) \/ StreamLog(r)
      PROVE  UNCHANGED Abstract!vars
  <2>1. PICK next \in {"replying", "answered", "cancelled"} :
            Goto(r, next) /\ StageOf(next) = StageOf(handler[r])
    BY <1>10, Stages DEF Log, StreamLog
  <2>2. QED
    BY <1>10, <2>1, <1>t, StageStays DEF Log, StreamLog, Abstract!vars
<1>11. ASSUME NEW r \in Requests, Reply(r) \/ StreamEnd(r)
      PROVE  Abstract!Answer(r)
  <2>1. PICK next \in {"ended", "answered"} : Goto(r, next)
    BY <1>11 DEF Reply, StreamEnd
  <2>2. bar' = [bar EXCEPT ![r] = "answered"] /\ bar[r] = "delivered"
    BY <1>11, <2>1, <1>t, Stages, StageMoves DEF Reply, StreamEnd
  <2>3. QED
    BY <1>11, <2>2 DEF Reply, StreamEnd, Abstract!Answer, Abstract!Move
<1>12. ASSUME NEW r \in Requests, Disconnect(r)
      PROVE  Abstract!Abandon(r)
  <2>1. PICK next \in {"cancelled", "orphaned"} : Goto(r, next)
    BY <1>12 DEF Disconnect
  <2>2. bar[r] \in {"new", "held", "released", "delivered"}
    BY <1>12, Stages DEF Disconnect, Waiting
  <2>3. bar' = [bar EXCEPT ![r] = "abandoned"]
    BY <2>1, <1>t, Stages, StageMoves
  <2>4. Abstract!MayArrive(r)
    BY <1>12, Stages DEF Disconnect, Abstract!MayArrive
  <2>5. QED
    BY <1>12, <2>2, <2>3, <2>4 DEF Disconnect, Abstract!Abandon, Abstract!Move
<1>13. ASSUME NEW r \in Requests, NEW s \in Sessions, NEW v \in {"forward", "drop"}, Decide(r, s, v)
      PROVE  UNCHANGED Abstract!vars \/ \E w \in {"forward", "drop", "closed"} : Abstract!Decide({r}, w)
  <2>0. UNCHANGED bar /\ decision[r] = "none"
    BY <1>13, <1>t DEF Decide, RequestInv, HoldInv
  <2>1. CASE handler[r] = "held"
    <3>1. Verdict(r, s, v) \in {"forward", "drop", "closed"} /\ bar[r] = "held"
      BY <2>1, Stages DEF Verdict
    <3>2. decision' = [q \in Requests |-> IF q \in {r} THEN Verdict(r, s, v) ELSE decision[q]]
      BY <1>13, <2>1, <1>t DEF Decide, TypeOK
    <3>3. Abstract!Decide({r}, Verdict(r, s, v))
      BY <1>13, <2>0, <3>1, <3>2 DEF Decide, Abstract!Decide
    <3>4. QED
      BY <3>1, <3>3
  <2>2. CASE handler[r] # "held"
    BY <1>13, <2>0, <2>2 DEF Decide, Abstract!vars
  <2>3. QED
    BY <2>1, <2>2
<1>14. ASSUME NEW r \in Requests, NEW s \in Sessions, ForwardResponseIntercept(r, s)
      PROVE  UNCHANGED Abstract!vars
  BY <1>14 DEF ForwardResponseIntercept, Abstract!vars
<1>15. ASSUME NEW o \in Operators, WriteInterceptMode(o) \/ BeginSwitch(o)
      PROVE  UNCHANGED Abstract!vars
  BY <1>15 DEF WriteInterceptMode, BeginSwitch, SetProxyMode, SetInterceptMode, Abstract!vars
<1>16. ASSUME NEW o \in Operators, Drain(o)
      PROVE  \E R \in SUBSET Requests : Abstract!Decide(R, "forward")
  <2> DEFINE R == {r \in SameSession(o, pending_intercepts) : handler[r] = "held"}
  <2>1. R \subseteq Requests
    BY <1>t DEF SameSession, TypeOK
  <2>2. \A r \in R : bar[r] = "held" /\ decision[r] = "none"
    BY <1>t, <2>1, Stages DEF SameSession, RequestInv, HoldInv
  <2>3. decision' = [q \in Requests |-> IF q \in R THEN "forward" ELSE decision[q]]
    BY <1>16 DEF Drain
  <2>4. UNCHANGED <<bar, should_intercept, upstream>>
    BY <1>16 DEF Drain
  <2>5. Abstract!Decide(R, "forward")
    BY <2>2, <2>3, <2>4 DEF Abstract!Decide
  <2>6. QED
    BY <2>1, <2>5
<1>17. CASE UNCHANGED vars
  BY <1>17 DEF vars, Abstract!vars
<1>18. ASSUME NEW r \in Requests, HandlerStep(r) \/ Receive(r) \/ Disconnect(r)
      PROVE  [Abstract!Next]_(Abstract!vars)
  BY <1>18, <1>1, <1>2, <1>3, <1>4, <1>5, <1>6, <1>7, <1>8, <1>9, <1>10, <1>11, <1>12
     DEF HandlerStep, Abstract!Next
<1>19. ASSUME NEW r \in Requests, SupervisorStep(r)
      PROVE  [Abstract!Next]_(Abstract!vars)
  BY <1>19, <1>13, <1>14
     DEF SupervisorStep, ForwardIntercept, DropIntercept, Abstract!Next, Abstract!Verdicts
<1>20. ASSUME NEW o \in Operators, SwitchStep(o) \/ BeginSwitch(o)
      PROVE  [Abstract!Next]_(Abstract!vars)
  BY <1>20, <1>15, <1>16 DEF SwitchStep, Abstract!Next, Abstract!Verdicts
<1>21. QED
  BY <1>17, <1>18, <1>19, <1>20 DEF Next

(* The gate implements its abstract specification for every set of         *)
(* requests, sessions, categories, modes and operators.                    *)
THEOREM Refinement == Spec => ImplementsSupervisedRequest
<1>1. Init => Abstract!Init
  BY Stages DEF Init, Abstract!Init
<1>2. IInv /\ [Next]_vars => [Abstract!Next]_(Abstract!vars)
  BY RefinementStep
<1>3. QED
  BY <1>1, <1>2, InvariantHolds, PTL DEF Spec, ImplementsSupervisedRequest, Abstract!Spec
=============================================================================
