---------------------------- MODULE InterceptGate ----------------------------
(***************************************************************************)
(* The reverse proxy's intercept gate: server/src/proxy/handler.rs         *)
(* (proxy_handler) together with the operator's HTTP handlers in           *)
(* server/src/main.rs that switch modes and decide held traffic.           *)
(*                                                                         *)
(* One handler task runs per request; every action below is the code       *)
(* between two accesses to shared state, so the tasks interleave exactly   *)
(* where an .await (or another thread) lets them.  A session is in manual  *)
(* mode iff intercept_modes maps it to Manual; absence means Auto.         *)
(*                                                                         *)
(* Abstracted: bodies, headers and their rewriting (image, prompt and key  *)
(* injection happen inside Transform and Send), the text of log entries,   *)
(* the debounced save of the configuration and the eviction of old log     *)
(* entries from the captured ring.                                         *)
(***************************************************************************)
EXTENDS Naturals

CONSTANTS Requests,    \* one handler task each
          Sessions,    \* session uuids that occur in /s/{uuid}/ prefixes
          NoSession,   \* a request without such a prefix
          Operators,   \* concurrently running mode-switching HTTP handlers
          Kinds,       \* which requests clients send: "http", "websocket"
          Categories,  \* the traffic categories that occur
          ModesInUse   \* the proxy modes operators switch to

(* proxy/modes.rs: ProxyMode, and handler.rs: InterceptMode *)
ProxyMode == {"auto", "manual", "custom", "pure", "lockdown"}
InterceptMode == {"auto", "manual"}

(* What the oneshot channel of a held request yields: nothing yet, the      *)
(* operator's decision, or Err because its sender was dropped.             *)
Decision == {"none", "forward", "drop", "closed"}

ASSUME GateAssumption ==
    /\ NoSession \notin Sessions
    /\ ModesInUse \subseteq ProxyMode
    /\ Kinds \subseteq {"http", "websocket"}

VARIABLES
    proxy_modes,                  \* ProxyModeStore, default auto
    intercept_modes,              \* per-session InterceptMode, default auto
    pending_intercepts,           \* requests whose PendingIntercept is in the map
    pending_response_intercepts,  \* requests whose PendingResponseIntercept is
    handler,                      \* where each handler task stands
    session,                      \* session_id of each request
    category,                     \* classify_request of each request
    should_intercept,             \* the handler's local of that name
    decision,                     \* what decision_rx of the request gate holds
    response_decision,            \* the same for the response gate
    upstream,                     \* how often the provider received the request
    captured,                     \* requests with an entry in the capture log
    replied,                      \* history: whose client got some of the provider's answer
    operator                      \* the mode-switching handlers

modeVars == <<proxy_modes, intercept_modes>>
requestVars == <<session, category, should_intercept>>
holdVars == <<pending_intercepts, decision>>
responseVars == <<pending_response_intercepts, response_decision>>
effectVars == <<upstream, captured, replied>>
vars == <<modeVars, requestVars, holdVars, responseVars, effectVars,
          handler, operator>>

(* A task at rest: the client has its reply (or gave up). "tunnel" is a     *)
(* request handed over to the WebSocket relay.  A pass-through task lives  *)
(* on behind its handler: the client reads its stream ("streaming"), has   *)
(* read all of it ("ended") or went away ("orphaned").                     *)
Refused == {"blocked", "dropped", "failed"}
Finished == Refused \cup {"answered", "cancelled", "tunnel"}
Waiting == {"transform", "gate", "held", "sending", "retrying", "responded",
            "buffered", "held_response", "logging", "replying"}
HandlerState == {"idle", "received", "streaming", "ended", "orphaned"} \cup Waiting \cup Finished

(* modes.rs should_block; a request without a session is never blocked.    *)
ShouldBlock(mode, c) ==
    \/ mode = "lockdown" /\ c # "Api"
    \/ mode = "pure" /\ c = "Telemetry"

Blocked(r, s, c) == s # NoSession /\ ShouldBlock(proxy_modes[s], c)
Manual(r) == session[r] # NoSession /\ intercept_modes[session[r]] = "manual"

(* main.rs intercept_mode_for_proxy_mode *)
InterceptModeFor(mode) == IF mode = "manual" THEN "manual" ELSE "auto"

Goto(r, state) == handler' = [handler EXCEPT ![r] = state]

Init ==
    /\ proxy_modes = [s \in Sessions |-> "auto"]
    /\ intercept_modes = [s \in Sessions |-> "auto"]
    /\ pending_intercepts = {}
    /\ pending_response_intercepts = {}
    /\ handler = [r \in Requests |-> "idle"]
    /\ session = [r \in Requests |-> NoSession]
    /\ category = [r \in Requests |-> "Api"]
    /\ should_intercept = [r \in Requests |-> FALSE]
    /\ decision = [r \in Requests |-> "none"]
    /\ response_decision = [r \in Requests |-> "none"]
    /\ upstream = [r \in Requests |-> 0]
    /\ captured = {}
    /\ replied = {}
    /\ operator = [o \in Operators |-> [at |-> "idle", session |-> NoSession, mode |-> "auto"]]

-----------------------------------------------------------------------------
(* The handler task up to the upstream send.                               *)

(* A request arrives: its session and category are extracted and the proxy *)
(* mode may refuse it with 403 (which is logged).                          *)
Receive(r) ==
    /\ handler[r] = "idle"
    /\ \E s \in Sessions \cup {NoSession}, c \in Categories :
          /\ session' = [session EXCEPT ![r] = s]
          /\ category' = [category EXCEPT ![r] = c]
          /\ IF Blocked(r, s, c)
             THEN Goto(r, "blocked") /\ captured' = captured \cup {r}
             ELSE Goto(r, "received") /\ UNCHANGED captured
    /\ UNCHANGED <<modeVars, should_intercept, holdVars, responseVars, upstream, replied, operator>>

(* An upstream attempt that yields no response: a timeout or a broken      *)
(* connection may come after the provider received the request.            *)
AttemptFails(r) ==
    /\ Goto(r, "failed")
    /\ \E n \in {0, 1} : upstream' = [upstream EXCEPT ![r] = @ + n]

AttemptSucceeds(r) ==
    /\ Goto(r, "responded")
    /\ upstream' = [upstream EXCEPT ![r] = @ + 1]

(* A WebSocket upgrade leaves for the relay before the body is read; the   *)
(* relay connects upstream first (502), then upgrades the client (400).    *)
UpgradeWebSocket(r) ==
    /\ handler[r] = "received"
    /\ "websocket" \in Kinds
    /\ \/ Goto(r, "tunnel") /\ upstream' = [upstream EXCEPT ![r] = @ + 1]
       \/ AttemptFails(r)
    /\ UNCHANGED <<modeVars, requestVars, holdVars, responseVars, captured, replied, operator>>

(* The body has been read, and the gate's mode is sampled into a local.    *)
ReadGate(r) ==
    /\ handler[r] = "received"
    /\ "http" \in Kinds
    /\ should_intercept' = [should_intercept EXCEPT ![r] = Manual(r)]
    /\ Goto(r, "transform")
    /\ UNCHANGED <<modeVars, session, category, holdVars, responseVars, effectVars, operator>>

(* Reading the body failed: 400.                                           *)
BodyError(r) ==
    /\ handler[r] = "received"
    /\ "http" \in Kinds
    /\ Goto(r, "failed")
    /\ UNCHANGED <<modeVars, requestVars, holdVars, responseVars, effectVars, operator>>

(* Image injection, prompt injection and rewriting; recompressing a zstd   *)
(* body can fail with 502.  An intercepted request then goes to the gate.  *)
Transform(r) ==
    /\ handler[r] = "transform"
    /\ \/ Goto(r, IF should_intercept[r] THEN "gate" ELSE "sending")
       \/ Goto(r, "failed")
    /\ UNCHANGED <<modeVars, requestVars, holdVars, responseVars, effectVars, operator>>

(* Mutant: a re-check of the mode skips the insertion but not the await.   *)
Hold_Recheck(r) ==
    /\ handler[r] = "gate"
    /\ pending_intercepts' = IF Manual(r) THEN pending_intercepts \cup {r} ELSE pending_intercepts
    /\ Goto(r, "held")
    /\ UNCHANGED <<modeVars, requestVars, decision, responseVars, effectVars, operator>>

(* The PendingIntercept, with the sending half of the channel, is inserted *)
(* and the task awaits the receiving half.                                 *)
Hold(r) ==
    /\ handler[r] = "gate"
    /\ pending_intercepts' = pending_intercepts \cup {r}
    /\ Goto(r, "held")
    /\ UNCHANGED <<modeVars, requestVars, decision, responseVars, effectVars, operator>>

(* Mutant: Drop is treated as the response gate treats it.                 *)
Resume_DropForwards(r) ==
    /\ handler[r] = "held"
    /\ decision[r] # "none"
    /\ pending_intercepts' = pending_intercepts \ {r}
    /\ Goto(r, "sending")
    /\ UNCHANGED <<modeVars, requestVars, decision, responseVars, effectVars, operator>>

(* Mutant: the hold times out and the request goes on.                     *)
Resume_TimesOut(r) ==
    /\ handler[r] = "held"
    /\ pending_intercepts' = pending_intercepts \ {r}
    /\ Goto(r, IF decision[r] = "drop" THEN "dropped" ELSE "sending")
    /\ UNCHANGED <<modeVars, requestVars, decision, responseVars, effectVars, operator>>

(* decision_rx yields.  A dropped sender counts as Forward; a forwarded    *)
(* body that cannot be recompressed fails with 502; Drop answers 499.      *)
Resume(r) ==
    /\ handler[r] = "held"
    /\ decision[r] # "none"
    /\ pending_intercepts' = pending_intercepts \ {r}
    /\ \/ decision[r] \in {"forward", "closed"} /\ Goto(r, "sending")
       \/ decision[r] = "forward" /\ Goto(r, "failed")
       \/ decision[r] = "drop" /\ Goto(r, "dropped")
    /\ UNCHANGED <<modeVars, requestVars, decision, responseVars, effectVars, operator>>

(* Mutant: every error is retried.                                         *)
Send_RetriesAll(r) ==
    /\ handler[r] = "sending"
    /\ \/ AttemptSucceeds(r)
       \/ Goto(r, "retrying") /\ \E n \in {0, 1} : upstream' = [upstream EXCEPT ![r] = @ + n]
    /\ UNCHANGED <<modeVars, requestVars, holdVars, responseVars, captured, replied, operator>>

(* req_builder.send(): a connect error is retried once, and only that.     *)
Send(r) ==
    /\ handler[r] = "sending"
    /\ \/ AttemptSucceeds(r)
       \/ AttemptFails(r)
       \/ Goto(r, "retrying") /\ UNCHANGED upstream
    /\ UNCHANGED <<modeVars, requestVars, holdVars, responseVars, captured, replied, operator>>

Retry(r) ==
    /\ handler[r] = "retrying"
    /\ AttemptSucceeds(r) \/ AttemptFails(r)
    /\ UNCHANGED <<modeVars, requestVars, holdVars, responseVars, captured, replied, operator>>

-----------------------------------------------------------------------------
(* The response gate, which samples the mode again.                        *)

(* Manual: the whole response is buffered and will be held.  Otherwise an  *)
(* event stream is passed through by a spawned task, of which the client   *)
(* gets the head at once, and any other response goes on to be logged.     *)
ReadResponseGate(r) ==
    /\ handler[r] = "responded"
    /\ \/ Manual(r) /\ Goto(r, "buffered") /\ UNCHANGED replied
       \/ ~Manual(r) /\ Goto(r, "streaming") /\ replied' = replied \cup {r}
       \/ ~Manual(r) /\ Goto(r, "logging") /\ UNCHANGED replied
    /\ UNCHANGED <<modeVars, requestVars, holdVars, responseVars, upstream, captured, operator>>

HoldResponse(r) ==
    /\ handler[r] = "buffered"
    /\ pending_response_intercepts' = pending_response_intercepts \cup {r}
    /\ Goto(r, "held_response")
    /\ UNCHANGED <<modeVars, requestVars, holdVars, response_decision, effectVars, operator>>

(* Whatever is decided, the response goes to the client.                   *)
ResumeResponse(r) ==
    /\ handler[r] = "held_response"
    /\ response_decision[r] # "none"
    /\ pending_response_intercepts' = pending_response_intercepts \ {r}
    /\ Goto(r, "logging")
    /\ UNCHANGED <<modeVars, requestVars, holdVars, response_decision, effectVars, operator>>

(* A response that was buffered is logged before it is given out.          *)
Log(r) ==
    /\ handler[r] = "logging"
    /\ captured' = captured \cup {r}
    /\ Goto(r, "replying")
    /\ UNCHANGED <<modeVars, requestVars, holdVars, responseVars, upstream, replied, operator>>

(* The handler returns the response.                                       *)
Reply(r) ==
    /\ handler[r] = "replying"
    /\ replied' = replied \cup {r}
    /\ Goto(r, "answered")
    /\ UNCHANGED <<modeVars, requestVars, holdVars, responseVars, upstream, captured, operator>>

(* The pass-through task sees the end of the stream or an error, and lets  *)
(* the client see it: drop(chunk_tx) comes before any logging.             *)
StreamEnd(r) ==
    /\ handler[r] = "streaming"
    /\ Goto(r, "ended")
    /\ UNCHANGED <<modeVars, requestVars, holdVars, responseVars, effectVars, operator>>

(* Mutant: a failed send ends the task instead of its loop.                *)
StreamLog_GivesUp(r) ==
    /\ handler[r] \in {"ended", "orphaned"}
    /\ captured' = IF handler[r] = "ended" THEN captured \cup {r} ELSE captured
    /\ Goto(r, IF handler[r] = "ended" THEN "answered" ELSE "cancelled")
    /\ UNCHANGED <<modeVars, requestVars, holdVars, responseVars, upstream, replied, operator>>

(* After the end, or when a send failed because the client is gone, the    *)
(* pass-through task logs what it collected.                               *)
StreamLog(r) ==
    /\ \/ handler[r] = "ended" /\ Goto(r, "answered")
       \/ handler[r] = "orphaned" /\ Goto(r, "cancelled")
    /\ captured' = captured \cup {r}
    /\ UNCHANGED <<modeVars, requestVars, holdVars, responseVars, upstream, replied, operator>>

(* The client closes its connection: the handler future is dropped at its  *)
(* await, and the receiving half of its channel with it.  The map entries  *)
(* stay, and an attempt under way may have arrived.  The pass-through task *)
(* is not part of the future.                                              *)
Disconnect(r) ==
    /\ \/ handler[r] \in {"received"} \cup Waiting /\ Goto(r, "cancelled")
       \/ handler[r] = "streaming" /\ Goto(r, "orphaned")
    /\ \/ UNCHANGED upstream
       \/ handler[r] \in {"sending", "retrying"} /\ upstream' = [upstream EXCEPT ![r] = @ + 1]
    /\ UNCHANGED <<modeVars, requestVars, holdVars, responseVars, captured, replied, operator>>

-----------------------------------------------------------------------------
(* The operator's HTTP handlers.  The entry leaves the map first; a wrong   *)
(* session in the URL then drops the sender, and a receiver that is gone   *)
(* (is_closed) makes the call answer 410 without effect.                   *)
Verdict(r, s, v) ==
    IF session[r] # s THEN "closed" ELSE v

Decide(r, s, v) ==
    /\ r \in pending_intercepts
    /\ pending_intercepts' = pending_intercepts \ {r}
    /\ decision' = IF handler[r] = "held"
                   THEN [decision EXCEPT ![r] = Verdict(r, s, v)]
                   ELSE decision
    /\ UNCHANGED <<modeVars, requestVars, responseVars, effectVars, handler, operator>>

ForwardIntercept(r, s) == Decide(r, s, "forward")
DropIntercept(r, s) == Decide(r, s, "drop")

(* There is no route to drop a response.                                   *)
ForwardResponseIntercept(r, s) ==
    /\ r \in pending_response_intercepts
    /\ pending_response_intercepts' = pending_response_intercepts \ {r}
    /\ response_decision' = IF handler[r] = "held_response"
                            THEN [response_decision EXCEPT ![r] = Verdict(r, s, "forward")]
                            ELSE response_decision
    /\ UNCHANGED <<modeVars, requestVars, holdVars, effectVars, handler, operator>>

(* api_set_proxy_mode (and api_set_proxy_config): the proxy mode is stored *)
(* first, then set_session_intercept_mode runs.                            *)
SetProxyMode(o, s, m) ==
    /\ operator[o].at = "idle"
    /\ proxy_modes' = [proxy_modes EXCEPT ![s] = m]
    /\ operator' = [operator EXCEPT ![o] =
                       [at |-> "mode", session |-> s, mode |-> InterceptModeFor(m)]]
    /\ UNCHANGED <<intercept_modes, requestVars, holdVars, responseVars, effectVars, handler>>

(* api_set_intercept_mode: only set_session_intercept_mode runs.           *)
SetInterceptMode(o, s, m) ==
    /\ operator[o].at = "idle"
    /\ operator' = [operator EXCEPT ![o] = [at |-> "mode", session |-> s, mode |-> m]]
    /\ UNCHANGED <<modeVars, requestVars, holdVars, responseVars, effectVars, handler>>

(* set_session_intercept_mode, first half.                                 *)
WriteInterceptMode(o) ==
    /\ operator[o].at = "mode"
    /\ intercept_modes' = [intercept_modes EXCEPT ![operator[o].session] = operator[o].mode]
    /\ operator' = [operator EXCEPT ![o].at =
                       IF operator[o].mode = "auto" THEN "drain" ELSE "idle"]
    /\ UNCHANGED <<proxy_modes, requestVars, holdVars, responseVars, effectVars, handler>>

(* Mutant: the filter by session is forgotten.                             *)
SameSession_All(o, pending) == pending

(* The entries of a map that belong to the session being switched.         *)
SameSession(o, pending) == {r \in pending : session[r] = operator[o].session}

(* Mutant: the drain takes every waiting task of the session for pending.  *)
Drain_Overrides(o) ==
    /\ operator[o].at = "drain"
    /\ decision' = [r \in Requests |->
           IF handler[r] = "held" /\ session[r] = operator[o].session
           THEN "forward" ELSE decision[r]]
    /\ pending_intercepts' = pending_intercepts \ SameSession(o, pending_intercepts)
    /\ operator' = [operator EXCEPT ![o].at = "idle"]
    /\ UNCHANGED <<modeVars, requestVars, responseVars, effectVars, handler>>

(* Mutant: held responses are taken out of the map but not answered.       *)
Drain_ForgetsResponses(o) ==
    /\ operator[o].at = "drain"
    /\ decision' = [r \in Requests |->
           IF handler[r] = "held" /\ r \in SameSession(o, pending_intercepts)
           THEN "forward" ELSE decision[r]]
    /\ pending_intercepts' = pending_intercepts \ SameSession(o, pending_intercepts)
    /\ pending_response_intercepts' =
           pending_response_intercepts \ SameSession(o, pending_response_intercepts)
    /\ operator' = [operator EXCEPT ![o].at = "idle"]
    /\ UNCHANGED <<modeVars, requestVars, response_decision, effectVars, handler>>

(* set_session_intercept_mode, second half: every pending request and      *)
(* response of the session is forwarded.  The lock on pending_intercepts   *)
(* is held until the responses are done, so nothing enters or leaves that  *)
(* map in between and the two sweeps are one step.                         *)
Drain(o) ==
    /\ operator[o].at = "drain"
    /\ pending_intercepts' = pending_intercepts \ SameSession(o, pending_intercepts)
    /\ decision' = [r \in Requests |->
           IF handler[r] = "held" /\ r \in SameSession(o, pending_intercepts)
           THEN "forward" ELSE decision[r]]
    /\ pending_response_intercepts' =
           pending_response_intercepts \ SameSession(o, pending_response_intercepts)
    /\ response_decision' = [r \in Requests |->
           IF handler[r] = "held_response" /\ r \in SameSession(o, pending_response_intercepts)
           THEN "forward" ELSE response_decision[r]]
    /\ operator' = [operator EXCEPT ![o].at = "idle"]
    /\ UNCHANGED <<modeVars, requestVars, effectVars, handler>>

-----------------------------------------------------------------------------
HandlerStep(r) ==
    \/ UpgradeWebSocket(r) \/ ReadGate(r) \/ BodyError(r) \/ Transform(r)
    \/ Hold(r) \/ Resume(r) \/ Send(r) \/ Retry(r)
    \/ ReadResponseGate(r) \/ HoldResponse(r) \/ ResumeResponse(r)
    \/ Log(r) \/ Reply(r) \/ StreamEnd(r) \/ StreamLog(r)

SupervisorStep(r) ==
    \E s \in Sessions :
        ForwardIntercept(r, s) \/ DropIntercept(r, s) \/ ForwardResponseIntercept(r, s)

SwitchStep(o) == WriteInterceptMode(o) \/ Drain(o)

BeginSwitch(o) ==
    \E s \in Sessions :
        \/ \E m \in ModesInUse : SetProxyMode(o, s, m)
        \/ \E m \in InterceptMode : SetInterceptMode(o, s, m)

Next ==
    \/ \E r \in Requests : Receive(r) \/ HandlerStep(r) \/ Disconnect(r) \/ SupervisorStep(r)
    \/ \E o \in Operators : SwitchStep(o) \/ BeginSwitch(o)

Spec == Init /\ [][Next]_vars

(* The runtime polls every task that can run, reqwest gives up after 300 s *)
(* (proxy/mod.rs) so an upstream attempt ends, and a switch that has begun *)
(* is carried through.  Clients owe nothing: neither the rest of a body,   *)
(* which is read without a timeout, nor that they read their stream, whose *)
(* channel then fills; nor does the supervisor who decides or switches.    *)
Fairness ==
    /\ \A r \in Requests : WF_vars(handler[r] \notin {"received", "streaming"} /\ HandlerStep(r))
    /\ \A o \in Operators : WF_vars(SwitchStep(o))

FairSpec == Spec /\ Fairness
-----------------------------------------------------------------------------
(* Type invariant.                                                         *)
OperatorState == [at : {"idle", "mode", "drain"},
                  session : Sessions \cup {NoSession}, mode : InterceptMode]

TypeOK ==
    /\ proxy_modes \in [Sessions -> ProxyMode]
    /\ intercept_modes \in [Sessions -> InterceptMode]
    /\ pending_intercepts \subseteq Requests
    /\ pending_response_intercepts \subseteq Requests
    /\ handler \in [Requests -> HandlerState]
    /\ session \in [Requests -> Sessions \cup {NoSession}]
    /\ category \in [Requests -> Categories \cup {"Api"}]
    /\ should_intercept \in [Requests -> BOOLEAN]
    /\ decision \in [Requests -> Decision]
    /\ response_decision \in [Requests -> Decision]
    /\ upstream \in [Requests -> Nat]
    /\ captured \subseteq Requests
    /\ replied \subseteq Requests
    /\ operator \in [Operators -> OperatorState]
    /\ \A o \in Operators : operator[o].at # "idle" => operator[o].session \in Sessions

(* Nobody waits for ever by construction: a task that awaits a decision    *)
(* still has its entry in the map the operator's routes look it up in      *)
(* (handler.rs inserts before it awaits, main.rs removes only to decide).  *)
HeldIsReachable ==
    \A r \in Requests :
        /\ handler[r] = "held" /\ decision[r] = "none" => r \in pending_intercepts
        /\ handler[r] = "held_response" /\ response_decision[r] = "none"
               => r \in pending_response_intercepts

(* A request the supervisor dropped never reaches the provider, whatever   *)
(* mode switches, disconnects and other decisions surround the drop.       *)
DropIsFinal ==
    \A r \in Requests : decision[r] = "drop" => upstream[r] = 0

(* The provider receives a request at most once: only a connect error,     *)
(* which proves it has not been delivered, is retried.                     *)
AtMostOnceUpstream == \A r \in Requests : upstream[r] <= 1

(* A request that met the gate in manual mode is sent only after its hold  *)
(* ended, by a decision or by its entry being discarded.                   *)
HeldUntilReleased ==
    \A r \in Requests :
        should_intercept[r] /\ upstream[r] > 0 => decision[r] \in {"forward", "closed"}

(* Of the requests the provider received, all that came to rest are in the *)
(* capture log but those whose attempt brought no response, the relayed    *)
(* WebSockets, and those whose client left before it got any of the answer *)
(* (their future is dropped with the row).  So what a client has seen, if  *)
(* only the head of a stream it then abandoned, is in the log.             *)
DeliveriesAreCaptured ==
    \A r \in Requests :
        handler[r] \in Finished /\ upstream[r] > 0 /\ r \notin captured
        => \/ handler[r] \in {"failed", "tunnel"}
           \/ handler[r] = "cancelled" /\ r \notin replied

(* The channels are one-shot: no second decision, drain or disconnect      *)
(* revises a decision once made.                                           *)
DecisionsAreFinal ==
    [][\A r \in Requests :
          /\ decision[r] # "none" => decision'[r] = decision[r]
          /\ response_decision[r] # "none" => response_decision'[r] = response_decision[r]]_vars

(* Without a supervisor's decision a held request of a session is released *)
(* only by a switch of that very session to Auto; a switch of another      *)
(* session never lets it go.                                               *)
SwitchReleasesOwnSession ==
    [][\A r \in Requests :
          decision[r] # decision'[r] /\ operator # operator'
          => \E o \in Operators : /\ operator[o].at = "drain"
                                  /\ operator[o].session = session[r]]_vars

(* Once its body has arrived, a request's task ends, comes to rest in a    *)
(* map where the supervisor can decide it, or streams to a client for as   *)
(* long as that reads.  In particular a decided request leaves its hold,   *)
(* whichever of the two ways the decision came about, and the pass-through *)
(* task of a stream that is over, or whose client left, gets to its row.   *)
AwaitingSupervisor(r) ==
    \/ r \in pending_intercepts /\ handler[r] = "held"
    \/ r \in pending_response_intercepts /\ handler[r] = "held_response"

EveryRequestSettles ==
    \A r \in Requests :
        /\ handler[r] = "transform" \/ decision[r] # "none" \/ response_decision[r] # "none"
           ~> handler[r] \in Finished \cup {"streaming"} \/ AwaitingSupervisor(r)
        /\ handler[r] \in {"ended", "orphaned"} ~> handler[r] \in Finished

(* The refinement of SupervisedRequest.  The maps, the modes and the       *)
(* response gate are hidden; what remains of a task is its stage.          *)
StageOf(state) ==
    CASE state \in {"idle", "received", "transform", "gate"} -> "new"
      [] state = "held" -> "held"
      [] state \in {"sending", "retrying"} -> "released"
      [] state \in {"responded", "streaming", "buffered", "held_response", "logging",
                     "replying"} -> "delivered"
      [] state \in {"ended", "answered"} -> "answered"
      [] state = "tunnel" -> "relayed"
      [] state \in Refused -> "refused"
      [] state \in {"orphaned", "cancelled"} -> "abandoned"

Abstract == INSTANCE SupervisedRequest WITH
    stage <- [r \in Requests |-> StageOf(handler[r])],
    gated <- should_intercept,
    verdict <- decision,
    deliveries <- upstream

(* Every behaviour of the gate is one SupervisedRequest allows.            *)
ImplementsSupervisedRequest == Abstract!Spec

-----------------------------------------------------------------------------
(* What the documentation says and the code does not do.                   *)

(* handler.rs:1167: after a switch to Auto the response must not be held,  *)
(* or it gets stuck with nobody to forward it.                             *)
AutoReleasesResponses ==
    \A r \in Requests :
        handler[r] = "held_response" /\ ~Manual(r)
        ~> handler[r] # "held_response" \/ Manual(r)
=============================================================================
