------------------------------- MODULE MCParts -------------------------------
(* Six small parts of the server that share no state, checked in one run:  *)
(* a behaviour picks one and the others keep their first state.            *)
EXTENDS ProxyConfig, ApiKeys, PlanEdits, RequestRewrite, AdaptiveQuality, Timestamps

CONSTANTS c1, c2, q1, q2, e1, e2, p1, p2, p3, r1, r2

VARIABLE focus

MCCalls == {c1, c2}
MCRequests == {q1, q2}
MCEditors == {e1, e2}
MCPosts == {p1, p2, p3}
MCBodies == {r1, r2}
MCConfigs == {{}, Overrides, {"pure"}, {"strip system"}, {"pure", "strip system"},
              {"flash model", "temperature", "strip tools"},
              {"other model", "max tokens", "set thinking"}}

configParts == <<configVars, keysVars, editsVars, bodyVars>>
partsVars == <<focus, configParts, vars, timestampVars>>

\* What the parts that are not looked at start with; the requests of a behaviour
\* have one client, which does not outlive the server, and the second one a
\* session.  A directory still leads to the session of the earlier run.
PartsInit ==
    /\ focus \in {"config", "keys", "edits", "body", "quality", "timestamps"}
    /\ IF focus = "config" THEN TRUE ELSE modes = [c \in Calls |-> "auto"]
    /\ IF focus = "edits" THEN payload \in [Posts -> Payloads] /\ payload[p3] = "edits"
       ELSE payload = [p \in Posts |-> "null"] /\ editsFile = NoFile
    /\ IF focus = "body"
       THEN \E x \in {y \in ClientRequests : y.session \notin Former}, s \in Managed :
               original = [r \in Bodies |-> IF r = r1 THEN x ELSE [x EXCEPT !.session = s]]
       ELSE \E x \in {CHOOSE x \in ClientRequests : TRUE} : original = [r \in Bodies |-> x]
    /\ entries = Former
    /\ ConfigInit /\ KeysInit /\ EditsInit /\ BodyInit /\ Init /\ TimestampsInit

PartsNext ==
    \/ focus = "config" /\ ConfigNext
          /\ UNCHANGED <<focus, keysVars, editsVars, bodyVars, vars, timestampVars>>
    \/ focus = "keys" /\ KeysNext
          /\ UNCHANGED <<focus, configVars, editsVars, bodyVars, vars, timestampVars>>
    \/ focus = "edits" /\ EditsNext
          /\ UNCHANGED <<focus, configVars, keysVars, bodyVars, vars, timestampVars>>
    \/ focus = "body" /\ BodyNext
          /\ UNCHANGED <<focus, configVars, keysVars, editsVars, vars, timestampVars>>
    \/ focus = "quality" /\ Next /\ UNCHANGED <<focus, configParts, timestampVars>>
    \/ focus = "timestamps" /\ NextDay /\ UNCHANGED <<focus, configParts, vars>>

PartsSpec == PartsInit /\ [][PartsNext]_partsVars
=============================================================================
