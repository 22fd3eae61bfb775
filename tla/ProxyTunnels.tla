---------------------------- MODULE ProxyTunnels ----------------------------
(***************************************************************************)
(* One connection the proxy passes through rather than handles: a CONNECT  *)
(* tunnel (proxy/handler.rs, connect_handler and what it spawns) or an     *)
(* upgraded WebSocket (handle_websocket_proxy and proxy/websocket.rs),     *)
(* from the checks of proxy/modes.rs and proxy/rules.rs over the dial and  *)
(* the TLS interception to the copying, parsing or relaying of what the    *)
(* two ends send, while an operator changes the session's settings.        *)
(*                                                                         *)
(* What an end sends is a sequence of items <<number, frame>>: a frame of  *)
(* a WebSocket, an HTTP message, or bytes one read returns.  An HTTP       *)
(* message whose body breaks off is an item "cut"; "empty" is what becomes *)
(* of it where HTTP is parsed.  Left out: the text of log rows and its     *)
(* redaction, certificates, byte counts, and the eviction of the oldest    *)
(* row of the capture log.                                                 *)
(***************************************************************************)
EXTENDS Naturals, Sequences, SequencesExt

CONSTANTS
    Hosts,      \* host names that occur, as labels from the right
    RulePool,   \* network rules the operator may add
    Modes,      \* proxy modes the operator may set
    MaxItems,   \* bound: what each end sends
    MaxEdits    \* bound: the operator's changes

Directions == {"out", "in"}              \* client to target, target to client
From(d) == IF d = "out" THEN "client" ELSE "target"
To(d) == IF d = "out" THEN "target" ELSE "client"

ASSUME TunnelAssumption ==
    /\ MaxItems \in Nat /\ MaxEdits \in Nat
    /\ Modes \subseteq {"auto", "manual", "custom", "pure", "lockdown"}
    /\ \A r \in RulePool : r.priority \in Nat /\ r.enabled \in BOOLEAN

VARIABLES
    conn,      \* what the client asked for; fixed
    mode,      \* proxy_modes of the session
    rules,     \* network_rules of the session, in the order they were added
    injecting, \* whether the session has prompt text to inject
    edits,     \* how many changes the operator made
    pc,        \* where the task of the connection stands
    sent,      \* sent[d]: what the sending end wrote
    taken,     \* taken[d]: how much of it the proxy has read
    hand,      \* hand[d]: an item the relay has read and not passed on
    got,       \* got[d]: what the receiving end was given
    over,      \* directions whose copy has returned
    broken,    \* whether a read or a write has failed
    closed,    \* ends that are gone
    rows,      \* the rows of the capture log
    permitted  \* history: checks the settings would have passed since the arrival

settings == <<mode, rules, injecting, edits>>
streams == <<sent, taken, hand, got, over, broken, closed>>
vars == <<conn, settings, pc, streams, rows, permitted>>

-----------------------------------------------------------------------------
(* Classification and rules.                                               *)

\* classify.rs, RULES: domain patterns as labels from the right.
Table == <<
    <<<<"com", "chatgpt", "ab">>, "telemetry">>, <<<<"com", "datadoghq">>, "telemetry">>,
    <<<<"com", "googleapis", "play">>, "telemetry">>, <<<<"io", "segment">>, "telemetry">>,
    <<<<"io", "sentry">>, "telemetry">>, <<<<"net", "statsigapi">>, "telemetry">>,
    <<<<"com", "amplitude">>, "telemetry">>, <<<<"com", "googleapis", "oauth2">>, "auth">>,
    <<<<"com", "google", "accounts">>, "auth">>, <<<<"ai", "claude", "downloads">>, "update">>,
    <<<<"org", "electronjs", "update">>, "update">>, <<<<"org", "npmjs", "registry">>, "update">>,
    <<<<"com", "githubusercontent", "raw">>, "git">>, <<<<"com", "github">>, "git">>,
    <<<<"com", "gitlab">>, "git">>, <<<<"org", "bitbucket">>, "git">>,
    <<<<"com", "anthropic", "api">>, "api">>, <<<<"com", "anthropic", "mcp-proxy">>, "api">>,
    <<<<"com", "googleapis", "cloudcode-pa">>, "api">>, <<<<"com", "chatgpt">>, "api">> >>

\* host == pattern, or host ends with a dot and the pattern.
Covers(pattern, host) == IsPrefix(pattern, host)

\* classify_request; analytics is the Codex analytics path.
Classify(host, analytics) ==
    LET hits == SelectSeq(Table, LAMBDA row : Covers(row[1], host))
    IN  IF analytics /\ host = <<"com", "chatgpt">> THEN "telemetry"
        ELSE IF hits = <<>> THEN "unknown" ELSE hits[1][2]

Category == Classify(conn.host, conn.analytics)

ShouldBlock(m, category) ==
    \/ m = "lockdown" /\ category # "api"
    \/ m = "pure" /\ category = "telemetry"

\* A rule's pattern is <<>> for none, or [glob, labels].
RuleMatches(r, host, category) ==
    /\ \/ r.pattern = <<>>
       \/ r.pattern # <<>> /\ IF r.pattern.glob THEN Covers(r.pattern.labels, host)
                              ELSE r.pattern.labels = host
    /\ r.category \in {"any", category}

\* Mutation: the rules are tried in the order they were added.
Evaluate_Unsorted(rs, host, category) ==
    LET hits == SelectSeq(rs, LAMBDA r : r.enabled /\ RuleMatches(r, host, category))
    IN  IF hits = <<>> THEN "allow" ELSE hits[1].action

\* Sorting by priority is stable: among equals the rule added first wins.
Evaluate(rs, host, category) ==
    LET hits == SelectSeq(rs, LAMBDA r : r.enabled /\ RuleMatches(r, host, category))
        Better(a, b) == IF b.priority < a.priority THEN b ELSE a
    IN  IF hits = <<>> THEN "allow" ELSE FoldLeft(Better, hits[1], hits).action

-----------------------------------------------------------------------------
(* What the settings should mean, independently of the code above: the      *)
(* most specific row decides, and of the matching rules the one no other   *)
(* precedes.                                                               *)
MostSpecific(host, analytics, category) ==
    LET Hit(i) == Covers(Table[i][1], host)
    IN  IF analytics /\ host = <<"com", "chatgpt">> THEN category = "telemetry"
        ELSE \/ \E i \in DOMAIN Table :
                    /\ Hit(i) /\ Table[i][2] = category
                    /\ \A j \in DOMAIN Table : Hit(j) => Len(Table[j][1]) <= Len(Table[i][1])
             \/ category = "unknown" /\ \A i \in DOMAIN Table : ~Hit(i)

ModeAllows(m) ==
    /\ m = "lockdown" => MostSpecific(conn.host, conn.analytics, "api")
    /\ m = "pure" => ~MostSpecific(conn.host, conn.analytics, "telemetry")

RulesAllow(rs) ==
    LET Applies(i) == rs[i].enabled /\ \E c \in {"api", "telemetry", "auth", "update", "git", "unknown"} :
                          /\ MostSpecific(conn.host, conn.analytics, c)
                          /\ RuleMatches(rs[i], conn.host, c)
        Precedes(j, i) == \/ rs[j].priority < rs[i].priority
                          \/ rs[j].priority = rs[i].priority /\ j < i
    IN  \A i \in DOMAIN rs :
            Applies(i) /\ rs[i].action = "block" => \E j \in DOMAIN rs : Applies(j) /\ Precedes(j, i)

\* The checks that would pass under these settings; history only.
Passing(m, rs) ==
    (IF ~conn.attributed \/ ModeAllows(m) THEN {"mode"} ELSE {}) \cup
    (IF ~conn.attributed \/ RulesAllow(rs) THEN {"rules"} ELSE {})

-----------------------------------------------------------------------------
\* attributed: the Proxy-Authorization header or the /s/ prefix names a session.
Requests ==
    [kind : {"connect"}, host : Hosts, analytics : {FALSE}, attributed : BOOLEAN,
     protocol : {"http", "h2", "other"}, ca : BOOLEAN]
    \cup [kind : {"websocket"}, host : {<<"com", "chatgpt">>}, analytics : BOOLEAN,
          attributed : BOOLEAN, protocol : {"other"}, ca : {FALSE}]

Init ==
    /\ conn \in Requests
    /\ mode = "auto" /\ rules = <<>> /\ injecting = FALSE /\ edits = 0
    /\ pc = "none"
    /\ sent = [d \in Directions |-> <<>>] /\ taken = [d \in Directions |-> 0]
    /\ hand = [d \in Directions |-> <<>>] /\ got = [d \in Directions |-> <<>>]
    /\ over = {} /\ broken = FALSE /\ closed = {}
    /\ rows = <<>> /\ permitted = {}

-----------------------------------------------------------------------------
(* The operator's requests, each one write of one store of the connection's *)
(* session.  Only changes that the task may still read are made: rules are *)
(* read for CONNECT only, they and the mode before the dial only.          *)
Edit(m, rs, inj) ==
    /\ conn.attributed /\ edits < MaxEdits
    /\ edits' = edits + 1 /\ mode' = m /\ rules' = rs /\ injecting' = inj
    /\ permitted' = IF pc = "none" THEN permitted ELSE permitted \cup Passing(m, rs)
    /\ UNCHANGED <<conn, pc, streams, rows>>

Unchecked == pc \in {"none", "arrived", "passed"}
RulesMatter == conn.kind = "connect" /\ Unchecked

SetMode == Unchecked /\ \E m \in Modes \ {mode} : Edit(m, rules, injecting)
SetRules == RulesMatter /\ \E rs \in {<<>>} \cup {<<r>> : r \in RulePool} : Edit(mode, rs, injecting)
AddRule == RulesMatter /\ \E r \in RulePool : Edit(mode, Append(rules, r), injecting)
RemoveRule ==
    /\ RulesMatter
    /\ \E r \in ToSet(rules) : Edit(mode, SelectSeq(rules, LAMBDA q : q.id # r.id), injecting)
SetInject == conn.kind = "websocket" /\ Edit(mode, rules, ~injecting)
Operator == SetMode \/ SetRules \/ AddRule \/ RemoveRule \/ SetInject

-----------------------------------------------------------------------------
(* The two ends.  An end closes its connection whole.  A binary frame is   *)
(* treated as text is, a pong as a ping.                                   *)
Frames == IF conn.kind = "websocket" THEN {"create", "text", "ping", "close"}
          ELSE {"data"}

Live == pc \in {"accepting", "connecting", "sniffing", "copy", "prefixed", "http", "forwarded", "read",
                "logged", "relay"}

\* A target that speaks HTTP answers requests it was given.
MaySend(d) ==
    /\ Live /\ From(d) \notin closed /\ Len(sent[d]) < MaxItems
    /\ \A i \in DOMAIN sent[d] : sent[d][i][2] # "close"
    /\ d = "in" /\ conn.protocol = "http" => Len(sent[d]) < Len(got["out"])

Sends(d, f) == sent' = [sent EXCEPT ![d] = Append(@, <<Len(@) + 1, f>>)]

EndSends(d) ==
    /\ MaySend(d)
    /\ \E f \in Frames : Sends(d, f)
    /\ UNCHANGED <<conn, settings, pc, taken, hand, got, over, broken, closed, rows, permitted>>

\* The connection breaks off within the body of an HTTP message.
EndBreaksOff(d) ==
    /\ MaySend(d) /\ conn.kind = "connect" /\ conn.protocol = "http"
    /\ Sends(d, "cut")
    /\ closed' = closed \cup {From(d)}
    /\ UNCHANGED <<conn, settings, pc, taken, hand, got, over, broken, rows, permitted>>

EndCloses(e) ==
    /\ Live /\ e \notin closed
    /\ closed' = closed \cup {e}
    /\ UNCHANGED <<conn, settings, pc, sent, taken, hand, got, over, broken, rows, permitted>>

-----------------------------------------------------------------------------
(* connect_handler: mode, rules, delay, dial, upgrade.                     *)
Log(row) == rows' = Append(rows, row)
Goto(next) == pc' = next

Arrive ==
    /\ pc = "none"
    /\ Goto("arrived")
    /\ permitted' = Passing(mode, rules)
    /\ UNCHANGED <<conn, settings, streams, rows>>

\* Without a session nothing is checked.  A WebSocket meets no rules.
CheckMode ==
    /\ pc = "arrived"
    /\ IF conn.attributed /\ ShouldBlock(mode, Category)
       THEN Goto("refused") /\ Log([what |-> "refused"])
       ELSE Goto(IF conn.kind = "connect" THEN "passed" ELSE "dialing") /\ UNCHANGED rows
    /\ UNCHANGED <<conn, settings, streams, permitted>>

Verdict == IF conn.attributed THEN Evaluate(rules, conn.host, Category) ELSE "allow"

CheckRules ==
    /\ pc = "passed"
    /\ IF Verdict = "block"
       THEN Goto("refused") /\ Log([what |-> "refused"])
       ELSE Goto(IF Verdict = "delay" THEN "delayed" ELSE "dialing") /\ UNCHANGED rows
    /\ UNCHANGED <<conn, settings, streams, permitted>>

DelayElapses ==
    /\ pc = "delayed"
    /\ Goto("dialing")
    /\ UNCHANGED <<conn, settings, streams, rows, permitted>>

\* A target that cannot be reached (502) or an upgrade that fails leaves no row.
DialTunnel ==
    /\ pc = "dialing" /\ conn.kind = "connect"
    /\ \E next \in {"failed", IF conn.ca THEN "accepting" ELSE "copy"} : Goto(next)
    /\ UNCHANGED <<conn, settings, streams, rows, permitted>>

\* The upstream WebSocket is opened before the client's is accepted.
DialWebSocket ==
    /\ pc = "dialing" /\ conn.kind = "websocket"
    /\ \E next \in {"failed", "relay"} : Goto(next)
    /\ UNCHANGED <<conn, settings, streams, rows, permitted>>

-----------------------------------------------------------------------------
(* mitm_tunnel up to the choice of how to carry the data.                  *)

\* The end of a tunnel drops, and so closes, both connections.
End == Goto("ended") /\ closed' = {"client", "target"}

\* A handshake that fails ends the tunnel; its row counts no bytes.
Shakes(next) ==
    /\ \/ End /\ broken' = TRUE /\ Log([what |-> "tunnel"])
       \/ Goto(next) /\ UNCHANGED <<closed, broken, rows>>
    /\ UNCHANGED <<conn, settings, sent, taken, hand, got, over, permitted>>

\* TLS with the client, under a certificate of the local authority for the host.
AcceptClient == pc = "accepting" /\ Shakes("connecting")

\* TLS with the target.  HTTP/2 is not parsed.
ConnectToTarget == pc = "connecting" /\ Shakes(IF conn.protocol = "h2" THEN "copy" ELSE "sniffing")

\* At most eight bytes are read to recognise a method.  Nothing within two seconds,
\* or an error, means plain copying; an end of file is no HTTP either.
Sniff ==
    /\ pc = "sniffing"
    /\ \/ /\ sent["out"] # <<>> \/ "client" \in closed
          /\ Goto(IF sent["out"] # <<>> /\ conn.protocol = "http" THEN "http" ELSE "prefixed")
       \/ sent["out"] = <<>> /\ Goto("copy")
    /\ UNCHANGED <<conn, settings, streams, rows, permitted>>

-----------------------------------------------------------------------------
(* Plain copying, each direction by itself; the tunnel ends when both have. *)
Copying == pc \in {"copy", "prefixed"}

\* A client that spoke something else than HTTP is joined from a cursor over the
\* bytes read so far and the connection's writing half: nothing follows them.
Visible(d) == IF pc = "prefixed" /\ d = "out" /\ sent[d] # <<>> THEN 1 ELSE Len(sent[d])

Copy(d) ==
    /\ Copying /\ d \notin over
    /\ taken[d] < Visible(d)
    /\ taken' = [taken EXCEPT ![d] = @ + 1]
    /\ IF To(d) \in closed
       THEN over' = over \cup {d} /\ broken' = TRUE /\ UNCHANGED got
       ELSE got' = [got EXCEPT ![d] = Append(@, sent[d][taken[d] + 1])] /\ UNCHANGED <<over, broken>>
    /\ UNCHANGED <<conn, settings, pc, sent, hand, closed, rows, permitted>>

\* End of file, or a read from a connection that broke off.
CopyReturns(d) ==
    /\ Copying /\ d \notin over
    /\ \/ /\ taken[d] = Visible(d)
          /\ From(d) \in closed \/ (pc = "prefixed" /\ d = "out")
          /\ UNCHANGED broken
       \/ From(d) \in closed /\ broken' = TRUE
    /\ over' = over \cup {d}
    /\ UNCHANGED <<conn, settings, pc, sent, taken, hand, got, closed, rows, permitted>>

\* Mutation: the first direction to return ends the tunnel.
CopyJoined_Select ==
    /\ Copying /\ over # {}
    /\ End /\ Log([what |-> "tunnel"])
    /\ UNCHANGED <<conn, settings, sent, taken, hand, got, over, broken, permitted>>

\* tokio::join!, then both writing halves are shut down and the row is written.
CopyJoined ==
    /\ Copying /\ over = Directions
    /\ End /\ Log([what |-> "tunnel"])
    /\ UNCHANGED <<conn, settings, sent, taken, hand, got, over, broken, permitted>>

-----------------------------------------------------------------------------
(* HTTP/1.1, one request after the other.                                  *)
Reads(d) == taken' = [taken EXCEPT ![d] = @ + 1]
Next1(d) == sent[d][taken[d] + 1]
Waits(d) == taken[d] < Len(sent[d])

\* A body is collected whole; if that fails, it is taken for an empty one, and the
\* message is treated as any other (unwrap_or_default).
Collected(item) == IF item[2] = "cut" THEN <<item[1], "empty">> ELSE item

\* Sending to a target that is gone fails the service, and with it the connection.
HttpForward ==
    /\ pc = "http" /\ Waits("out")
    /\ Reads("out")
    /\ IF "target" \in closed
       THEN End /\ broken' = TRUE /\ UNCHANGED got
       ELSE /\ got' = [got EXCEPT !["out"] = Append(@, Collected(Next1("out")))]
            /\ Goto("forwarded") /\ UNCHANGED <<closed, broken>>
    /\ UNCHANGED <<conn, settings, sent, hand, over, rows, permitted>>

HttpReads ==
    /\ pc = "forwarded" /\ Waits("in")
    /\ Reads("in")
    /\ hand' = [hand EXCEPT !["in"] = <<Collected(Next1("in"))>>]
    /\ Goto("read")
    /\ UNCHANGED <<conn, settings, sent, got, over, broken, closed, rows, permitted>>

HttpLogs ==
    /\ pc = "read"
    /\ Log([what |-> "http", item |-> hand["in"][1]])
    /\ Goto("logged")
    /\ UNCHANGED <<conn, settings, streams, permitted>>

HttpAnswers ==
    /\ pc = "logged"
    /\ got' = [got EXCEPT !["in"] = Append(@, hand["in"][1])]
    /\ hand' = [hand EXCEPT !["in"] = <<>>]
    /\ Goto("http")
    /\ UNCHANGED <<conn, settings, sent, taken, over, broken, closed, rows, permitted>>

\* Mutation: a closed connection is noticed between requests only.
HttpEnds_Idle ==
    /\ "client" \in closed /\ pc = "http"
    /\ End
    /\ UNCHANGED <<conn, settings, sent, taken, hand, got, over, broken, rows, permitted>>

\* The client leaves, whatever is under way; or the target does before it answered.
HttpEnds ==
    /\ \/ "client" \in closed /\ pc \in {"http", "forwarded", "read", "logged"}
       \/ "target" \in closed /\ pc = "forwarded" /\ ~Waits("in")
    /\ End
    /\ UNCHANGED <<conn, settings, sent, taken, hand, got, over, broken, rows, permitted>>

-----------------------------------------------------------------------------
(* relay_frames: a task per direction, each with one frame at a time.      *)
Logged(f) == f # "ping" /\ f # "close"

\* transform_outgoing_text_frame
Transform(f) == IF f = "create" /\ conn.attributed /\ injecting THEN "create+" ELSE f

RelayTakes(d) ==
    /\ pc = "relay" /\ hand[d] = <<>> /\ Waits(d)
    /\ Reads(d)
    /\ LET f == IF d = "out" THEN Transform(Next1(d)[2]) ELSE Next1(d)[2]
       IN  hand' = [hand EXCEPT ![d] = <<[item |-> <<Next1(d)[1], f>>, due |-> Logged(f)]>>]
    /\ UNCHANGED <<conn, settings, pc, sent, got, over, broken, closed, rows, permitted>>

RelayLogs(d) ==
    /\ pc = "relay" /\ hand[d] # <<>> /\ hand[d][1].due
    /\ Log([what |-> "frame", item |-> <<d, hand[d][1].item>>])
    /\ hand' = [hand EXCEPT ![d][1].due = FALSE]
    /\ UNCHANGED <<conn, settings, pc, sent, taken, got, over, broken, closed, permitted>>

\* A close frame, or a send that fails, ends the direction and so the relay.
RelaySends(d) ==
    /\ pc = "relay" /\ hand[d] # <<>> /\ ~hand[d][1].due
    /\ hand' = [hand EXCEPT ![d] = <<>>]
    /\ IF To(d) \in closed
       THEN End /\ broken' = TRUE /\ UNCHANGED got
       ELSE /\ got' = [got EXCEPT ![d] = Append(@, hand[d][1].item)]
            /\ IF hand[d][1].item[2] = "close" THEN End ELSE UNCHANGED <<pc, closed>>
            /\ UNCHANGED broken
    /\ UNCHANGED <<conn, settings, sent, taken, over, rows, permitted>>

\* One end has no more to read: select! drops the other direction where it is.
RelayEnds(d) ==
    /\ pc = "relay" /\ hand[d] = <<>> /\ From(d) \in closed /\ ~Waits(d)
    /\ End
    /\ UNCHANGED <<conn, settings, sent, taken, hand, got, over, broken, rows, permitted>>

-----------------------------------------------------------------------------
Proxy ==
    \/ CheckMode \/ CheckRules \/ DelayElapses \/ DialTunnel \/ DialWebSocket
    \/ AcceptClient \/ ConnectToTarget \/ Sniff
    \/ (\E d \in Directions : Copy(d) \/ CopyReturns(d)) \/ CopyJoined
    \/ HttpForward \/ HttpReads \/ HttpLogs \/ HttpAnswers \/ HttpEnds
    \/ \E d \in Directions : RelayTakes(d) \/ RelayLogs(d) \/ RelaySends(d) \/ RelayEnds(d)

Ends == (\E d \in Directions : EndSends(d) \/ EndBreaksOff(d)) \/ (\E e \in {"client", "target"} : EndCloses(e))

Next == Arrive \/ Operator \/ Ends \/ Proxy

\* Ready tasks are polled, timeouts fire and a dial returns; nobody owes a byte.
Spec == Init /\ [][Next]_vars /\ WF_vars(Proxy)
-----------------------------------------------------------------------------
(* connect_handler and proxy_handler check once, before anything is        *)
(* dialled: a connection is opened only if its mode did not forbid the     *)
(* host and no rule in force blocked it, each at some moment since it      *)
(* arrived, by what the settings mean (the most specific pattern, the      *)
(* first of the matching rules by priority and age).                       *)
NothingForbiddenConnects ==
    ~Unchecked /\ pc # "refused" =>
        /\ "mode" \in permitted
        /\ conn.kind = "connect" => "rules" \in permitted

(* Whatever way the data takes, an end receives what the other sent, from  *)
(* the start, in order, without a gap or a repetition: the bytes read to   *)
(* recognise HTTP are put back once.  A message that broke off is passed   *)
(* on where HTTP is parsed, too, but as one whose body is empty.           *)
Becomes(f, g) ==
    \/ g = f
    \/ f = "create" /\ g = "create+"
    \/ f = "cut" /\ g = "empty"

DeliveredInOrder ==
    \A d \in Directions : \A i \in DOMAIN got[d] :
        got[d][i][1] = i /\ Becomes(sent[d][i][2], got[d][i][2])

(* A tunnel that was copied, and whose reads and writes all succeeded, has *)
(* carried everything in both directions, also what an end sent before it  *)
(* left (the joining of both copies is for that); an intercepted client    *)
(* that began with something else than HTTP is the exception (README).     *)
NothingLost ==
    pc = "ended" /\ [what |-> "tunnel"] \in ToSet(rows) /\ ~broken =>
        \A d \in Directions :
            got[d] = sent[d] \/ (conn.ca /\ conn.protocol = "other" /\ d = "out")

(* What a parsed connection hands on was logged before: each answer to an  *)
(* HTTP client, each text or binary frame, with the content that is handed *)
(* on.  (That this is empty where the target's body broke off, the row     *)
(* does not tell.)                                                         *)
EvidencePrecedesDelivery ==
    /\ pc \in {"http", "forwarded", "read", "logged"} =>
           \A i \in DOMAIN got["in"] : [what |-> "http", item |-> got["in"][i]] \in ToSet(rows)
    /\ conn.kind = "websocket" =>
           \A d \in Directions : \A i \in DOMAIN got[d] :
               Logged(got[d][i][2]) => [what |-> "frame", item |-> <<d, got[d][i]>>] \in ToSet(rows)

(* Whatever passes through arrives: in order, whole where it was copied    *)
(* and nothing failed, and never before the row that is to prove it.       *)
DataArrives == DeliveredInOrder /\ NothingLost /\ EvidencePrecedesDelivery

(* Once both ends are gone the task comes to its end.                      *)
TunnelsEnd == closed = {"client", "target"} ~> pc = "ended"
=============================================================================
