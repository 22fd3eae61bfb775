---------------------------- MODULE SessionStore ----------------------------
(***************************************************************************)
(* The message list of the browser (frontend/src/stores/session.ts).  It   *)
(* is fed from four sides that know nothing of each other: the fetch that  *)
(* follows a switch of sessions, the fetch of older messages, events       *)
(* pushed over WebTransport (transport/client.ts), and the optimistic copy *)
(* of what the user just sent.  A set of uuids keeps duplicates out.       *)
(*                                                                         *)
(* <<session, k>> is the k-th uuid the server gave out for a message of a  *)
(* session, which is its k-th message for as long as the cache has each    *)
(* line of its file once and keeps its uuids.  An optimistic copy has a    *)
(* uuid of its own: <<"opt", <<session, k>>>>, the k-th sent to it.        *)
(***************************************************************************)
EXTENDS Naturals, Sequences, FiniteSets, SequencesExt, FiniteSetsExt, Functions

CONSTANTS
    Sessions, Null,
    Claude,       \* sessions whose entries all carry uuids; to any other entry (Codex, Gemini, some
                  \* lines of Claude) the parser gives a new one whenever it reads it
    Limit,        \* page size of a fetch (limit=200)
    Recent,       \* how many events the server replays to a new connection
    MaxLogged,    \* bound: messages logged while the browser is open
    MaxSends,     \* bound: messages the user sends
    MaxSwitches,  \* bound: switches of the active session
    MaxRemade,    \* bound: lines stored once more, sessions parsed anew
    MaxDrops,     \* bound: lost connections
    MaxOlder,     \* bound: fetches of older messages
    MaxTogether   \* bound: all of these together

ASSUME StoreAssumption ==
    /\ Null \notin Sessions /\ "opt" \notin Sessions /\ Claude \subseteq Sessions
    /\ Limit \in Nat \ {0} /\ Recent \in Nat

VARIABLES
    file,       \* file[s]: roles of the messages in the file of s
    log,        \* log[s]: role of the message each uuid of s was given to
    cache,      \* cache[s]: the rows the server has of s, by uuid
    asked,      \* asked[s]: messages the user sent to s that s has not logged yet
    others,     \* others[s]: messages of role "user" in s that nobody sent from here
    recent,     \* the server's buffer of recent events
    wire,       \* events on the current connection
    status,     \* connectionStatus of the transport client
    active, shown, seen,
    optimistic, \* pendingOptimisticUserUuids, a Set in insertion order
    fetches,    \* fetchMessages calls in flight, in the order of their timers
    older,      \* the fetchOlderMessages call in flight
    total, hasMore,
    paged,      \* the session total and hasMore are of (no variable of the code)
    sends,      \* sends[s]: messages the user sent to s
    raced,      \* messages were added to the list while a fetch that replaces it was
                \* under way, a fetch of an earlier visit was past its abort, or a page
                \* was asked for with the paging state of another session
    ahead,      \* an older page brought messages logged after its total was taken
    stray,      \* a switch happened during a fetch of older messages
    remade,     \* the sessions of which a line was stored twice or parsed again under
                \* another uuid
    allowance

vars == <<file, log, cache, asked, others, recent, wire, status, active, shown, seen,
          optimistic, fetches, older, total, hasMore, paged, sends, raced, ahead, stray,
          remade, allowance>>
kept == <<file, log, cache, remade>>
server == <<kept, asked, others, recent>>
view == <<active, shown, seen, optimistic, raced, ahead, stray>>
page == <<older, total, hasMore, paged>>

RoleOf(u) == IF u[1] = "opt" THEN "user" ELSE log[u[1]][u[2]]

\* query_messages_range: at most limit rows ending offset rows before the end.
RowsBefore(s, offset) ==
    LET end == IF offset > Len(cache[s]) THEN 0 ELSE Len(cache[s]) - offset
        start == IF Limit > end THEN 0 ELSE end - Limit
    IN  [rows |-> [i \in 1..(end - start) |-> <<s, cache[s][start + i]>>], more |-> start > 0]

Init ==
    /\ file \in [Sessions -> {<<>>, <<"user", "assistant">>}]
    /\ log = file /\ cache = [s \in Sessions |-> [n \in 1..Len(file[s]) |-> n]] /\ remade = {}
    /\ asked = [s \in Sessions |-> 0] /\ sends = [s \in Sessions |-> 0]
    /\ others = [s \in Sessions |-> IF file[s] = <<>> THEN 0 ELSE 1]
    /\ recent = <<>> /\ wire = <<>> /\ status = "connected"
    /\ active = Null /\ shown = <<>> /\ seen = {} /\ optimistic = <<>>
    /\ fetches = <<>> /\ older = Null /\ total = 0 /\ hasMore = FALSE /\ paged = Null
    /\ raced = FALSE /\ ahead = FALSE /\ stray = FALSE
    /\ allowance = [logged |-> MaxLogged, sends |-> MaxSends, switches |-> MaxSwitches,
                 remade |-> MaxRemade, drops |-> MaxDrops, older |-> MaxOlder, together |-> MaxTogether]

Spend(what) ==
    /\ allowance[what] > 0 /\ allowance.together > 0
    /\ allowance' = [allowance EXCEPT ![what] = @ - 1, !.together = @ - 1]

(***************************************************************************)
(* A line of the file becomes a row of the cache and is pushed, by the     *)
(* watcher; or it becomes a row only, by ensure_warm.  A message of role   *)
(* "user" is one the user sent from here, or what was typed in a terminal, *)
(* the result of a tool, an entry of the tool's own: the server tells      *)
(* nobody which.                                                           *)
(***************************************************************************)
Push(e) ==
    /\ recent' = LET r == Append(recent, e)
                 IN  SubSeq(r, Len(r) - Min({Recent, Len(r)}) + 1, Len(r))
    /\ wire' = IF status = "connected" THEN Append(wire, e) ELSE wire

Comes(s, role) ==
    \/ /\ role = "assistant" /\ UNCHANGED <<asked, others>>
    \/ /\ role = "user" /\ asked[s] > 0
       /\ asked' = [asked EXCEPT ![s] = @ - 1] /\ UNCHANGED others
    \/ /\ role = "user"
       /\ others' = [others EXCEPT ![s] = @ + 1] /\ UNCHANGED asked

ServerLogs(s, role, pushed) ==
    /\ Spend("logged")
    /\ Comes(s, role)
    /\ file' = [file EXCEPT ![s] = Append(@, role)]
    /\ log' = [log EXCEPT ![s] = Append(@, role)]
    /\ cache' = [cache EXCEPT ![s] = Append(@, Len(log[s]) + 1)]
    /\ IF pushed THEN Push(<<s, Len(log[s]) + 1>>) ELSE UNCHANGED <<recent, wire>>
    /\ UNCHANGED <<remade, status, view, fetches, page, sends>>

\* The watcher and ensure_warm both read the n-th line, each storing a row of it.
StoredAgain(s, n) ==
    LET k == IF s \in Claude THEN n ELSE Len(log[s]) + 1 IN
    /\ Spend("remade")
    /\ log' = IF s \in Claude THEN log ELSE [log EXCEPT ![s] = Append(@, file[s][n])]
    /\ cache' = [cache EXCEPT ![s] = Append(@, k)]
    /\ remade' = remade \cup {s}
    /\ Push(<<s, k>>)
    /\ UNCHANGED <<file, asked, others, status, view, fetches, page, sends>>

\* Evicted, or found changed (Codex, Gemini), the session is parsed from the beginning.
ParsedAnew(s) ==
    LET first == IF s \in Claude THEN 0 ELSE Len(log[s]) IN
    /\ Spend("remade")
    /\ log' = IF s \in Claude THEN log ELSE [log EXCEPT ![s] = @ \o file[s]]
    /\ cache' = [cache EXCEPT ![s] = [n \in 1..Len(file[s]) |-> first + n]]
    /\ remade' = IF s \in Claude THEN remade ELSE remade \cup {s}
    /\ UNCHANGED <<file, asked, others, recent, wire, status, view, fetches, page, sends>>

(***************************************************************************)
(* The connection.  The client retries by itself; a new connection starts  *)
(* with the recent events, which the browser may have had before.          *)
(***************************************************************************)
ConnectionCloses ==
    /\ status = "connected" /\ Spend("drops")
    /\ status' = "disconnected" /\ wire' = <<>>
    /\ UNCHANGED <<server, view, fetches, page, sends>>

Reconnects ==
    \/ /\ status = "disconnected"        \* the backoff timer fires
       /\ status' = "connecting" /\ UNCHANGED wire
       /\ UNCHANGED <<server, view, fetches, page, sends, allowance>>
    \/ /\ status = "connecting"          \* transport.ready
       /\ status' = "connected" /\ wire' = recent
       /\ UNCHANGED <<server, view, fetches, page, sends, allowance>>

(***************************************************************************)
(* addMessage.                                                             *)
(***************************************************************************)
Appended(u) == /\ seen' = seen \cup {u}
               /\ shown' = Append(shown, u)

\* A known uuid is skipped; a user message from the server is taken for the echo of
\* the oldest optimistic one, if there is one.
AddMessage(u) ==
    IF u \in seen THEN UNCHANGED <<seen, shown, optimistic>>
    ELSE IF RoleOf(u) = "user" /\ optimistic # <<>> /\ u[1] # "opt"
         THEN /\ optimistic' = Tail(optimistic)
              /\ seen' = seen \cup {u}
              /\ UNCHANGED shown
         ELSE Appended(u) /\ UNCHANGED optimistic

UserSends ==
    /\ active # Null /\ Spend("sends")
    /\ LET u == <<"opt", <<active, sends[active] + 1>>>>
       IN  /\ optimistic' = Append(optimistic, u)
           /\ Appended(u)
    /\ sends' = [sends EXCEPT ![active] = @ + 1]
    /\ asked' = [asked EXCEPT ![active] = @ + 1]
    /\ UNCHANGED <<kept, others, recent, wire, status, active, raced, ahead, stray, fetches, page>>

Fetching == \E i \in DOMAIN fetches : fetches[i].s = active

\* handleEvent: an event of the active session is added, any other only counted.
Delivers ==
    /\ wire # <<>>
    /\ wire' = Tail(wire)
    /\ LET u == Head(wire) IN
         IF u[1] = active
         THEN /\ AddMessage(u)
              /\ raced' = (raced \/ Fetching)
              /\ UNCHANGED <<active, ahead, stray>>
         ELSE UNCHANGED view
    /\ UNCHANGED <<server, status, fetches, page, sends, allowance>>

(***************************************************************************)
(* setActiveSession, and fetchMessages that it starts.  The abort reaches  *)
(* a fetch until its body has been read; from then on only the comparison  *)
(* with the active session can still stop it.                              *)
(***************************************************************************)
Aborted == [i \in DOMAIN fetches |-> [fetches[i] EXCEPT !.aborted = TRUE]]
PastAbort(s) == \E i \in DOMAIN fetches : fetches[i].s = s /\ fetches[i].phase = "timer"

\* Mutation: the uuids of the session left behind are kept.
SetActiveSession_KeepsSeen(s) ==
    /\ s # active /\ Spend("switches")
    /\ active' = s /\ shown' = <<>>
    /\ raced' = PastAbort(s) /\ ahead' = FALSE /\ stray' = (older # Null)
    /\ fetches' = Append(Aborted, [s |-> s, phase |-> "net", rows |-> <<>>, total |-> 0,
                                   more |-> FALSE, aborted |-> FALSE])
    /\ UNCHANGED <<server, wire, status, seen, optimistic, page, sends>>

SetActiveSession(s) ==
    /\ s # active /\ Spend("switches")
    /\ active' = s /\ shown' = <<>> /\ seen' = {}
    /\ raced' = PastAbort(s) /\ ahead' = FALSE /\ stray' = (older # Null)
    /\ fetches' = Append(Aborted, [s |-> s, phase |-> "net", rows |-> <<>>, total |-> 0,
                                   more |-> FALSE, aborted |-> FALSE])
    /\ UNCHANGED <<server, wire, status, optimistic, page, sends>>

\* The server answers with the last page.
FetchAnswered(i) ==
    /\ fetches[i].phase = "net"
    /\ LET s == fetches[i].s  r == RowsBefore(s, 0)
       IN  fetches' = [fetches EXCEPT ![i] = [@ EXCEPT !.phase = "body", !.rows = r.rows,
                                                       !.total = Len(cache[s]), !.more = r.more]]
    /\ UNCHANGED <<server, wire, status, view, page, sends, allowance>>

\* The body is read: aborted, or stale, or handed to a timer of 0 ms.
FetchArrives(i) ==
    /\ fetches[i].phase = "body"
    /\ fetches' = IF fetches[i].aborted \/ fetches[i].s # active
                  THEN RemoveAt(fetches, i)
                  ELSE [fetches EXCEPT ![i].phase = "timer"]
    /\ UNCHANGED <<server, wire, status, view, page, sends, allowance>>

FetchFails(i) ==
    /\ fetches[i].phase \in {"net", "body"}
    /\ fetches' = RemoveAt(fetches, i)
    /\ UNCHANGED <<server, wire, status, view, page, sends, allowance>>

\* Mutation: no comparison with the active session after the timer.
FetchApplies_Unchecked(i) ==
    /\ fetches[i].phase = "timer"
    /\ \A j \in 1..(i - 1) : fetches[j].phase # "timer"
    /\ hasMore' = fetches[i].more /\ total' = fetches[i].total /\ paged' = fetches[i].s
    /\ shown' = fetches[i].rows
    /\ seen' = seen \cup Range(fetches[i].rows)
    /\ fetches' = RemoveAt(fetches, i)
    /\ UNCHANGED <<server, wire, status, active, optimistic, raced, ahead, stray, older, sends,
                   allowance>>

\* Timers fire in their order.  The paging state is taken over even if the rows are
\* stale by now; the list is replaced, not merged.
FetchApplies(i) ==
    /\ fetches[i].phase = "timer"
    /\ \A j \in 1..(i - 1) : fetches[j].phase # "timer"
    /\ hasMore' = fetches[i].more /\ total' = fetches[i].total /\ paged' = fetches[i].s
    /\ IF fetches[i].s = active
       THEN /\ shown' = fetches[i].rows
            /\ seen' = seen \cup Range(fetches[i].rows)
       ELSE UNCHANGED <<shown, seen>>
    /\ fetches' = RemoveAt(fetches, i)
    /\ UNCHANGED <<server, wire, status, active, optimistic, raced, ahead, stray, older, sends,
                   allowance>>

(***************************************************************************)
(* fetchOlderMessages, called when the list is scrolled to its top.        *)
(***************************************************************************)
\* The offset is total - messages.length + messages.length.
OlderStarts ==
    /\ active # Null /\ older = Null /\ hasMore /\ Spend("older")
    /\ older' = [s |-> active, offset |-> total, phase |-> "net", rows |-> <<>>, more |-> FALSE]
    /\ raced' = (raced \/ paged # active)
    /\ UNCHANGED <<server, wire, status, active, shown, seen, optimistic, ahead, stray, fetches,
                   total, hasMore, paged, sends>>

OlderAnswered ==
    /\ older # Null /\ older.phase = "net"
    /\ LET r == RowsBefore(older.s, older.offset)
       IN  older' = [older EXCEPT !.phase = "body", !.rows = r.rows, !.more = r.more]
    /\ UNCHANGED <<server, wire, status, view, fetches, total, hasMore, paged, sends,
                   allowance>>

\* What is new of a page.
Unseen(rows) ==
    FlattenSeq([i \in DOMAIN rows |-> IF rows[i] \in seen THEN <<>> ELSE <<rows[i]>>])

\* An empty page ends the paging; otherwise what is new is put in front, of whatever
\* session the list shows by now.
OlderApplies ==
    /\ older # Null /\ older.phase = "body"
    /\ older' = Null
    /\ hasMore' = (older.more /\ older.rows # <<>>)
    /\ shown' = Unseen(older.rows) \o shown
    /\ seen' = seen \cup Range(older.rows)
    /\ raced' = (raced \/ Fetching)
    /\ ahead' = (ahead \/ \E u \in Range(older.rows) : u[2] > older.offset)
    /\ UNCHANGED <<server, wire, status, active, optimistic, stray, fetches, total,
                   paged, sends, allowance>>

OlderFails ==
    /\ older # Null
    /\ older' = Null
    /\ UNCHANGED <<server, wire, status, view, fetches, total, hasMore, paged, sends,
                   allowance>>

Next ==
    \/ \E s \in Sessions :
         \/ \E r \in {"user", "assistant"}, pushed \in BOOLEAN : ServerLogs(s, r, pushed)
         \/ \E n \in DOMAIN file[s] : StoredAgain(s, n)
         \/ ParsedAnew(s)
         \/ SetActiveSession(s)
    \/ ConnectionCloses \/ Reconnects \/ Delivers \/ UserSends
    \/ \E i \in DOMAIN fetches :
         FetchAnswered(i) \/ FetchArrives(i) \/ FetchFails(i) \/ FetchApplies(i)
    \/ OlderStarts \/ OlderAnswered \/ OlderApplies \/ OlderFails

Spec == Init /\ [][Next]_vars
-----------------------------------------------------------------------------
\* No message is in the list twice, whichever of the four ways brought it, and however
\* often an event is delivered - unless the server itself has a line of its session twice
\* or under two uuids: a row doubled in the cache is shown doubled, and a Codex or Gemini
\* session that was parsed again sends its messages under uuids the browser cannot know.
NoDuplicates ==
    \A i, j \in DOMAIN shown : shown[i] = shown[j] /\ shown[i][1] \notin remade => i = j

\* The list shows the messages of the active session only, although answers of
\* sessions left behind keep arriving - as long as no fetch of older messages was
\* under way when the session was switched, which nothing stops.
ShowsOneSession ==
    ~stray => \A u \in Range(shown) : u[1] \in {active, "opt"}

\* What the uuid set keeps out is in the list already: no message of the assistant is
\* hidden by it, unless messages were added while a fetch that replaces the list was
\* under way (their uuids stay, the messages go), or two fetches of the session overlap.
NothingHidden ==
    ~raced => \A u \in seen : RoleOf(u) = "assistant" => u \in Range(shown)

\* Copies and echoes balance: of a session never more messages of role "user" are shown
\* than it has and is about to have (those sent to it from here and those of others),
\* unless an older page arrived during a fetch or across a switch, by the paging state of
\* the session before, or with messages logged after its total was taken (a page is
\* compared with the uuids only, never with the optimistic copies), or the server has its
\* lines twice.  Which message is left out for a copy is another matter: the first one of
\* role "user" is taken for its echo, be it the result of a tool, and the echo that comes
\* after it is shown beside the copy.
NoMoreThanSent ==
    active # Null /\ active \notin remade /\ ~raced /\ ~ahead /\ ~stray =>
        Cardinality({u \in Range(shown) : RoleOf(u) = "user" /\ u[1] \in {active, "opt"}})
            <= sends[active] + others[active]

\* Each message of the list is there once: none doubled, none hidden.
EveryMessageOnce == NoDuplicates /\ NothingHidden /\ NoMoreThanSent
=============================================================================
