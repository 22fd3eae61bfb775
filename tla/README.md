# TLA+ models of noaide

noaide supervises AI coding agents: it tails the files their sessions write,
pushes every message to a browser, starts sessions itself, and sits between the
agents and their API providers as a reverse proxy in which an operator can hold,
forward, rewrite or drop requests. The server (Rust, tokio) is one process of many
tasks that share maps and channels, and the browser a second place where answers,
pushes and edits meet; most of what can go wrong is an order of two steps that no
test exercises. These modules model that control; what a request, a message or a
header says is abstracted to what the properties tell apart.

    tlc -workers 2 -config MCSessionLinking.cfg MCSessionLinking.tla
    tlapm Sessions_proofs.tla

## 1. The system

Paths are relative to `src/`; `main.rs` is `server/src/main.rs`, `handler.rs` is
`server/src/proxy/handler.rs`, other server files are named below `server/src/`.

| Component | State | Operations | Interacts with |
|---|---|---|---|
| Intercept gate (`handler.rs`, `proxy/modes.rs`, routes in `main.rs`) | proxy and intercept mode per session, maps of held requests and responses, a oneshot channel per hold, capture log | proxy a request; forward or drop; forward a response; set either mode | HTTP clients, provider, operator |
| Request bodies (`proxy/inject.rs`, `rewrite.rs`, `handler.rs`) | queue of images, per-session text and overrides | queue an image; transform a body | gate |
| Tunnels and WebSockets (`handler.rs`, `tls_mitm.rs`, `mitm.rs`, `websocket.rs`, `rules.rs`, `classify.rs`) | mode, rules, capture log, the two ends | check, delay, dial, sniff, copy, parse, relay | CLI, target, operator |
| Configuration and keys (`modes.rs`, `persist.rs`, `keys.rs`, `main.rs`) | four stores and a file per session; list of keys and rotation counters | set, save after a second, restore; add, delete, switch, rotate | gate, tunnels |
| Event bus (`bus/`) | Lamport clock, sequence counter per source, dedup ring, one broadcast ring per topic | publish, subscribe, receive, lag | every producer; transport |
| WebTransport, quality (`transport/`) | per connection receivers, forwarders, bounded channel; recent ring; RTT window and tier | connect, replay, forward, filter, deliver, disconnect; update_rtt | bus, browser |
| Watcher loop, rescan, cache, parsers (`main.rs`, `cache/`, `parser/`, `ecs/world.rs`) | offset or count per file, messages in the ECS world, cache meta, LRU list | file event, 30 s rescan, request for messages, eviction | file system, bus, API |
| Discovery (`discovery/scanner.rs`, `main.rs`) | session rows, times | scan, register, touch | watcher loop |
| Session linking (`main.rs`, `ecs/world.rs`) | aliases, paths, one-shot entries by directory and CLI, plan bindings, persisted entries | link a file; create, delete; restart | watcher loop, rescan, API |
| Managed and observed sessions (`session/`) | one state word, terminal, event channel | output, idle timeout, input, close; tail | API |
| Project files (`files/`, `main.rs`, `frontend/.../EditorPanel.tsx`, `stores/file.ts`) | rows, debounce times, tree, content, dirty mark | event, listing, read, save, select | agent, browser |
| Browser's messages (`frontend/src/stores/session.ts`, `transport/client.ts`) | list, uuid set, optimistic copies, paging | fetch, older page, push, send, switch, reconnect | API, transport |
| Plan edits (`main.rs`) | `plan-edits.json` | read, merge, replace | browser, agent |

What is hard, and what correctness means: holds, decisions and mode switches
interleave, and nothing held may be lost, sent twice or be out of reach (gate);
a body passes five transformations in five shapes and must still be the same
conversation (bodies); settings change between a check and a dial, bytes are read
ahead and put back (tunnels); saves are late and not atomic (configuration); four
accesses make one `publish` (bus); channels and rings are full and receivers lag
(transport); three tasks read the same files by different positions (cache, parsers,
discovery); an alias is decided on one lock and written under another (linking); one
state word has three writers (sessions); content comes from three sides, messages
from four (browser). `PROJECT.json` lists each hazard at its line with the
properties that would notice it.

## 2. Modules

| Module | Models | Built on |
|---|---|---|
| `InterceptGate` | proxy handler, decision and mode routes | |
| `SupervisedRequest` | abstract: what the gate promises about a request | |
| `RequestRewrite` | images, injected text and overrides in a request body | |
| `ProxyTunnels` | a CONNECT tunnel or an upgraded WebSocket | |
| `ProxyConfig`, `ApiKeys`, `PlanEdits` | stored settings, keys, plan edits | |
| `EventBus` | publish, broadcast rings, dedup, restart | |
| `EventTransport` | connections over the bus | extends `EventBus`, conjoins its actions |
| `AdaptiveQuality` | tier selection | |
| `MessageCache` | Claude files by byte offset, to browser and cache | |
| `CountedFiles` | one file of any agent through watcher and parsers | |
| `Discovery`, `Timestamps` | finding and timing of session files; the two time parsers | |
| `SessionLinking` | files to managed sessions, plans, restart | |
| `SessionLifecycle` | one managed or observed session | |
| `ProjectFiles` | project files from disk to tree and editor | |
| `SessionStore` | the browser's message list | |
| `SharedLocks` | who waits for whom at the shared maps of `main.rs` | |
| `*_proofs` | section 4 | their module, or several: `Parts_proofs`, `Events_proofs`, `Files_proofs`, `Sessions_proofs`, `CacheAndLocks_proofs` |
| `SequenceFacts` | lemmas on sequences, increasing listings, `FlattenSeq`, induction | |
| `MC*` | instances and symmetry for TLC | their modules |

An operator named after another with an underscore, `Classify_Relinks` before
`Classify`, is a wrong version of it that no specification uses: each shows that a
property notices that mistake.

**InterceptGate.** One task per request; every action is the code between two
accesses to shared state. `Receive` refuses what the mode blocks; `ReadGate`
samples the intercept mode; `Hold` inserts, `Resume` is `decision_rx` yielding;
`Send` and `Retry` are the attempts; `ReadResponseGate` to `Reply` the response side;
`StreamEnd` and `StreamLog` the pass-through task that outlives its handler and lets the
client see the end before it writes the row; `Disconnect` drops the handler at an await and
leaves its entries behind. `replied` is history: whose client got some of the answer. A oneshot is a cell of
`decision`: "none", a verdict, or "closed" if its sender was dropped. `Decide` removes
the entry before it compares sessions. A mode switch is three steps, its drain
one, because the map is locked until it is swept. `SupervisedRequest` is the same
without maps, modes and tasks; the refinement maps 21 positions to stages.

**RequestRewrite** follows one body at a time: `TakeImages`, `InjectText`,
`RewriteBody`, in the code's order, over the five shapes (messages, input,
instructions, contents, request.contents). A value is where it came from. `entries` are the
managed sessions to which a directory leads, which is where `QueueTarget` looks for other ids.

**ProxyTunnels.** `Arrive` draws a connection, `Operator` changes mode and rules,
`Ends` sends, closes and breaks off, `Proxy` is everything the code does: checks, delay, dial,
sniffing, and raw copy, TLS copy, parsed HTTP, WebSocket relay or refusal.

**ProxyConfig**: store, four snapshot reads, delayed save in two halves, `Crash`.
**ApiKeys**: map accesses of editors and requests one by one. **PlanEdits**:
read, merge, rename, publish, each of which may fail.

**EventBus, EventTransport.** `Publish`, `Tick`, `NextSequence`, `Send` are the
accesses of `publish()`; a ring is the history of its topic with a capacity and a
receiver a cursor. The subscribers of the transport are connections and the buffer
writer; a forwarder takes an event, keeps it in `hand` while the channel is full, and
goes on after a lag. `excused` records events given up for a reason the code knows.

**MessageCache, CountedFiles.** A turn of the watcher loop is separated where it
awaits a lock, the rescan too; `GetMessages` runs `ensure_warm`, eviction and LRU
update under one lock. `CountedFiles` is about what the parsers of Claude, Codex and
Gemini files make of entries, and about the one map that holds byte offsets and
message counts.

**Discovery** reads names, folders and the first and last lines as the scanner
does; startup, watcher loop and rescan list and touch rows. **SessionLinking** gives
both linking tasks a program counter per await; `WorldFree` is the only lock held
across one. **SessionLifecycle** has the reader thread, the detector, the tail task,
`Close` and typed messages over `state` and one bounded channel. A session file is a sequence of
pieces: lines that say something, messages without text, lines that are no message, and a line
in two pieces; `cuts` is history: where the tail task's passes over the file began.

**ProjectFiles** goes from a change over debounce, measuring, row and payload to tree
and editor. A read in the loop or a request for a content may fail at any time: a file may be
gone, no text, too large, the network down. `missed` is history: the changes of the selected
file whose content was not got.

**SessionStore** goes from the lines of a file over the rows of the cache, log and replay to the list, with
fetches as records that travel on their own. A message has the uuid it was parsed under: `StoredAgain` is
`ensure_warm` beside the watcher, `ParsedAnew` a parse from the beginning, which gives new uuids to all but
the sessions of `Claude`. A message of role "user" (`Comes`) is one sent from this browser, or any
other that the parsers call so: terminal input, the result of a tool, a meta line. `remade` is history.

**SharedLocks** writes each handler, the watcher loop, the rescan and the startup as the
locks it takes, in blocks of alternatives. `Acquire` takes the next lock or joins its queue,
`Release` passes it on in the order of asking, as tokio does, so that a reader waits behind a
writer. It says nothing of what is done under a lock; the other modules do.

## 3. Runs

A run takes one instance. Where modules share no state, one run checks several:
a variable `focus` picks the part that moves and the others stutter, so every
state of each part is explored as if it were alone (`parts`, `files`, `sessions`, `cache`).

| Run | What it asks | Instance |
|---|---|---|
| `gate_safety` | holds reachable, at most one delivery, held until released, deliveries captured, decisions final, a switch drains its own session | 2 requests, 2 sessions, 1 operator, any decision call at any time |
| `gate_settles` | every request settles; the gate implements `SupervisedRequest` | 1 request of either kind, 2 concurrent switches, all modes |
| `bus` | order, numbering, suppressed echoes | 2 publishers, sources, topics (capacity 1) and keys (ring of 1), 3 events, 1 restart |
| `transport` | nothing live is lost silently, repeated or reordered; critical events arrive | 1 client and the writer, 2 topics, channel and rings of 1, 2 events |
| `cache` | lines arrive once, in order and in the cache; list, world and budget agree; tasks wait for ever only over `session_paths` | a known and a new session, room for 1 warm session and 2 messages, 8 pieces of file; 2 requests of any kind beside the two loops, 3 tasks at once |
| `linking` | nothing foreign is joined, every file gets listed | 2 directories with plans, an old Claude file that may return, a late Codex file, 1 event, deletion and restart |
| `sessions` | discovery: listed once, true times, listed at last; lifecycle: nothing cut short, settles and ends | a Claude file and a Codex file the watcher cannot name, 2 lines, 3 ticks; 1 message in 2 writes, 2 chunks, or 2 pieces of 6 kinds of a file that is cut back once, a channel of 1 |
| `store` | each message once, none hidden, copies and echoes balanced, one session shown | a session whose entries have uuids and one whose have not, pages of 1, 1 replayed event; at most 5 of 3 logged and 2 sent messages, 3 switches, 1 line stored again or session parsed anew, 1 lost connection and 1 older page |
| `tunnels` | nothing forbidden connects, data arrives in order, after its evidence and, where it is copied, whole; tunnels end | every kind of connection, 3 hosts, 3 rules that contradict, 2 items each way, 2 edits |
| `parts` | configuration saved, rotation even, edits survive, images once, prompt as configured, tier by agreement, calendars agree | 2 calls and a crash; 2 keys, editors and requests; 3 posts; 2 bodies of every shape and 7 sets of overrides; samples beside both thresholds, window 4, count 3; every day to 2100 |
| `files` | pushed once in order, agents look alike, last change arrives, dirty mark true, tree settles | 3 entries of every kind with torn writes and a restart; tree: 3 files, 3 changes; editor: 2 files (3 sizes for the watched one), 2 changes; 1 payload on the wire, 1 fetch |

`stuck_response` finds a violation: the comment at `handler.rs:1168` says a
response must not get stuck when the mode goes back to Auto; one whose gate read
Manual before the switch is inserted after the drain and stays.

**Why the bounds are enough.** Each bound is the least at which both sides of a
race exist. The gate's invariants speak of one request and one mode; the second of
each is there for the drain, and two switches give every overlap of write and drain.
The bus needs two publishers for a race and more events than ring and capacity.
Capacities of one make enqueue, lag and eviction happen with two events; a budget of
two messages is less than two sessions write. In `linking` one deletion and one
restart are enough to make every map stale for a task that has read it; two
creations cannot race, because the manager's lock makes them one after the other, and
a second managed id changes only which stale entry is read, which the theorem covers.
In `store` three switches leave a session and return to it with an answer
still under way. In `tunnels` the second edit may fall between mode check and rule
check, or between check and dial. A leap day, a century that is a leap year and one
that is not lie before 2100. Tokio rounds a topic's capacity up to a power of two; the
models take the real size.

`CHECK_DEADLOCK FALSE` stands in all but the gate's runs: nobody owes a
publication, a file, a click or a byte, so the system may rest.

**Symmetry** is used in `gate_safety`, `bus` and `cache` (there of the requests,
which are interchangeable), over sets no property names, and never with a liveness property.

**Fairness.** Weak fairness of whatever the runtime polls or a timer fires: the
handler of a request once its body has arrived, but not while a client reads a stream (a body
has no timeout, an upstream attempt has one of 300 s, `proxy/mod.rs`); a switch that has begun; forwarders, delivery loop and buffer writer, with strong
fairness of `Offer` since tokio's mpsc grants room in the order of waiting; the
watcher loop and the rescan every 30 s; reader thread, detector and tail task; the
proxy's side of a tunnel; the browser's frames and its 30 s listing. Operators, CLIs,
users, targets, events and crashes owe nothing.

## 4. Proofs

TLAPS proves the following for every value of the constants, from the assumptions
named in the modules: constants that do not overlap (`None` is no file, "default" no call),
the edits a file begins with are no post's, counts that are positive, finite sets of publishers and topics, a file of another CLI than
Claude encodes no directory (`main.rs:1226-1228`), entries of the kinds the parsers know and one
they do not. Each inductive invariant was an invariant of
a TLC run on the instance of section 3 before it was proved.

**InterceptGate_proofs.** `HeldIsReachable` says nothing of a task about to be
held, `AtMostOnceUpstream` nothing of where a task with no delivery may be. `IInv`
ties each request's position to everything else: an entry is in the map exactly
while its hold lasts, or was left by a client that went away (`HoldInv`,
`ResponseInv`); deliveries are 0 up to the send and at most 1 after, a gated request
past its hold has a releasing decision (`DeliveryInv`); a row is missing
only where the task that writes it is on its way or nobody has seen an answer (`CaptureInv`). Each action moves one task, so preservation splits into the moved
request and the others. From it `TypeCorrect`, `HeldRequestsAreReachable`,
`DropsAreFinal`, `DeliveredAtMostOnce`, `GatedRequestsWait`, `DeliveriesCaptured`,
`DecisionsStand`, and `SwitchesStayInTheirSession`: what a drain releases is held and of its
session. `Refinement`: the gate implements `SupervisedRequest`, action by
action; `IInv` supplies what positions alone do not tell (that a task in `gate` is
gated, that a drained entry is undecided).

**Parts_proofs.** Tiers: the properties speak of samples, the code counts. `IInv`
says both ways that the counter is the run the window shows; `SlideShifts` moves it
through a step while the window slides. From it `TypeCorrect`,
`AgreementSettlesTier`, `TierNeverFlaps`. Configuration: `ConfigSettles`.
`SettledConfigIsSaved` speaks of quiet states only; `SettledInv` says what leads there: the
last save under way, or else the file, holds what the stores hold, unless a call has
begun that will save; what such a call has read or written is still true; and the
gate follows the mode unless a call is between its two writes.
Keys: `KeysTakeTurns`. `RotationIsEven` counts turns; the code has only a counter modulo the
length of a listing. `KeysInv` says that since the last change of the active keys or restart (or
request with an outdated listing, which is left out) all keys of the listing had equally many turns, and those
the counter passed last one more (`InRound`), and that a request about to pick has a listing in order.
It rests on there being one increasing listing of a finite set (`IncreasingIsOne`,
`IncreasingExists`).

**Events_proofs**, bus. Order is a fact about sent events, but it is made while a
publisher holds a timestamp it has not sent. `IInv` adds that every timestamp of this
run, sent or held, is at most the clock (`BelowClock`), that events of earlier runs
are past (`EpochsArePast`), and that held timestamps differ and are later than what
their publisher had received (`HeldAreOrdered`). `MaxOfBounded` shows that bounded sets
of numbers have the maximum the model takes. From it `BusTypeCorrect` and
`TimestampsOrderEvents`; `NumbersAreComplete` is inductive beside it, with
cardinalities of finite sets. `EchoesNeedDistance`: between two events of one key there are as
many keys of others as the ring holds; `EchoInv` places each key that was sent in the
ring or behind enough later ones, and gives at most one publisher leave to send it.

**Events_proofs**, transport. `EventsReachClients`. `LiveDelivery` compares the log of a topic
with a stream, but an event passes a forwarder's hand and the channel in between.
`TransportInv` takes the way as one sequence: in it the events of a topic are in the order of
its log, none twice, none before the subscription, and each missing one is still to be read
or excused (`EventsKeepTheirPlace`). An event's place in
its log is unique, because `TotalOrder` of `EventBus` gives no two events one timestamp.

**Sessions_proofs**, discovery. `ListedSessionsAreTrue`: watcher loop and rescan read a file, await, and
write what they read. The invariant (`FindingsStayTrue`) says of every finding under way
that it is still true of its file, because files only grow and times only rise, and that a
session without a row is not about to get two.

**Files_proofs.** Session files: what a parser makes of a file is a fold over its
entries, so the facts about it (every message comes from its entry, a file read in two
parts is the file read whole, a new entry or a completed one only adds at the end) are proved by
induction, in the form of a least counterexample (`NatSet`, from the library's `WFMin`).
`CountedInv` then says where the offset points: for Claude at the byte behind an
entry whose messages are all pushed, for the others at the count of what was
there and was pushed; before the first look after a restart it is more than any
file has messages, so that nothing old is taken for new. From it `MessagesPushedOnce`, and with
each parser's table gone through kind by kind `AgentsSpeakAlike`. Project files:
`DirtyMarkCorrect`: the mark follows from what is saved only
while nobody typed during the save, so the invariant carries what a save under way
will set (`SaveIsCurrent`). `LastChangeGetsThrough`: `ArrivalInv` follows the last change of
each file through event, measuring, row and payload, says that what is read for it is
true of the disk, and that of two payloads of a file the later one is the newer.
Plan edits: `EditsAreKept`. `EditsSurvive` looks at the file alone, while what will be lost
is settled when a post reads it. `EditsInv` says of the file, and of what each post has
in hand, which of the replacements up to a number are left in it, and that each of the
others came before a replacement by a post that had read earlier. A rename passes what
the post has in hand on to the file; that this is what `FlattenSeq` computes is again
an induction (`BroughtElements`, `BroughtNoMore`).

**ProxyTunnels_proofs.** `TunnelsCarry`: `DataInv` says for each of the five ways and each
stage how much of what an end sent was taken, is in hand and was passed on, that a finished
copy was whole, and that what is delivered has its row; `Exact` says that what was passed on is what HTTP or the
relay makes of what was taken, which for a body that broke off is an empty one. A direction's step leaves the other
alone; what stays true of that one is in lemmas shared by all stages.

**Sessions_proofs**, linking. `NothingForeignHolds`: the project of a file is its directory; a Codex or
Gemini path encodes none, and there only the CLI is the session's own. What a task has read and not yet
written is stale but not wrong, because a session's directory and CLI are settled when
it is spawned. `LinkingInv` says so of the one-shot maps and the persisted file
(`MapsAreOwn`), of each linking task (`TaskIsOwn`) and of the creating request
(`CreateIsOwn`). The steps both tasks take are lemmas of a task; `TaskStep` is the
frame they share. A restart chooses among persisted entries, and any will do.

**Sessions_proofs**, lifecycle. `ArrivesWhole`: the property looks at the events of the
channel that carry output, and state changes of three other writers lie between them.
`LifecycleInv` says how many chunks the producer has passed at each of its positions, a chunk
read and not yet sent included, that only it sends output, and how far each typed message is.
`TailInv` says that the outputs of an observed session are the lines due up to the one in hand:
the pass under way began at the last cut, so a line it reads whole was not cut, and one it finds
the rest of was.
Output and text are picked out of longer sequences with `FlattenSeq`; `SequenceFacts` shows
that one more event adds its own part at the end (`GatheredMore`).

**Sessions_proofs**, browser. `MessagesAreThereOnce` and `OneSessionIsShown`. `StoreInv` says of
all that is on its way to the list (events, the rows of each fetch and of an older page) that the
log has it, and of the fetches that at most one can still replace the list, before anything
of the log is known (`FetchInv`): that is why nothing in the uuid set is hidden. Counting needs more,
because a copy and its echo have different uuids. `CountInv` keeps a ledger: each copy shown
that waits no more stands for a user message that is known and not shown, and with what an older
page or none may still bring (`Caps`) no more is counted than was sent or came from others. `LinesKnown`
says that the cache is the log as long as no line of the session was stored again or parsed anew. Five lemmas
move the ledger (`StillCounts`, `FreshCounts`, `OneMoreCopy`, `EchoTaken`, `EchoShown`). Steps that
touch neither the list nor the counts are shown to be of one form (`ListStands`) and done once.

**CacheAndLocks_proofs**, locks. `OnlyPathsKnot`. All handlers take their locks in one order (`Rank`),
with two exceptions: one is what the property excuses, the other is startup, which reads the plan
mapping while it holds the managed paths. That one is harmless, because whoever else needs
both has the session manager for itself. Each block of each handler is shown to keep to
this (`Fine`, composed along the blocks). `LocksInv` says that every task is on its way
through such a program with the guards that the program has taken there (`TasksInv`), that who
stands in a queue wants that lock in that way and stands there once (`QueuesInv`), and that no
two tasks have guards that exclude each other (`GuardsInv`). Of the tasks of a
circle, take the first in the queue for the last of their locks: whoever it waits for holds
that lock, and waits in its order for a later one, which there is not (`NoKnot`).

**CacheAndLocks_proofs**, cache. `CachesStayConsistent`: which sessions an eviction takes is the
outcome of a walk along the list, but whatever it takes, the list keeps its order and warm marks
and messages go with it; the invariant needs only that every session of the list is one.
`LinesGetThrough`: `LinesArrive` compares the file with what was pushed, while the lines between
are in the watcher's hand, in one of four positions. `ArriveInv` keeps for each known session a
tally (`Tallies`): what was pushed, then what is in hand to be pushed, are the lines up to the offset, in
order; of those since the session became warm the cached and the ones in hand to be cached are
all; and what lies behind the offset has an event under way or one that was lost (`WillBeRead`).
An offset in hand is still the stored one, because the rescan adopts new sessions only. The theorem
assumes writes of whole lines (`Writes = {2}`), as the run does: of a line read in two pieces
neither half is a message (section 5).

Proved but in no run, because they restate types or follow from other properties:
`TypeOK`, `BusTypeOK`, `DropIsFinal`, `NoFlapping`. Only model-checked: liveness, for
which the prover lacks ENABLED; `NothingForbiddenConnects`, over `SelectSeq`, whose recursive
definition the prover cannot expand; `CalendarsAgree`, a walk of finite length, and the
computations of `RequestRewrite` (`ImagesArriveOnce`, `PromptIsAsConfigured`), checked for every
body of a small set; and `EvictionMeetsBudget`, for the sum over the sessions the budget counts.

## 5. Differences without a run

Observed while modelling and stated here only; where a property leaves a case out, it
is one of these.

**Gate.** The intercept mode is sampled once per request (`handler.rs:494`): after a
switch to Auto a request may still be inserted and wait, after one to Manual pass.
WebSocket traffic leaves at `handler.rs:444` and never meets the gate. A switch from
Manual to Lockdown forwards the held telemetry (`main.rs:4259` against `modes.rs:27`). A
decision call for a wrong session removes the entry first (`main.rs:3630`); its dropped
sender lets the request go (`handler.rs:723` against `docs/architecture.md:193`). A
request that times out upstream is not captured (`docs/supervision-boundaries.md:71`), nor
one that was delivered and whose client left before its answer: the row is dropped with the
handler's future.

**Bodies.** `strip_system_prompt` leaves `instructions` (`rewrite.rs:26`); the comment
near `handler.rs:513` gives OpenAI `input` arrays images, the code has no such branch; pure
mode, which runs after injection, removes the injected text of most shapes; images leave
the queue before it is known that the body can carry them. Images queued under the id of a JSONL
session reach no request: `main.rs:3170-3173` means to find the managed session it is linked to,
but `main.rs:3183-3187` looks for that id among the managed sessions to which a directory leads
(`main.rs:45`), where linking has removed the entry (`main.rs:1252-1254`) and no JSONL id ever was.
The only hit, a managed session of an earlier run that was never linked, makes the directory the target.

**Tunnels.** Mode and rules are checked once and separately, and an open tunnel outlives
a stricter setting; a client that does not speak HTTP through an intercepted tunnel loses
what follows the peeked bytes (`handler.rs:1696`); a first TLS record under four bytes counts as
not HTTP; where HTTP is parsed, a body that breaks off is logged and handed on as an empty one
of a complete message (`handler.rs:1766-1771`, `1792-1796`); a half close is not passed on; byte counts are 0 after a copy error; a failed
dial or upgrade leaves no row; `websocket.rs:287` slices text by bytes.

**Configuration, keys, plans.** Of overlapping saves the last wins (`persist.rs:118-122`);
a crash inside a save leaves a torn file that loads as defaults; the whole-configuration
call saves its own body, not the stores; the intercept route does not persist; list and
write of the keys are unlocked, so that a deleted key may come back; `select_key` gives up
on the first key it cannot decrypt; `update_rate_limits` and `deactivate_key` have no
caller. Of two overlapping plan edits one is lost (`main.rs:2545`), and a failed write
leaves its temporary file.

**Bus and transport.** A slow receiver of a NeverDrop topic loses events
(`zenoh_bus.rs:169` against `topics.rs:39`). An event sent before a subscription and not
yet copied by the buffer writer is in neither replay nor live stream
(`webtransport.rs:318,352` against `:48`). Clock and numbers start at 0 with every run
(`zenoh_bus.rs:79` against `docs/evidence-loop-details.md:37-40`). A gap in received
numbers is not a loss (`docs/evidence-loop-details.md:46`), as other topics take numbers
of the same source. No caller sets `dedup_key`; the tier filter passes the whole replay.

**Cache.** The watcher marks a session warm that holds only new lines (`main.rs:1483`
against `cache/mod.rs:21`); a line read in two pieces is skipped twice as malformed
(`parser/jsonl.rs:65`); more than MAX_WARM_SESSIONS can be warm; a request does not refresh
a warm session (`main.rs:2126`); the rescan sets the offset of a new session behind what the
watcher read (`main.rs:1750`). `cache` writes whole lines, and speaks of known sessions.

**Counted files and parsers.** After a start the size in bytes serves as a count, and
Codex or Gemini messages before the first event are never pushed (`main.rs:977`); growth in
place and rewinds shift the count; a Gemini summary is pushed again in place of a message;
uuids are new with each parse; a Codex answer has no stop reason, so the session stays
active until a meta line; "nothing is dropped" (`parser/mod.rs:16`) is not so for Codex items
without content and Claude lines with an unknown block. Two kinds of internal entries are shown
as somebody's words: lines that Claude marks as meta as the user's (`types.rs:130`, read and
ignored by `types.rs:317-346`), and Codex items of any other role, such as the developer's, as
answers (`codex.rs:322-326`); `AgentsLookAlike` names these two.

**Discovery and times.** The scanner accepts `prefixed-UUID.jsonl`, the watcher does not;
the watcher accepts any `.json` ending in eight hex digits; Codex rows have a project path
only by scan; the last activity is 0 when the last 8 KB hold no stamp; events before the loop
listens wait for the rescan; `parse_iso_timestamp` panics on months over 13, and
`parse_iso_to_epoch_secs` ignores zones. Files with equal ids are left out.

**Linking.** A one-shot entry stays after Codex or Gemini linked by it
(`main.rs:1244-1245`), so that a second file gets the same session; a file can be both aliased
and listed; a deleted session comes back when rescan or watcher hold its file; a plan whose
session was linked before the last creation is not restored.

**Sessions.** An observed session's output leaves out messages without text (`observed.rs:132`), lines
that are no message, and a line the tail task caught half written, whose halves are each skipped
as malformed (`jsonl.rs:65-91`); a file that was cut back is read again from its start, or, if it
has outgrown the old offset by the next tick, from the middle (`jsonl.rs:35-43`).
The state word may read active or idle after Closed; the detector ends on a
lag (`managed.rs:425`) and waits for ever if Closed came before it subscribed; the text
of one message may be followed by the return of another (`main.rs:2769`).

**Project files.** The debounce swallows the last write of a burst; a content that comes
in overwrites unsaved text and clears the mark, as nothing sets the conflict banner;
answers of older fetches overwrite newer content; text typed during a save ends as clean
though unsaved; `.json` and `.jsonl` files of a project are never pushed (`main.rs:1047`);
`.log` files are listed and not watched, ignored ones watched and not listed; the removal of
a file leaves the editor as it was. A request for the content that fails (`file.ts:143-150`), as
every one for a binary file does (`serve.rs:46-53`), leaves the editor empty and called clean, so
that a save would write an empty file, and nobody asks again; nor is there a request for a created
file that is large or no text (`file.ts:212`).

**Browser's messages.** Older pages are asked for with the total as the offset, which the
server counts from the end, and come back empty (`session.ts:447`, `main.rs:2077`), or, when
more messages were logged since than pages reach back, with new ones, which are put in front of
the list beside their optimistic copies (`session.ts:461-475`); a push during the first fetch is lost and its
uuid kept; while a copy waits, the first message of role "user" is taken for its echo and hidden
(`session.ts:561-567`), be it the result of a tool, terminal input or a meta line
(`types.rs:317-346`), and the echo itself is then shown beside the copy, so that `NoMoreThanSent` counts both
kinds together; a line that `ensure_warm` and the watcher both store is served, and shown, twice; messages
parsed again without a uuid of their own (Codex, Gemini, some Claude lines: `codex.rs:156`, `parser/mod.rs:60`)
are new to the browser, though the comment at `session.ts:556-560` says that what was parsed again is deduplicated; optimistic uuids and paging survive a switch; an older page is neither aborted
nor checked; `disconnect()` leaves the reconnect timer armed (`client.ts:94-104,134-143`).

**Locks.** Tasks can wait for each other for ever over `session_paths`. A message request
holds it and waits for the world (`main.rs:2097-2101`), while registration at startup, with
the HTTP server listening, holds the world and waits for it (`main.rs:877-878`), or while
`api_serve_file` holds the world to read it behind a queued writer; and `resolve_git_repo`
reads it a second time while it holds it (`main.rs:4617-4637`), which a writer queued in
between prevents. `StuckOverPathsOnly` says that there is no other such wait.

## 6. Not modelled

* Code no running program reaches: `plan/writer.rs` (called by its tests only), the OT buffer
  of the frontend (imported by no file), `update_rate_limits` and its like.
* Wrappers and conversions without state: git and teams, audit export, database (single
  statements over data regenerated from the files), TOGAF parser, WASM modules, build
  tasks, views of the frontend.
* What is the kernel's or a library's: eBPF and inotify (their channel is modelled, and may
  lose events), QUIC, TLS and certificates, framing and compression, SQLite. The Zenoh
  session mirrors events to nobody in the process.
* Data: the table that gives hosts their category, wording and redaction of log rows, fields
  of messages that are only copied, encryption of keys, path checks.

* In `SharedLocks`: `try_read`, which never waits; locks taken while nothing is awaited; those
  of the proxy, which no handler holds across another; early returns, which only release.

Reasons per component are in `PROJECT.json`.

## 7. What could follow

Proofs about the bodies of `RequestRewrite`. A composition of `SessionLinking` with
`MessageCache`: messages stored under the id of a file before its alias was written. An
abstract log that `MessageCache` and `SessionStore` together implement for a session that
stays selected.
