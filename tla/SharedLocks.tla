----------------------------- MODULE SharedLocks -----------------------------
(***************************************************************************)
(* The locks around the maps that the HTTP handlers, the watcher loop and  *)
(* the rescan of server/src/main.rs share, and who waits for whom.         *)
(*                                                                         *)
(* A task is written as what it locks: a sequence of blocks, each a set of *)
(* alternatives, which one depending on data that is not modelled.  What a *)
(* task does with the maps is in the other modules; here only waiting      *)
(* matters.  An RwLock of tokio is fair: a reader waits behind a writer    *)
(* that came first, even if it holds the lock for reading already.  Left   *)
(* out are try_read, which never waits, and locks that are only ever taken *)
(* while nothing else is awaited (the debounce map, the LRU list).         *)
(***************************************************************************)
EXTENDS Naturals, Sequences, FiniteSets, SequencesExt

CONSTANTS
    Requests,      \* requests under way at once
    MaxBusy        \* tasks under way at once

Locks == {"ecs", "session_paths", "session_cli_types", "message_count_hints",
          "managed_session_paths", "managed_pending_by_cli", "session_plan_mapping",
          "project_watches", "session_manager", "offsets", "pending_images", "pty"}
Tasks == Requests \cup {"main", "rescan"}

ASSUME LocksAssumption ==
    /\ {"main", "rescan"} \cap Requests = {}
    /\ MaxBusy \in Nat

VARIABLES
    runs,     \* which handler a task runs, and the block it is in
    todo,     \* what is left of that block
    held,     \* the guards of each task, the latest last
    queue     \* who waits for each lock, and in which way

locksVars == <<runs, todo, held, queue>>

Nothing == <<>>
Step(op, lock) == [op |-> op, lock |-> lock]
Reading(l, body) == <<Step("read", l)>> \o body \o <<Step("free", l)>>
Writing(l, body) == <<Step("write", l)>> \o body \o <<Step("free", l)>>
JustRead(l) == Reading(l, Nothing)
JustWrite(l) == Writing(l, Nothing)

-----------------------------------------------------------------------------
(* The handlers that read sessions.                                        *)
\* Mutation: the world last.
api_get_sessions_WorldLast == <<
    {Reading("session_cli_types", Reading("message_count_hints", JustRead("ecs")))} >>

api_get_sessions == <<
    {Reading("ecs", Reading("session_cli_types", JustRead("message_count_hints")))} >>

\* The alias of a managed session is looked up with the paths still locked.
api_get_messages == <<
    {JustRead("session_paths"), Reading("session_paths", JustRead("ecs"))},
    {JustRead("session_cli_types")},
    {Nothing, JustWrite("ecs")}, {Nothing, JustRead("ecs")} >>

api_get_session_stats == <<
    {JustRead("session_cli_types")}, {JustRead("session_paths")},
    {Nothing, JustWrite("ecs")}, {JustRead("ecs")} >>

resolve_session_project_root == <<
    {JustRead("project_watches"),
     JustRead("project_watches") \o JustRead("session_paths"),
     JustRead("project_watches") \o JustRead("session_paths") \o JustRead("ecs"),
     JustRead("project_watches") \o JustRead("session_paths") \o JustRead("ecs") \o
         JustRead("session_paths")} >>

\* Here the paths are locked again while they still are.
resolve_git_repo == <<
    {Nothing, JustRead("session_paths"), Reading("session_paths", JustRead("ecs")),
     Reading("session_paths", Reading("ecs", JustRead("session_paths")))} >>

api_serve_file == <<
    {Nothing, JustRead("session_paths"), JustRead("session_paths") \o JustRead("ecs"),
     JustRead("session_paths") \o Reading("ecs", JustRead("session_paths"))} >>

api_append_message == << {JustRead("session_paths")} >>

-----------------------------------------------------------------------------
(* The handlers of managed sessions.  The manager stays locked while a      *)
(* session is created or written to.                                       *)
\* The text, then the key that submits it; or, if the session is not managed
\* here, a process that resumes it.
api_send_message == <<
    {Reading("session_manager", JustRead("session_cli_types") \o JustWrite("pty") \o JustWrite("pty")),
     JustRead("session_manager") \o JustRead("session_paths")} >>

api_send_input == << {JustRead("session_manager"), Reading("session_manager", JustWrite("pty"))} >>
api_close_session == <<
    {JustRead("session_manager"),
     Reading("session_manager", JustWrite("pty") \o JustWrite("pty"))} >>

api_queue_images == <<
    {JustRead("session_manager"), Reading("session_manager", JustRead("managed_session_paths"))},
    {JustWrite("pending_images")} >>

api_create_managed_session ==
    LET Registered(plan, pending) ==
            JustWrite("ecs") \o JustWrite("managed_session_paths") \o JustWrite("session_cli_types") \o
            JustWrite("project_watches") \o plan \o pending \o
            Reading("session_plan_mapping", JustRead("managed_session_paths"))
    IN  << {JustWrite("session_manager")} \cup
           {Writing("session_manager", Registered(plan, pending)) :
               plan \in {Nothing, JustWrite("session_plan_mapping")},
               pending \in {Nothing, JustWrite("managed_pending_by_cli")}} >>

\* The paths stay locked when the session has none.
api_delete_session == <<
    {JustWrite("ecs")},
    {JustRead("session_paths") \o JustWrite("session_paths") \o JustWrite("session_cli_types"),
     Reading("session_paths", JustWrite("session_cli_types"))} >>

-----------------------------------------------------------------------------
(* The server's own tasks.                                                 *)

\* Startup registers what it found while the HTTP server already listens.
Registration == <<
    {Reading("managed_session_paths", JustRead("session_plan_mapping"))},
    {Writing("ecs", Writing("session_paths",
        Writing("session_cli_types", JustWrite("message_count_hints"))))},
    {Nothing, JustWrite("session_plan_mapping")},
    {JustWrite("project_watches")}, {JustWrite("offsets")} >>

\* A file is linked to the managed session that waits for it, and the maps forget it.
Link ==
    {Nothing} \cup
    {Writing("ecs", one \o other) : one \in {Nothing, JustWrite("managed_session_paths")},
                                    other \in {Nothing, JustWrite("managed_pending_by_cli")}}

EffectiveSession == <<
    {JustRead("ecs")}, {Nothing, JustRead("managed_session_paths")},
    {Nothing, JustRead("managed_pending_by_cli")}, Link >>

\* An event of the watcher: a session file grew or is gone, or a project file changed.
SessionFileEvent == EffectiveSession \o <<
    {JustRead("ecs")}, {JustWrite("session_paths")}, {JustWrite("session_cli_types")},
    {Nothing, JustWrite("ecs")}, {Nothing, JustWrite("project_watches")},
    {JustWrite("offsets")}, {Nothing, JustWrite("offsets")}, {Nothing, JustWrite("ecs")},
    {Nothing, Writing("ecs", JustWrite("offsets"))}, {Nothing, JustRead("ecs") \o JustWrite("ecs")} >>

DeletedFileEvent == << {JustWrite("offsets")} >>

\* The reader asks whether an agent wrote the file.
ProjectFileEvent == <<
    {JustRead("project_watches")},
    {Nothing, JustWrite("ecs"), JustWrite("ecs") \o JustRead("ecs")} >>

\* One file found by the rescan.
RescannedFile == EffectiveSession \o <<
    {JustWrite("session_paths")}, {JustWrite("session_cli_types")},
    {Nothing, JustWrite("message_count_hints")}, {JustRead("ecs")},
    {Nothing, JustWrite("ecs"), JustWrite("ecs") \o JustWrite("offsets")} >>

Program == [
    sessions |-> api_get_sessions, messages |-> api_get_messages,
    stats |-> api_get_session_stats, root |-> resolve_session_project_root,
    git |-> resolve_git_repo, serve |-> api_serve_file, append |-> api_append_message,
    send |-> api_send_message, input |-> api_send_input, close |-> api_close_session,
    images |-> api_queue_images, create |-> api_create_managed_session,
    delete |-> api_delete_session,
    startup |-> Registration, session |-> SessionFileEvent, deleted |-> DeletedFileEvent,
    project |-> ProjectFileEvent, rescan |-> RescannedFile]

OwnTasks == {"startup", "session", "deleted", "project", "rescan"}

-----------------------------------------------------------------------------
(* The locks.                                                              *)
Idle == [handler |-> "none", block |-> 0]

LocksInit ==
    /\ runs = [t \in Tasks |-> IF t = "main" THEN [handler |-> "startup", block |-> 1] ELSE Idle]
    /\ \E steps \in Registration[1] : todo = [t \in Tasks |-> IF t = "main" THEN steps ELSE Nothing]
    /\ held = [t \in Tasks |-> <<>>]
    /\ queue = [l \in Locks |-> <<>>]

\* What t asks for next, and whether it stands in the queue for it.
Wanted(t) == Head(todo[t])
Waits(t) ==
    /\ todo[t] # Nothing /\ Wanted(t).op # "free"
    /\ \E i \in DOMAIN queue[Wanted(t).lock] : queue[Wanted(t).lock][i].task = t

Holds(t, l) == \E i \in DOMAIN held[t] : held[t][i].lock = l
Conflict(a, b) == a = "write" \/ b = "write"

\* With these guards held, one more may be given.
Admits(guards, step) ==
    \A u \in Tasks : \A i \in DOMAIN guards[u] :
        guards[u][i].lock = step.lock => ~Conflict(guards[u][i].op, step.op)

\* Those of the queue for l who are given it then: the first, and readers behind readers.
Served(guards, l) ==
    {queue[l][n].task : n \in {n \in DOMAIN queue[l] :
        /\ Admits(guards, Step(queue[l][n].op, l))
        /\ n = 1 \/ \A i \in 1 .. n : queue[l][i].op = "read"}}

\* A queue when these tasks have left it.
Without(line, served) ==
    FlattenSeq([i \in DOMAIN line |-> IF line[i].task \in served THEN <<>> ELSE <<line[i]>>])

\* A handler goes on with these steps of block n, or if none are left with those
\* of a later block, or ends; blocks that may lock nothing may be skipped.
GoesOn(t, h, n, steps, others) ==
    LET program == Program[h]
        MaySkip(m) == \A k \in (n + 1) .. m : Nothing \in program[k]
        Runs(run, rest) == runs' = [runs EXCEPT ![t] = run] /\ todo' = [others EXCEPT ![t] = rest]
    IN  \/ steps # Nothing /\ Runs([handler |-> h, block |-> n], steps)
        \/ /\ steps = Nothing
           /\ \E m \in (n + 1) .. Len(program) :
                 /\ MaySkip(m - 1)
                 /\ \E next \in program[m] \ {Nothing} : Runs([handler |-> h, block |-> m], next)
        \/ steps = Nothing /\ MaySkip(Len(program)) /\ Runs(Idle, Nothing)

\* The watcher loop and the rescan start when startup is over.
May(t) ==
    IF t = "main" THEN {"session", "deleted", "project"}
    ELSE IF t # "rescan" THEN DOMAIN Program \ OwnTasks
    ELSE IF runs["main"].handler = "startup" THEN {} ELSE {"rescan"}

\* A request comes in, the watcher loop takes its next event, the rescan its next file.
Begin(t) ==
    /\ runs[t] = Idle
    /\ Cardinality({u \in Tasks : runs[u] # Idle}) < MaxBusy
    /\ \E h \in May(t) : GoesOn(t, h, 0, Nothing, todo)
    /\ UNCHANGED <<held, queue>>

\* read().await, write().await and lock().await: t gets the guard or waits for it.
Acquire(t) ==
    /\ todo[t] # Nothing /\ Wanted(t).op # "free" /\ ~Waits(t)
    /\ LET step == Wanted(t)
       IN  IF queue[step.lock] = <<>> /\ Admits(held, step)
           THEN /\ held' = [held EXCEPT ![t] = Append(@, step)]
                /\ todo' = [todo EXCEPT ![t] = Tail(@)]
                /\ UNCHANGED queue
           ELSE /\ queue' = [queue EXCEPT ![step.lock] = Append(@, [task |-> t, op |-> step.op])]
                /\ UNCHANGED <<held, todo>>
    /\ UNCHANGED runs

\* Guards are dropped, those that end at one place at once, and the locks given on.
Release(t) ==
    /\ todo[t] # Nothing /\ Wanted(t).op = "free"
    /\ LET n == CHOOSE i \in DOMAIN todo[t] :
                    /\ \A j \in 1 .. i : todo[t][j].op = "free"
                    /\ i = Len(todo[t]) \/ todo[t][i + 1].op # "free"
           kept == [held EXCEPT ![t] = SubSeq(@, 1, Len(@) - n)]
           served == UNION {Served(kept, todo[t][i].lock) : i \in 1 .. n}
       IN  /\ held' = [u \in Tasks |-> IF u \in served THEN Append(kept[u], Wanted(u)) ELSE kept[u]]
           /\ queue' = [l \in Locks |-> Without(queue[l], served)]
           /\ GoesOn(t, runs[t].handler, runs[t].block, SubSeq(todo[t], n + 1, Len(todo[t])),
                     [u \in Tasks |-> IF u \in served THEN Tail(todo[u]) ELSE todo[u]])

LocksNext == \E t \in Tasks : Begin(t) \/ Acquire(t) \/ Release(t)
LocksSpec == LocksInit /\ [][LocksNext]_locksVars
-----------------------------------------------------------------------------
\* Those whom t waits for: who holds the lock in its way, and who came before it.
WaitsFor(t) ==
    LET line == queue[Wanted(t).lock]
    IN  {u \in Tasks :
            \/ \E j \in DOMAIN held[u] :
                  held[u][j].lock = Wanted(t).lock /\ Conflict(held[u][j].op, Wanted(t).op)
            \/ \E i \in DOMAIN line : line[i].task = t /\ \E j \in 1 .. (i - 1) : line[j].task = u}

\* Tasks that wait for each other and so for ever.
Knot(S) == S # {} /\ \A t \in S : WaitsFor(t) \cap S # {}

(* Tasks wait for each other for ever only over session_paths: one of them *)
(* still holds it while it waits for the world or for the paths again.     *)
(* Every other order of locks is harmless, whatever waits for a writer in  *)
(* between.  (main.rs:2097-2101, 4621-4629)                                *)
StuckOverPathsOnly ==
    \A S \in SUBSET {t \in Tasks : Waits(t)} : Knot(S) =>
        \E t \in S : Holds(t, "session_paths") /\ Wanted(t).lock \in {"ecs", "session_paths"}
=============================================================================
