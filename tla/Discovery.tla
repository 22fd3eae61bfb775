------------------------------ MODULE Discovery ------------------------------
(***************************************************************************)
(* How the server comes to know the session files of the three CLIs.       *)
(*                                                                         *)
(* SessionScanner (server/src/discovery/scanner.rs) walks the folders of   *)
(* every CLI, at startup and again every 30 s, and reads the first and the *)
(* last timestamp of a file from its first and last 8 KB.  The watcher     *)
(* loop takes a new file from its events.  Both list a session in the      *)
(* world, and both move its last activity (server/src/main.rs).            *)
(*                                                                         *)
(* A session is known by its file: the id is part of the file's name, and  *)
(* no two files carry the same one.  Sessions of the server itself, to     *)
(* which a file may be linked instead, are in SessionLinking.              *)
(***************************************************************************)
EXTENDS Naturals, Sequences, FiniteSets

CONSTANTS
    Logs,           \* the session files
    FolderOf,       \* the folder of each file
    LayoutOf,       \* the CLI whose layout each folder has
    NameOf,         \* the form of each file's name
    MaxLines,       \* bound on the lines of a file
    MaxClock        \* bound on the lines of all files

ASSUME DiscoveryAssumption ==
    /\ DOMAIN FolderOf = Logs /\ DOMAIN NameOf = Logs
    /\ \A f \in Logs : LayoutOf[FolderOf[f]] \in {"claude", "codex", "gemini"}
    /\ MaxLines \in Nat /\ MaxClock \in Nat

VARIABLES
    logs,           \* the lines of every file; an empty file does not exist
    clock,          \* the time, which every new line moves
    phase,          \* "startup", "registered" or "running"
    scan,           \* the walk: what it does, folders left, files found
    watch,          \* the watcher loop: what it does, and with which file
    logEvents,      \* files with an event in the watcher's channel
    parsed,         \* offsets[path], as a number of lines
    rows,         \* the session rows of each file: how many, and its times
    behind          \* history: files changed since their row last learnt of it

discoveryVars == <<logs, clock, phase, scan, watch, logEvents, parsed, rows, behind>>

Folders == {FolderOf[f] : f \in Logs}
LargestOf(S) == IF S = {} THEN 0 ELSE CHOOSE x \in S : \A y \in S : y <= x

\* A line has a time (0: none) and fits into 8 KB, or not: then its time is
\* near its front or near its back.
LogLines == [time : 0..MaxClock, size : {"small", "front", "back"}]

-----------------------------------------------------------------------------
(* The scanner.                                                            *)

\* The name must hold an id in the place where the CLI puts it.
ScannerKnows(f) ==
    LET name == NameOf[f] IN
    CASE LayoutOf[FolderOf[f]] = "claude" -> name = "uuid"
      [] LayoutOf[FolderOf[f]] = "codex"  -> name \in {"uuid", "rollout", "prefixed"}
      [] OTHER                            -> name = "short"

\* The first time in the first 8 KB, and the latest in the last 8 KB.
FirstTimestamp(lines) ==
    LET visible == {i \in DOMAIN lines :
                        /\ lines[i].time # 0 /\ lines[i].size # "back"
                        /\ \A j \in 1..(i - 1) : lines[j].size = "small"}
    IN  IF visible = {} THEN 0
        ELSE lines[CHOOSE i \in visible : \A j \in visible : i <= j].time

LastTimestamp(lines) ==
    LargestOf({lines[i].time : i \in {k \in DOMAIN lines :
        /\ lines[k].size # "front"
        /\ \A j \in (k + 1)..Len(lines) : lines[j].size = "small"}})

SessionInfo(f) ==
    [file |-> f, size |-> Len(logs[f]),
     started |-> FirstTimestamp(logs[f]), last |-> LastTimestamp(logs[f])]

Walk(done) == [at |-> done, left |-> Folders, found |-> {}]

NoRow == [count |-> 0, started |-> 0, last |-> 0]
RowFrom(info) == [count |-> 1, started |-> info.started, last |-> info.last]

DiscoveryInit ==
    /\ \E old \in SUBSET Logs :
           logs = [f \in Logs |-> IF f \in old THEN <<[time |-> 1, size |-> "small"]>>
                                  ELSE <<>>]
    /\ clock = 1
    /\ phase = "startup"
    /\ scan = Walk("walking")
    /\ watch = [at |-> "idle"]
    /\ logEvents = {}
    /\ parsed = [f \in Logs |-> 0]
    /\ rows = [f \in Logs |-> NoRow]
    /\ behind = {}

\* A CLI writes a line.  Before the loop listens its event goes nowhere.
AppendLine(f) ==
    /\ clock < MaxClock /\ Len(logs[f]) < MaxLines
    /\ clock' = clock + 1
    /\ \E line \in LogLines :
           /\ line.time \in {0, clock'}
           /\ line.time = 0 => line.size = "small"
           /\ logs' = [logs EXCEPT ![f] = Append(@, line)]
    /\ logEvents' = IF phase = "running" THEN logEvents \cup {f} ELSE logEvents
    /\ behind' = behind \cup {f}
    /\ UNCHANGED <<phase, scan, watch, parsed, rows>>

\* One folder is read; what is in it now is what the walk knows of it.
ScanFolder(d) ==
    /\ scan.at = "walking" /\ d \in scan.left
    /\ LET here == {f \in Logs : FolderOf[f] = d /\ logs[f] # <<>> /\ ScannerKnows(f)}
       IN  scan' = [scan EXCEPT !.left = @ \ {d},
                                !.found = @ \cup {SessionInfo(f) : f \in here}]
    /\ UNCHANGED <<logs, clock, phase, watch, logEvents, parsed, rows, behind>>

-----------------------------------------------------------------------------
(* Startup: scan, list everything found, set the offsets, then listen.     *)

RegisterAll ==
    /\ phase = "startup" /\ scan.left = {}
    /\ phase' = "registered"
    /\ LET InfoOf(f) == {i \in scan.found : i.file = f}
       IN  /\ rows' = [f \in Logs |-> IF InfoOf(f) = {} THEN rows[f]
                                      ELSE RowFrom(CHOOSE i \in InfoOf(f) : TRUE)]
           /\ parsed' = [f \in Logs |-> IF InfoOf(f) = {} THEN parsed[f]
                                        ELSE (CHOOSE i \in InfoOf(f) : TRUE).size]
           /\ behind' = {f \in Logs : logs[f] # <<>> /\
                             \A i \in InfoOf(f) : i.size # Len(logs[f])}
    /\ scan' = Walk("waiting")
    /\ UNCHANGED <<logs, clock, watch, logEvents>>

Listen ==
    /\ phase = "registered"
    /\ phase' = "running"
    /\ UNCHANGED <<logs, clock, scan, watch, logEvents, parsed, rows, behind>>

-----------------------------------------------------------------------------
(* The watcher loop.                                                       *)

\* It looks at the name alone, in whatever folder: any .json with a short id
\* at its end is taken, and no .jsonl with anything else before its id.
WatcherKnows(f) == NameOf[f] \in {"uuid", "rollout", "short", "stray"}

\* An event; is the session listed?
TakeLogEvent(f) ==
    /\ watch.at = "idle" /\ f \in logEvents
    /\ logEvents' = logEvents \ {f}
    /\ watch' = IF WatcherKnows(f)
                THEN [at |-> "register", file |-> f, exists |-> rows[f].count > 0]
                ELSE watch
    /\ UNCHANGED <<logs, clock, phase, scan, parsed, rows, behind>>

NewRow(f) ==
    [count |-> rows[f].count + 1, last |-> clock,
     started |-> IF FirstTimestamp(logs[f]) > 0 THEN FirstTimestamp(logs[f]) ELSE clock]

\* Listed now, unless someone else did meanwhile.
ListWatched(f) == IF rows[f].count > 0 THEN rows[f] ELSE NewRow(f)

RegisterWatched ==
    /\ watch.at = "register"
    /\ rows' = IF watch.exists THEN rows
               ELSE [rows EXCEPT ![watch.file] = ListWatched(watch.file)]
    /\ watch' = [at |-> "parse", file |-> watch.file]
    /\ UNCHANGED <<logs, clock, phase, scan, logEvents, parsed, behind>>

\* The new lines; the latest of their times moves the last activity.
ParseWatched ==
    /\ watch.at = "parse"
    /\ LET f == watch.file
           new == {i \in DOMAIN logs[f] : i > parsed[f]}
       IN  /\ watch' = [at |-> "touch", file |-> f, upto |-> Len(logs[f]),
                        latest |-> LargestOf({logs[f][i].time : i \in new})]
           /\ parsed' = [parsed EXCEPT ![f] = Len(logs[f])]
    /\ UNCHANGED <<logs, clock, phase, scan, logEvents, rows, behind>>

\* Mutation: the last activity is whatever came last.
UpdateLastActivityAt_Any(f, time) ==
    [rows EXCEPT ![f].last = IF time > 0 THEN time ELSE @]

UpdateLastActivityAt(f, time) ==
    [rows EXCEPT ![f].last = IF time > @ THEN time ELSE @]

\* A file is caught up with when the lines seen are all the lines.
CaughtUp(f, upto) == IF upto = Len(logs[f]) THEN behind \ {f} ELSE behind

TouchWatched ==
    /\ watch.at = "touch"
    /\ rows' = UpdateLastActivityAt(watch.file, watch.latest)
    /\ behind' = CaughtUp(watch.file, watch.upto)
    /\ watch' = [at |-> "idle"]
    /\ UNCHANGED <<logs, clock, phase, scan, logEvents, parsed>>

\* The receiver lags behind the channel.
LoseLogEvent(f) ==
    /\ f \in logEvents
    /\ logEvents' = logEvents \ {f}
    /\ UNCHANGED <<logs, clock, phase, scan, watch, parsed, rows, behind>>

-----------------------------------------------------------------------------
(* The rescan.                                                             *)

StartRescan ==
    /\ phase = "running"
    /\ \/ scan.at = "waiting"
       \/ scan.at = "walking" /\ scan.left = {} /\ scan.found = {}
    /\ scan' = Walk("walking")
    /\ UNCHANGED <<logs, clock, phase, watch, logEvents, parsed, rows, behind>>

\* The next file found; is its session listed?
LookAt(info) ==
    /\ phase = "running" /\ scan.at = "walking" /\ scan.left = {}
    /\ info \in scan.found
    /\ scan' = [at |-> "settle", left |-> {}, found |-> scan.found \ {info},
                info |-> info, exists |-> rows[info.file].count > 0]
    /\ UNCHANGED <<logs, clock, phase, watch, logEvents, parsed, rows, behind>>

ListFound(info) ==
    IF rows[info.file].count > 0 THEN rows
    ELSE [rows EXCEPT ![info.file] = RowFrom(info)]

\* Mutation: a file that startup did not list is only looked at.
Settled_OnlyListed(info, exists) ==
    IF exists THEN UpdateLastActivityAt(info.file, info.last) ELSE rows

Settled(info, exists) ==
    IF exists THEN UpdateLastActivityAt(info.file, info.last) ELSE ListFound(info)

SettleInfo ==
    /\ scan.at = "settle"
    /\ LET info == scan.info
           f == info.file
       IN  /\ rows' = Settled(info, scan.exists)
           /\ parsed' = IF scan.exists THEN parsed ELSE [parsed EXCEPT ![f] = info.size]
           /\ behind' = IF scan.exists \/ rows[f].count = 0
                        THEN CaughtUp(f, info.size) ELSE behind
    /\ scan' = [at |-> "walking", left |-> {}, found |-> scan.found]
    /\ UNCHANGED <<logs, clock, phase, watch, logEvents>>

Scanning ==
    \/ \E d \in Folders : ScanFolder(d)
    \/ RegisterAll \/ Listen \/ StartRescan
    \/ \E info \in scan.found : LookAt(info)
    \/ SettleInfo

DiscoveryNext ==
    \/ Scanning
    \/ \E f \in Logs : AppendLine(f) \/ TakeLogEvent(f) \/ LoseLogEvent(f)
    \/ RegisterWatched \/ ParseWatched \/ TouchWatched

DiscoverySpec ==
    /\ DiscoveryInit /\ [][DiscoveryNext]_discoveryVars
    /\ WF_discoveryVars(Scanning)
-----------------------------------------------------------------------------
(* Properties.                                                             *)

\* A session has at most one row: the watcher loop and the rescan both ask
\* whether it is listed, wait, and list it.
\* (main.rs:1258-1306 and 1705-1748: a check before the wait, one after.)
RegisteredOnce == \A f \in Logs : rows[f].count <= 1

\* The times of a listed session: it does not end before it began (if both
\* are known), its last activity is not in the future, and once the watcher
\* loop or the rescan has seen all lines it is not before the last time that
\* can be read from the file, whoever came last with an older finding.
\* (scanner.rs:415-516, world.rs:244: stale findings are applied later.)
ActivityIsTrue ==
    \A f \in Logs : rows[f].count > 0 =>
        /\ rows[f].started # 0 /\ rows[f].last # 0 => rows[f].started <= rows[f].last
        /\ rows[f].last <= clock
        /\ f \notin behind => rows[f].last >= LastTimestamp(logs[f])

\* Both: what the list of sessions shows is true.
RowsAreTrue == RegisteredOnce /\ ActivityIsTrue

\* In the end every file with the name and in the place of a session is listed,
\* though its events came before the loop listened, or were lost.
\* (main.rs:1607: the rescan every 30 s.)
SessionsGetListed ==
    <>[](\A f \in Logs : logs[f] # <<>> /\ ScannerKnows(f) => rows[f].count > 0)
=============================================================================
