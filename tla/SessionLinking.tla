--------------------------- MODULE SessionLinking ---------------------------
(***************************************************************************)
(* How the JSONL file a CLI process writes is attached to the session the  *)
(* server spawned it for.  The server knows a managed session under an id  *)
(* of its own; the CLI picks another id and shows it only as a file name.  *)
(* The file watcher's loop and the periodic rescan (main.rs) both meet new *)
(* files, decide on an alias (ecs/world.rs) and list the session, while    *)
(* requests create and delete sessions and the server restarts.            *)
(*                                                                         *)
(* Every .await on a lock is a point where another task may run, so each   *)
(* task is a sequence of steps; the one lock held across such a point is   *)
(* the world's while an alias is written (WorldFree).                      *)
(***************************************************************************)
EXTENDS Naturals, FiniteSets, Functions, TLC

CONSTANTS
    Dirs,        \* project directories, as Claude encodes them in a path
    Files,       \* JSONL files; a file is named by the CLI's session id
    Managed,     \* the ids the server can draw for managed sessions
    NoDir,       \* "directory" of a file whose path encodes none
    Clis,        \* the CLIs a session can be created for
    Requests,    \* the <<directory, CLI>> pairs clients ask a session for
    DirOf,       \* DirOf[f]: the encoded directory of f, or NoDir
    CliOf,       \* CliOf[f]: the CLI that writes f
    PlanOf,      \* PlanOf[d]: the plan directory that matches d
    Old,         \* the files that exist when the server first starts
    MaxEvents,   \* bound: file events that reach the watcher
    MaxDeletes,  \* bound: delete requests
    MaxRestarts, \* bound: restarts of the server
    None

ASSUME LinkingAssumption ==
    /\ DirOf \in [Files -> Dirs \cup {NoDir}]
    /\ CliOf \in [Files -> Clis] /\ DOMAIN PlanOf = Dirs
    /\ \A f \in Files : CliOf[f] # "claude" => DirOf[f] = NoDir
    /\ Old \subseteq Files /\ Requests \subseteq Dirs \X Clis
    /\ Files \cap Managed = {} /\ None \notin Files \cup Managed

Ids == Files \cup Managed

VARIABLES
    files,     \* the JSONL files on disk
    listed,    \* session_index of the world
    alias,     \* session_aliases of the world
    paths,     \* session_paths
    msp,       \* managed_session_paths: directory -> managed session
    pending,   \* managed_pending_by_cli
    plans,     \* session_plan_mapping
    saved,     \* the managed sessions file: set of [sid, dir, plan]
    home,      \* the directory and CLI each managed session was spawned for
    events,    \* files with an event in the watcher's channel
    watcher, rescan,   \* the two tasks that link files
    create, delete,    \* the request of each kind being served
    found,     \* what the rescan's directory scan returned and is yet to do
    budget,    \* what the bounds still allow
    apart, removed   \* history, see below

linkingVars == <<files, listed, alias, paths, msp, pending, plans, saved, home, events,
                 watcher, rescan, create, delete, found, budget, apart, removed>>

\* apart:   files registered at startup and not deleted since.
\* removed: sessions that were deleted, or restored without being spawned.

Idle == [pc |-> "idle"]
Put(f, k, v) == [x \in DOMAIN f \cup {k} |-> IF x = k THEN v ELSE f[x]]
Drop(f, k) == Restrict(f, DOMAIN f \ {k})
Empty == [x \in {} |-> None]
ResolveAlias(f) == IF f \in DOMAIN alias THEN alias[f] ELSE f

\* A task that is removing the one-shot entries holds the world for writing.
WorldFree == watcher.pc \notin {"unmap", "unpend"} /\ rescan.pc \notin {"unmap", "unpend"}

(***************************************************************************)
(* Startup: the mappings of the previous run, then every file found on     *)
(* disk is registered under its own id.  No alias survives a restart.      *)
(***************************************************************************)
RestoredPaths(entries) ==
    [d \in {e.dir : e \in entries} |-> (CHOOSE e \in entries : e.dir = d).sid]

RestoredPlans(entries) ==
    LET bound == {e \in entries : e.plan # None}
    IN  [s \in {e.sid : e \in bound} |-> (CHOOSE e \in bound : e.sid = s).plan]

RestoredBindings(entries, disk) ==
    LET m == RestoredPaths(entries)
        p == RestoredPlans(entries)
        bound == {f \in disk : DirOf[f] \in DOMAIN m /\ m[DirOf[f]] \in DOMAIN p}
    IN  [f \in bound |-> p[m[DirOf[f]]]]

Startup(entries, disk) ==
    /\ listed' = disk
    /\ paths' = [f \in disk |-> f]
    /\ alias' = Empty
    /\ msp' = RestoredPaths(entries)
    /\ pending' = Empty
    /\ LET p == RestoredPlans(entries)
           b == RestoredBindings(entries, disk)
       IN  plans' = [s \in DOMAIN p \cup DOMAIN b |-> IF s \in DOMAIN p THEN p[s] ELSE b[s]]
    /\ events' = {} /\ found' = {}
    /\ watcher' = Idle /\ rescan' = Idle /\ create' = Idle /\ delete' = Idle
    /\ apart' = disk
    /\ removed' = {e.sid : e \in entries}

LinkingInit ==
    /\ files = Old /\ listed = Old
    /\ paths = [f \in Old |-> f]
    /\ alias = Empty /\ msp = Empty /\ pending = Empty /\ plans = Empty
    /\ saved = {} /\ home = Empty /\ events = {} /\ found = {}
    /\ watcher = Idle /\ rescan = Idle /\ create = Idle /\ delete = Idle
    /\ budget = [events |-> MaxEvents, deletes |-> MaxDeletes, restarts |-> MaxRestarts]
    /\ apart = Old /\ removed = {}

Restart ==
    /\ budget.restarts > 0
    /\ budget' = [budget EXCEPT !.restarts = @ - 1]
    /\ Startup(saved, files)
    /\ UNCHANGED <<files, saved, home>>

(***************************************************************************)
(* The outside: a CLI process, spawned by the server or started in a       *)
(* terminal, creates or appends to its file; the watcher's bounded channel *)
(* may lose the event.                                                     *)
(***************************************************************************)
CliWrites(f) ==
    /\ budget.events > 0
    /\ budget' = [budget EXCEPT !.events = @ - 1]
    /\ files' = files \cup {f}
    /\ events' \in {events, events \cup {f}}
    /\ UNCHANGED <<listed, alias, paths, msp, pending, plans, saved, home, watcher,
                   rescan, create, delete, found, apart, removed>>

(***************************************************************************)
(* Steps that the watcher loop and the rescan have in common.  A task is   *)
(* [pc, file, mid, eff, known]; the operators return its next value.       *)
(***************************************************************************)
Task(pc, f, mid, eff) == [pc |-> pc, file |-> f, mid |-> mid, eff |-> eff, known |-> FALSE]

\* Under the world's read lock: follow the alias, keep a known session, or look on.
Classify_Relinks(f) ==
    IF f \in DOMAIN alias THEN Task("path", f, None, alias[f])
    ELSE Task("byDir", f, None, f)

Classify(f) ==
    IF f \in DOMAIN alias THEN Task("path", f, None, alias[f])
    ELSE IF f \in listed THEN Task("path", f, None, f)
    ELSE Task("byDir", f, None, f)

\* managed_session_paths, then, for another CLI than Claude, the pending session.
ByDir(t) ==
    LET mid == IF DirOf[t.file] \in DOMAIN msp THEN msp[DirOf[t.file]] ELSE None
    IN  IF mid = None /\ CliOf[t.file] # "claude"
        THEN [t EXCEPT !.pc = "byCli"]
        ELSE [t EXCEPT !.mid = mid, !.pc = IF mid = None THEN "path" ELSE "alias"]

ByCli(t) ==
    LET c == CliOf[t.file]
    IN  IF c \in DOMAIN pending THEN [t EXCEPT !.mid = pending[c], !.pc = "alias"]
                                ELSE [t EXCEPT !.pc = "path"]

\* The one-shot removals; the directory's entry goes whatever it names by now.
Unmapped(t) == Drop(msp, DirOf[t.file])
Unpended(t) ==
    LET c == CliOf[t.file]
    IN  IF c \in DOMAIN pending /\ pending[c] = t.mid THEN Drop(pending, c) ELSE pending

AddAlias(t) == alias' = Put(alias, t.file, t.mid)

(***************************************************************************)
(* The watcher loop, one event at a time.                                  *)
(***************************************************************************)
WatcherTakes(f) ==
    /\ watcher.pc = "idle" /\ f \in events /\ WorldFree
    /\ events' = events \ {f}
    /\ watcher' = Classify(f)
    /\ UNCHANGED <<files, listed, alias, paths, msp, pending, plans, saved, home, rescan,
                   create, delete, found, budget, apart, removed>>

WatcherLooksUp ==
    /\ \/ watcher.pc = "byDir" /\ watcher' = ByDir(watcher)
       \/ watcher.pc = "byCli" /\ watcher' = ByCli(watcher)
    /\ UNCHANGED <<files, listed, alias, paths, msp, pending, plans, saved, home, events,
                   rescan, create, delete, found, budget, apart, removed>>

WatcherLinks ==
    /\ watcher.pc = "alias" /\ WorldFree
    /\ AddAlias(watcher)
    /\ watcher' = [watcher EXCEPT !.pc = "unmap", !.eff = watcher.mid]
    /\ UNCHANGED <<files, listed, paths, msp, pending, plans, saved, home, events, rescan,
                   create, delete, found, budget, apart, removed>>

WatcherUnmaps ==
    /\ \/ /\ watcher.pc = "unmap"
          /\ msp' = Unmapped(watcher)
          /\ watcher' = [watcher EXCEPT !.pc = "unpend"]
          /\ UNCHANGED pending
       \/ /\ watcher.pc = "unpend"
          /\ pending' = Unpended(watcher)
          /\ watcher' = [watcher EXCEPT !.pc = "path"]
          /\ UNCHANGED msp
    /\ UNCHANGED <<files, listed, alias, paths, plans, saved, home, events, rescan, create,
                   delete, found, budget, apart, removed>>

\* exists is read before session_paths is written, and checked again before spawn.
WatcherStoresPath ==
    /\ \/ /\ watcher.pc = "path" /\ WorldFree
          /\ watcher' = [watcher EXCEPT !.pc = "store", !.known = watcher.eff \in listed]
          /\ UNCHANGED paths
       \/ /\ watcher.pc = "store"
          /\ paths' = Put(paths, watcher.eff, watcher.file)
          /\ watcher' = IF watcher.known THEN Idle ELSE [watcher EXCEPT !.pc = "spawn"]
    /\ UNCHANGED <<files, listed, alias, msp, pending, plans, saved, home, events, rescan,
                   create, delete, found, budget, apart, removed>>

WatcherLists ==
    /\ watcher.pc = "spawn" /\ WorldFree
    /\ listed' = listed \cup {watcher.eff}
    /\ watcher' = Idle
    /\ UNCHANGED <<files, alias, paths, msp, pending, plans, saved, home, events, rescan,
                   create, delete, found, budget, apart, removed>>

(***************************************************************************)
(* The rescan: every 30 s the directories are scanned, then each file of   *)
(* the result is handled in turn, whatever has become of it since.         *)
(***************************************************************************)
RescanScans ==
    /\ rescan.pc = "idle" /\ found = {} /\ files # {}
    /\ found' = files
    /\ UNCHANGED <<files, listed, alias, paths, msp, pending, plans, saved, home, events,
                   watcher, rescan, create, delete, budget, apart, removed>>

RescanTakes(f) ==
    /\ rescan.pc = "idle" /\ f \in found /\ WorldFree
    /\ found' = found \ {f}
    /\ rescan' = Classify(f)
    /\ UNCHANGED <<files, listed, alias, paths, msp, pending, plans, saved, home, events,
                   watcher, create, delete, budget, apart, removed>>

RescanLooksUp ==
    /\ \/ rescan.pc = "byDir" /\ rescan' = ByDir(rescan)
       \/ rescan.pc = "byCli" /\ rescan' = ByCli(rescan)
    /\ UNCHANGED <<files, listed, alias, paths, msp, pending, plans, saved, home, events,
                   watcher, create, delete, found, budget, apart, removed>>

\* The rescan, unlike the loop, leaves an alias alone that appeared meanwhile.
RescanLinks ==
    /\ rescan.pc = "alias" /\ WorldFree
    /\ \/ /\ rescan.file \notin DOMAIN alias
          /\ AddAlias(rescan)
          /\ rescan' = [rescan EXCEPT !.pc = "unmap", !.eff = rescan.mid]
       \/ /\ rescan.file \in DOMAIN alias
          /\ rescan' = [rescan EXCEPT !.pc = "path", !.eff = rescan.mid]
          /\ UNCHANGED alias
    /\ UNCHANGED <<files, listed, paths, msp, pending, plans, saved, home, events, watcher,
                   create, delete, found, budget, apart, removed>>

RescanUnmaps ==
    /\ \/ /\ rescan.pc = "unmap"
          /\ msp' = Unmapped(rescan)
          /\ rescan' = [rescan EXCEPT !.pc = "unpend"]
          /\ UNCHANGED pending
       \/ /\ rescan.pc = "unpend"
          /\ pending' = Unpended(rescan)
          /\ rescan' = [rescan EXCEPT !.pc = "path"]
          /\ UNCHANGED msp
    /\ UNCHANGED <<files, listed, alias, paths, plans, saved, home, events, watcher, create,
                   delete, found, budget, apart, removed>>

\* Here the path is stored first and the world asked afterwards.
RescanStoresPath_NeverLists ==
    /\ rescan.pc = "path"
    /\ paths' = Put(paths, rescan.eff, rescan.file)
    /\ rescan' = Idle
    /\ UNCHANGED <<files, listed, alias, msp, pending, plans, saved, home, events, watcher,
                   create, delete, found, budget, apart, removed>>

RescanStoresPath ==
    /\ \/ /\ rescan.pc = "path"
          /\ paths' = Put(paths, rescan.eff, rescan.file)
          /\ rescan' = [rescan EXCEPT !.pc = "exists"]
       \/ /\ rescan.pc = "exists" /\ WorldFree
          /\ rescan' = IF rescan.eff \in listed THEN Idle ELSE [rescan EXCEPT !.pc = "spawn"]
          /\ UNCHANGED paths
    /\ UNCHANGED <<files, listed, alias, msp, pending, plans, saved, home, events, watcher,
                   create, delete, found, budget, apart, removed>>

RescanLists ==
    /\ rescan.pc = "spawn" /\ WorldFree
    /\ listed' = listed \cup {rescan.eff}
    /\ rescan' = Idle
    /\ UNCHANGED <<files, alias, paths, msp, pending, plans, saved, home, events, watcher,
                   create, delete, found, budget, apart, removed>>

(***************************************************************************)
(* POST /api/sessions/managed.  The session manager is locked for writing  *)
(* from the spawn to the answer, so there is one such request at a time.   *)
(***************************************************************************)
CreateSpawns(m, d, c) ==
    /\ create.pc = "idle" /\ m \notin DOMAIN home
    /\ home' = Put(home, m, [dir |-> d, cli |-> c])
    /\ create' = [pc |-> "world", sid |-> m, dir |-> d, cli |-> c]
    /\ UNCHANGED <<files, listed, alias, paths, msp, pending, plans, saved, events, watcher,
                   rescan, delete, found, budget, apart, removed>>

CreateLists ==
    /\ create.pc = "world" /\ WorldFree
    /\ listed' = listed \cup {create.sid}
    /\ create' = [create EXCEPT !.pc = "map"]
    /\ UNCHANGED <<files, alias, paths, msp, pending, plans, saved, home, events, watcher,
                   rescan, delete, found, budget, apart, removed>>

\* The directory's entry, then the plan whose directory matches, if one does; only
\* the persisting of the same request reads the plan.
CreateMaps ==
    /\ create.pc = "map"
    /\ msp' = Put(msp, create.dir, create.sid)
    /\ plans' = IF PlanOf[create.dir] = None THEN plans
                ELSE Put(plans, create.sid, PlanOf[create.dir])
    /\ create' = [create EXCEPT !.pc = IF create.cli = "claude" THEN "persist" ELSE "pend"]
    /\ UNCHANGED <<files, listed, alias, paths, pending, saved, home, events, watcher,
                   rescan, delete, found, budget, apart, removed>>

CreatePends ==
    /\ create.pc = "pend"
    /\ pending' = Put(pending, create.cli, create.sid)
    /\ create' = [create EXCEPT !.pc = "persist"]
    /\ UNCHANGED <<files, listed, alias, paths, msp, plans, saved, home, events, watcher,
                   rescan, delete, found, budget, apart, removed>>

\* Both maps are read-locked while the entries are built; the file is replaced whole.
PersistEntries ==
    {[sid |-> msp[d], dir |-> d,
      plan |-> IF msp[d] \in DOMAIN plans THEN plans[msp[d]] ELSE None] : d \in DOMAIN msp}

CreatePersists ==
    /\ create.pc = "persist"
    /\ saved' = PersistEntries
    /\ create' = Idle
    /\ UNCHANGED <<files, listed, alias, paths, msp, pending, plans, home, events, watcher,
                   rescan, delete, found, budget, apart, removed>>

(***************************************************************************)
(* DELETE /api/sessions/{id}, for a session the list shows.                *)
(***************************************************************************)
DeleteUnlists(s) ==
    /\ delete.pc = "idle" /\ s \in listed /\ WorldFree /\ budget.deletes > 0
    /\ budget' = [budget EXCEPT !.deletes = @ - 1]
    /\ listed' = listed \ {s}
    /\ delete' = [pc |-> "path", sid |-> s, file |-> None]
    /\ apart' = apart \ {s} /\ removed' = removed \cup {s}
    /\ UNCHANGED <<files, alias, paths, msp, pending, plans, saved, home, events, watcher,
                   rescan, create, found>>

DeleteReadsPath ==
    /\ delete.pc = "path"
    /\ delete' = IF delete.sid \in DOMAIN paths
                 THEN [delete EXCEPT !.pc = "file", !.file = paths[delete.sid]]
                 ELSE Idle
    /\ UNCHANGED <<files, listed, alias, paths, msp, pending, plans, saved, home, events,
                   watcher, rescan, create, found, budget, apart, removed>>

DeleteRemovesFile ==
    /\ delete.pc = "file"
    /\ files' = files \ {delete.file}
    /\ delete' = [delete EXCEPT !.pc = "forget"]
    /\ UNCHANGED <<listed, alias, paths, msp, pending, plans, saved, home, events, watcher,
                   rescan, create, found, budget, apart, removed>>

DeleteForgetsPath ==
    /\ delete.pc = "forget"
    /\ paths' = Drop(paths, delete.sid)
    /\ delete' = Idle
    /\ UNCHANGED <<files, listed, alias, msp, pending, plans, saved, home, events, watcher,
                   rescan, create, found, budget, apart, removed>>

WatcherStep == \/ \E f \in Files : WatcherTakes(f)
               \/ WatcherLooksUp \/ WatcherLinks \/ WatcherUnmaps
               \/ WatcherStoresPath \/ WatcherLists
RescanStep == \/ RescanScans
              \/ \E f \in Files : RescanTakes(f)
              \/ RescanLooksUp \/ RescanLinks \/ RescanUnmaps
              \/ RescanStoresPath \/ RescanLists
CreateStep == CreateLists \/ CreateMaps \/ CreatePends \/ CreatePersists
DeleteStep == DeleteReadsPath \/ DeleteRemovesFile \/ DeleteForgetsPath

LinkingNext ==
    \/ WatcherStep \/ RescanStep \/ CreateStep \/ DeleteStep
    \/ \E m \in Managed, r \in Requests : CreateSpawns(m, r[1], r[2])
    \/ \E s \in Ids : DeleteUnlists(s)
    \/ \E f \in Files : CliWrites(f)
    \/ Restart

\* The tasks and handlers run on tokio's workers and hold no lock for ever; a CLI,
\* a user and a crash need never act.  The rescan goes through its result in order,
\* so no file waits behind the others for ever.
LinkingSpec ==
    /\ LinkingInit /\ [][LinkingNext]_linkingVars
    /\ WF_linkingVars(WatcherStep) /\ WF_linkingVars(RescanStep)
    /\ WF_linkingVars(CreateStep) /\ WF_linkingVars(DeleteStep)

-----------------------------------------------------------------------------
\* A file is at home in its own session and in a managed session that was created
\* in its directory or, for a file whose path names none, for its CLI.
Belongs(f, s) ==
    \/ s = f
    \/ /\ s \in DOMAIN home
       /\ \/ home[s].dir = DirOf[f]
          \/ DirOf[f] = NoDir /\ home[s].cli = CliOf[f]

\* No session ever holds, serves or, in api_delete_session, removes a Claude file of
\* another project or a file of another CLI (of a Codex or Gemini file, whose path names
\* no project, the CLI is all the server goes by): aliases, session_paths and the path a
\* deletion has copied out of it only join what belongs together.  A session is bound to no plan but the
\* one of its own directory, before and after a restart carried the binding over.
\* "Existing sessions that happen to share the same project path must NOT be
\* aliased" (main.rs:1197): a session registered at startup and never deleted is
\* not linked to a managed one, however many are created in its directory.
NothingForeign ==
    /\ \A f \in DOMAIN alias : Belongs(f, alias[f])
    /\ \A s \in DOMAIN paths : Belongs(paths[s], s)
    /\ delete.pc \in {"file", "forget"} => Belongs(delete.file, delete.sid)
    /\ \A s \in DOMAIN plans :
           plans[s] = PlanOf[IF s \in Managed THEN home[s].dir ELSE DirOf[s]]
    /\ apart \cap DOMAIN alias = {}

\* Whatever events were lost and whichever of the two tasks met it first, a file
\* that stays on disk is in the end listed under the session it resolves to, and
\* that session has a path to be read from (main.rs:1258-1306, 1705-1748).
EveryFileIsListed ==
    \A f \in Files :
        (f \in files) ~> (f \notin files \/ ResolveAlias(f) \in listed \cap DOMAIN paths)
=============================================================================
