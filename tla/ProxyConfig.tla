----------------------------- MODULE ProxyConfig -----------------------------
(***************************************************************************)
(* The stored proxy configuration of one session: the stores that the HTTP *)
(* handlers of server/src/main.rs write, the delayed saves and the restore *)
(* at startup of server/src/proxy/persist.rs.                              *)
(*                                                                         *)
(* A handler writes its store, reads all four stores one after the other   *)
(* into a snapshot, and spawns a task that waits a second and overwrites   *)
(* the session's file in place.  No lock spans two of these steps.  What a *)
(* store holds is abstracted to the call that wrote it; the proxy mode to  *)
(* the modes that matter to interception.                                  *)
(***************************************************************************)
EXTENDS Naturals, Sequences, FiniteSets

CONSTANTS
    Calls,       \* HTTP calls; each runs once
    MaxCrashes   \* bound: crashes of the server

\* A store that no call wrote, no file and a torn file are told from every call.
ASSUME ConfigAssumption ==
    /\ MaxCrashes \in Nat
    /\ Calls \cap {"default", "missing", "torn"} = {}

Fields == <<"mode", "inject", "rewrite", "rules">>     \* the order of a snapshot
FieldSet == {Fields[i] : i \in DOMAIN Fields}
Default == [f \in FieldSet |-> "default"]
Missing == [f \in FieldSet |-> "missing"]
Torn == [f \in FieldSet |-> "torn"]

VARIABLES
    stores,     \* stores[f]: which call's value it holds
    modes,      \* modes[c]: the proxy mode call c sets
    intercept,  \* intercept_modes of the session
    call,       \* where each call stands, and what its snapshot has read
    saves,      \* tasks waiting to save, in the order they were spawned
    writing,    \* saves whose file is truncated and not yet written
    disk,       \* the file: Missing, Torn or what it holds
    crashes,
    raced,      \* history: a save was overtaken or held what was no longer true
    mixed       \* history: modes were set at once, or the intercept mode alone

configVars == <<stores, modes, intercept, call, saves, writing, disk, crashes, raced, mixed>>

\* intercept_mode_for_proxy_mode
InterceptModeFor(c) == IF c # "default" /\ modes[c] = "manual" THEN "manual" ELSE "auto"

Idle == [pc |-> "idle", kind |-> "none", read |-> <<>>]

ConfigInit ==
    /\ stores = Default /\ intercept = "auto"
    /\ modes \in [Calls -> {"auto", "manual"}]
    /\ call = [c \in Calls |-> Idle]
    /\ saves = <<>> /\ writing = {} /\ disk = Missing
    /\ crashes = 0 /\ raced = FALSE /\ mixed = FALSE

-----------------------------------------------------------------------------
(* The handlers.                                                           *)
At(c, pc) == call[c].pc = pc
Moves(c, pc) == call' = [call EXCEPT ![c].pc = pc]

\* What c is about to save already has its value of f.
HasRead(c, f) ==
    \/ call[c].kind = "all" /\ ~At(c, "done")
    \/ ~At(c, "done") /\ \E i \in 1 .. Len(call[c].read) : Fields[i] = f

Writes(c, f) ==
    /\ stores' = [stores EXCEPT ![f] = c]
    /\ raced' = (raced \/ \E d \in Calls \ {c} : HasRead(d, f))

SettingModes(c) == call[c].kind \in {"mode", "all", "intercept"} /\ ~At(c, "done")

\* network_rules and inject and rewrite routes: one store each, then the snapshot.
SetOne(c) ==
    /\ At(c, "idle")
    /\ \E f \in FieldSet \ {"mode"} :
          /\ Writes(c, f)
          /\ call' = [call EXCEPT ![c] = [pc |-> "snapshot", kind |-> f, read |-> <<>>]]
    /\ UNCHANGED <<modes, intercept, saves, writing, disk, crashes, mixed>>

\* The mode is stored first, then the intercept mode that follows from it.
SetProxyMode(c) ==
    /\ At(c, "idle")
    /\ Writes(c, "mode")
    /\ \E k \in {"mode", "all"} :
          call' = [call EXCEPT ![c] = [pc |-> "intercept", kind |-> k, read |-> <<>>]]
    /\ mixed' = \E d \in Calls \ {c} : SettingModes(d)
    /\ UNCHANGED <<modes, intercept, saves, writing, disk, crashes>>

FollowIntercept(c) ==
    /\ At(c, "intercept")
    /\ intercept' = InterceptModeFor(c)
    /\ Moves(c, IF call[c].kind = "all" THEN "inject" ELSE "snapshot")
    /\ UNCHANGED <<stores, modes, saves, writing, disk, crashes, raced, mixed>>

\* api_set_intercept_mode neither looks at the proxy mode nor saves.
SetInterceptMode(c) ==
    /\ At(c, "idle")
    /\ \E m \in {"auto", "manual"} : intercept' = m
    /\ call' = [call EXCEPT ![c] = [pc |-> "done", kind |-> "intercept", read |-> <<>>]]
    /\ mixed' = TRUE
    /\ UNCHANGED <<stores, modes, saves, writing, disk, crashes, raced>>

\* api_set_proxy_config goes on to the other stores.
SetRest(c) ==
    /\ \E i \in 2 .. 4 :
          /\ At(c, Fields[i])
          /\ Writes(c, Fields[i])
          /\ Moves(c, IF i = 4 THEN "schedule" ELSE Fields[i + 1])
    /\ UNCHANGED <<modes, intercept, saves, writing, disk, crashes, mixed>>

\* build_proxy_config_snapshot, a store at a time.
ReadSnapshot(c) ==
    /\ At(c, "snapshot") /\ Len(call[c].read) < Len(Fields)
    /\ call' = [call EXCEPT ![c].read = Append(@, stores[Fields[Len(@) + 1]])]
    /\ UNCHANGED <<stores, modes, intercept, saves, writing, disk, crashes, raced, mixed>>

\* The whole-configuration call saves its own body, the others their snapshot.
Snapshot(c) ==
    IF call[c].kind = "all" THEN [f \in FieldSet |-> c]
    ELSE [f \in FieldSet |-> call[c].read[CHOOSE i \in DOMAIN Fields : Fields[i] = f]]

ScheduleSave(c) ==
    /\ At(c, "schedule") \/ (At(c, "snapshot") /\ Len(call[c].read) = Len(Fields))
    /\ saves' = Append(saves, Snapshot(c))
    /\ call' = [call EXCEPT ![c].pc = "done", ![c].read = <<>>]
    /\ UNCHANGED <<stores, modes, intercept, writing, disk, crashes, raced, mixed>>

-----------------------------------------------------------------------------
(* Saving, crashing and starting again.                                    *)

\* The second is over, for tasks of the same tick in any order.  fs::write truncates.
SaveStarts ==
    \E i \in DOMAIN saves :
        /\ writing' = writing \cup {saves[i]}
        /\ saves' = SubSeq(saves, 1, i - 1) \o SubSeq(saves, i + 1, Len(saves))
        /\ disk' = Torn
        /\ raced' = (raced \/ i > 1 \/ writing # {})
        /\ UNCHANGED <<stores, modes, intercept, call, crashes, mixed>>

\* A write that fails is logged and left at that.
SaveEnds ==
    \E s \in writing :
        /\ writing' = writing \ {s}
        /\ \/ disk' = s /\ UNCHANGED raced
           \/ raced' = TRUE /\ UNCHANGED disk
        /\ UNCHANGED <<stores, modes, intercept, call, saves, crashes, mixed>>

\* load_config: a file that cannot be parsed counts as none.
Load(file) == IF file \in {Missing, Torn} THEN Default ELSE file

\* Mutation: the intercept mode is not restored.
Restored_ModeOnly(config) == "auto"

Restored(config) == InterceptModeFor(config["mode"])

\* A file not touched for 30 days is removed.
CleanupOldConfigs == {disk, Missing}

\* Calls and pending saves are gone; the start cleans up, then loads.
Crash ==
    /\ crashes < MaxCrashes
    /\ crashes' = crashes + 1
    /\ disk' \in CleanupOldConfigs
    /\ stores' = Load(disk')
    /\ intercept' = Restored(stores')
    /\ call' = [c \in Calls |-> IF At(c, "idle") THEN call[c] ELSE [call[c] EXCEPT !.pc = "done", !.read = <<>>]]
    /\ saves' = <<>> /\ writing' = {} /\ raced' = FALSE /\ mixed' = FALSE
    /\ UNCHANGED modes

Handler(c) ==
    \/ SetOne(c) \/ SetProxyMode(c) \/ FollowIntercept(c) \/ SetInterceptMode(c) \/ SetRest(c)
    \/ ReadSnapshot(c) \/ ScheduleSave(c)

ConfigNext == (\E c \in Calls : Handler(c)) \/ SaveStarts \/ SaveEnds \/ Crash

ConfigSpec == ConfigInit /\ [][ConfigNext]_configVars
-----------------------------------------------------------------------------
Quiet == (\A c \in Calls : call[c].pc \in {"idle", "done"}) /\ saves = <<>> /\ writing = {}

(* persist.rs:118: of several saves "last one wins".  When nothing is under *)
(* way the file holds what the stores hold, also after a crash, whatever   *)
(* number of calls ran and however they interleaved, unless a store was    *)
(* written between another call's reading it and its save, or saves of the *)
(* same tick overtook each other.  And the gate holds what the proxy mode  *)
(* says, also after a restart that restores only that, unless two calls    *)
(* set modes at once or the intercept mode was set by itself.              *)
SettledConfigIsSaved == Quiet =>
    /\ ~raced /\ disk # Torn => Load(disk) = stores
    /\ ~mixed => intercept = InterceptModeFor(stores["mode"])
=============================================================================
