----------------------------- MODULE MCSessions ------------------------------
(* Two parts of the server's handling of sessions, checked in one run: how    *)
(* their files are discovered, and how one session lives and ends.  They      *)
(* share no state; a behaviour picks one and the other keeps its first state. *)
EXTENDS Discovery, SessionLifecycle

VARIABLE focus

MCFolderOf == [c1 |-> "project", x1 |-> "day"]
MCLayoutOf == [project |-> "claude", day |-> "codex"]
MCNameOf == [c1 |-> "uuid", x1 |-> "prefixed"]

MCWrites == [m \in Messages |-> 2]

vars == <<focus, discoveryVars, lifecycleVars>>

Init ==
    /\ focus \in {"discovery", "lifecycle"}
    /\ DiscoveryInit /\ LifecycleInit
    /\ focus = "lifecycle" => \A f \in Logs : logs[f] = <<>>
    /\ focus = "discovery" => kind = "observed"

InDiscovery == focus = "discovery" /\ UNCHANGED <<focus, lifecycleVars>>
InLifecycle == focus = "lifecycle" /\ UNCHANGED <<focus, discoveryVars>>

Next ==
    \/ InDiscovery /\ DiscoveryNext
    \/ InLifecycle /\ LifecycleNext

\* The fairness of the two specifications.
Spec ==
    /\ Init /\ [][Next]_vars
    /\ WF_vars(InDiscovery /\ Scanning)
    /\ WF_vars(InLifecycle /\ ReaderProceeds)
    /\ WF_vars(InLifecycle /\ Detector)
    /\ WF_vars(InLifecycle /\ TailTask)
=============================================================================
