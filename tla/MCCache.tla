------------------------------- MODULE MCCache -------------------------------
(* Two parts that share no state, checked in one run: the cache of messages    *)
(* and the files behind it, and the locks of the tasks that use both.  A       *)
(* behaviour picks one and the other keeps its first state.                    *)
EXTENDS MessageCache, SharedLocks

CONSTANTS old, new, q1, q2

VARIABLE focus

RequestSymmetry == Permutations(Requests)

CacheAndLocksInit ==
    /\ focus \in {"cache", "locks"} /\ Init /\ LocksInit
    /\ focus = "locks" => missed = {}

CacheAndLocksNext ==
    \/ focus = "cache" /\ Next /\ UNCHANGED <<focus, locksVars>>
    \/ focus = "locks" /\ LocksNext /\ UNCHANGED <<focus, vars>>

CacheAndLocks == CacheAndLocksInit /\ [][CacheAndLocksNext]_<<focus, vars, locksVars>>
=============================================================================
