----------------------------- MODULE MCEventBus -----------------------------
(* Small instances of EventBus for TLC.                                    *)
EXTENDS EventBus, TLC

CONSTANTS p1, p2, messages, files, Jsonl, Watcher, k1, k2

Capacity1 == [t \in Topics |-> 1]

(* The bus treats tasks, topics, sources and keys each alike.              *)
BusSymmetry ==
    Permutations(Publishers) \cup Permutations(Topics) \cup Permutations(Sources) \cup Permutations(Keys)
=============================================================================
