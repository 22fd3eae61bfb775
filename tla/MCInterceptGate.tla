--------------------------- MODULE MCInterceptGate ---------------------------
(* Small instances of InterceptGate for TLC.                               *)
EXTENDS InterceptGate, TLC

(* Request tasks are interchangeable, and so are sessions.                 *)
GateSymmetry == Permutations(Requests) \cup Permutations(Sessions)
=============================================================================
