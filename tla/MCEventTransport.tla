-------------------------- MODULE MCEventTransport --------------------------
(* Small instances of EventTransport for TLC.                              *)
EXTENDS EventTransport

CONSTANTS messages, files

Capacity1 == [t \in Topics |-> 1]
=============================================================================
