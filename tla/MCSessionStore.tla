--------------------------- MODULE MCSessionStore ---------------------------
(* A small instance of SessionStore for TLC: a session of Claude and one   *)
(* of another tool.                                                        *)
EXTENDS SessionStore
=============================================================================
