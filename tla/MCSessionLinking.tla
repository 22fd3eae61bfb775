-------------------------- MODULE MCSessionLinking --------------------------
(* A small instance of SessionLinking for TLC. *)
EXTENDS SessionLinking

CONSTANTS f_claude, f_codex, d1, d2, p1, p2

MCDirOf == (f_claude :> d1) @@ (f_codex :> NoDir)
MCCliOf == (f_claude :> "claude") @@ (f_codex :> "codex")
MCPlanOf == (d1 :> p1) @@ (d2 :> p2)
MCRequests == {<<d1, "claude">>, <<d1, "codex">>, <<d2, "gemini">>}
=============================================================================
