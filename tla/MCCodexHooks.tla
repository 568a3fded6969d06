--------------------------- MODULE MCCodexHooks -----------------------------
(* One session: a turn with an approval and its answers, its stop, the end. *)
EXTENDS CodexHooks

Hook(s, t, n, u) == [session |-> s, turn |-> t, name |-> n, tool |-> u]

SomeIds ==
  {Hook("s1", "t1", "PermissionRequest", "run"), Hook("s1", "t1", "PostToolUse", "run"),
   Hook("s1", "t1", "UserPromptSubmit", ""), Hook("s1", "t1", "Stop", ""),
   Hook("s1", NoTurn, "SessionEnd", "")}

ASSUME SomeIds \subseteq EventIds({"s1", "s2"}, {"t1", "t2"}, {"run"})
=============================================================================
