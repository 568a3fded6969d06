------------------------------ MODULE MCParts ------------------------------
EXTENDS Parts

(* A file with a fallback, an empty one and a broken one.                   *)
Valid(p, q) == [is |-> "valid", says |-> [active |-> p, fallback |-> q]]

MCContents ==
  {Valid("a", "b")} \cup [is : {"missing", "empty", "broken"}]

(* The first summary is not for a model: it is translated already.          *)
MCPlain == {<<"summary", 1>>}

MCSettings == {{}, {"feishu", "webhook"}, {"telegram", "ntfy"}}
=============================================================================
