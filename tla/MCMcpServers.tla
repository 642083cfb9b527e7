--------------------------- MODULE MCMcpServers ---------------------------
(* One harness with files of its own and OpenCode, whose files are merged. *)
EXTENDS McpServers

CONSTANTS plain, opencode, q1, q2, c1, c2, none

Harnesses == {plain, opencode}
Merged == {opencode}
Pair == {q1, q2}
Configs == {c1, c2}
Naming == {{}, {plain}}
ServesFn == (q1 :> Kinds) @@ (q2 :> {"enable"})
=============================================================================
