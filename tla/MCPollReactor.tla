--------------------------- MODULE MCPollReactor ---------------------------
(* PollReactor on a small instance. *)
EXTENDS PollReactorProofs

CONSTANTS f1, f2, t1, t2, c1, c2
=============================================================================
