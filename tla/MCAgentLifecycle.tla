-------------------------- MODULE MCAgentLifecycle --------------------------
(* AgentLifecycle on small instances. *)
EXTENDS AgentLifecycle

CONSTANTS w1, w2, c1, c2
=============================================================================
