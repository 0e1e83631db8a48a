---------------------------- MODULE MCDiscovery ----------------------------
(* Discovery on small instances: two networks of four addresses. *)
EXTENDS Discovery

CONSTANTS p1, p2

Asked == <<5, 9>>
Nets == {[addr |-> 4, bits |-> 2], [addr |-> 8, bits |-> 2]}
Served == <<[addr |-> 0, service |-> 1], [addr |-> 4, service |-> 2]>>
=============================================================================
