------------------------------ MODULE MCConsole -----------------------------
(* A pin, a file, an iterator and a bus on two addresses, two connections.   *)
EXTENDS Console, TLC

Symmetry == Permutations(Addrs)
=============================================================================
