---------------------------- MODULE MCLuaObjects ---------------------------
(* Two objects of any kind and two connections.                            *)
EXTENDS LuaObjects

Symmetry == Permutations(Handles)
=============================================================================
