---------------------------- MODULE MCLuaEvents ----------------------------
(* One timer, two console subscriptions, one line and one posted call.      *)
EXTENDS LuaEvents

=============================================================================
