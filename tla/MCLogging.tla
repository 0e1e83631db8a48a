----------------------------- MODULE MCLogging -----------------------------
(* Logging on a small instance. *)
EXTENDS Logging

CONSTANTS t1, t2, c1, File

\* -l stdout -l syslog
TwoNames == <<Stdout, Syslog>>

\* log_output objects are alike: a new one is the lowest that is not in use.
InUse(o) == o \in slots \/ \E k \in Keys : out[k] = o
LowestFree == \A o, p \in Outputs : InUse(o)' /\ ~InUse(o) /\ p < o => InUse(p)
=============================================================================
