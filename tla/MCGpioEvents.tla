---------------------------- MODULE MCGpioEvents ----------------------------
(* GpioEvents on a small instance: two handles that share a pin, and two    *)
(* numbers of descriptors that are used again.                              *)
EXTENDS GpioEvents

CONSTANTS p1, c1, c2, h1, h2, x1, x2, n1, n2

\* Handles, clients and helpers are alike: those used first are the first of
\* each kind, and all other behaviours are these under other names.
FirstFirst ==
  /\ pc[h1] = "unused" => pc'[h2] = "unused"
  /\ owner'[h1] \in {NoClient, c1}
  /\ (\A h \in Handles : hOf[h] # x1) => \A h \in Handles : hOf'[h] # x2

\* The loss of a connection that never opens a pin makes no difference.
UsersLeave == \A c \in online \ online' : \E h \in Handles : owner[h] = c

\* open(2) takes the lowest free number; no other file of the process has one.
LowestFree == file[n1] = NoHelper => file'[n2] \in {file[n2], NoHelper}
=============================================================================
