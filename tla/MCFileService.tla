--------------------------- MODULE MCFileService ---------------------------
(* FileService on a small instance. *)
EXTENDS FileService, TLC

CONSTANTS t1, t2, h1, h2, n1, n2

Symmetry == Permutations(Threads) \cup Permutations(Fds)
=============================================================================
