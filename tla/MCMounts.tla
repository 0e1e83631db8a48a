------------------------------ MODULE MCMounts ------------------------------
(* One thread of the kernel on one file and one directory, over two         *)
(* connections; the rpc thread runs beside it.                              *)
EXTENDS Mounts

=============================================================================
