------------------------------ MODULE MCDevices -----------------------------
(* Two I2C handles on one bus and an SPI device, two calls at once.          *)
EXTENDS Devices, TLC

\* nothing tells the calls, the handles or the slaves apart
Symmetry == Permutations(Calls) \cup Permutations(I2C) \cup Permutations(Slaves)

=============================================================================
