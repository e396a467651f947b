-------------------------- MODULE MCMachineConnection --------------------------
(* MachineConnection on small instances.                                       *)
EXTENDS MachineConnection, TLC

Symmetry == Permutations(Socks)

=============================================================================
