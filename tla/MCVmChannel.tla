----------------------------- MODULE MCVmChannel -----------------------------
(* Small instances of VmChannel for TLC.                                     *)
EXTENDS VmChannel, TLC

Symmetry == Permutations(VsockGuests)
=============================================================================
