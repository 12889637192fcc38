---------------------------- MODULE MCUIService ----------------------------
(* Small instances of UIService for TLC.                                   *)
EXTENDS UIService, TLC

Symmetry == Permutations(Askers)
=============================================================================
