-------------------------- MODULE MCVmmSupervisor --------------------------
(* A small instance of VmmSupervisor for TLC: it never writes .wslconfig.   *)
EXTENDS VmmSupervisor

MCConfigFiles == {<<>>}
=============================================================================
