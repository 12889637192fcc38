------------------------------ MODULE MCDaemon ------------------------------
(* Small instances of Daemon for TLC: a security module and a capability as  *)
(* in config/daemon.toml, a module that is not what it says, and the          *)
(* capability once more.                                                      *)
EXTENDS Daemon

MCConfigured == <<"filter", "ax", "odd", "ax">>
MCSecurity == {"filter"}
MCName == [l \in {"filter", "ax", "odd"} |-> l]
=============================================================================
