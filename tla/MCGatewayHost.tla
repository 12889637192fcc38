---------------------------- MODULE MCGatewayHost ----------------------------
(* A small instance of GatewayHost for TLC.                                   *)
EXTENDS GatewayHost, TLC

Cache(entries, ttl) == [entries |-> entries, ttl |-> ttl]
Flow(logs, risks, rate, burst) ==
    [logs |-> logs, risks |-> risks, rate |-> rate, burst |-> burst]

MCCachePolicies == {Cache(2, 1), Cache(1, 1)}
MCDefaultCache == Cache(2, 1)
MCFlowPolicies == {Flow(2, 1, 1, 2), Flow(1, 1, 2, 1)}
MCDefaultFlow == Flow(2, 1, 1, 2)

\* Commands and events share running_ and the lock, and are looked at in turn.
CommandsAtRest ==
    /\ command_queue = <<>> /\ inflight = {} /\ results = <<>> /\ awaited = {}
    /\ cache = DefaultCache
EventsAtRest ==
    /\ counts = NoEvents /\ limited_logs = 0
    /\ flow = DefaultFlow
CommandsOrEvents == CommandsAtRest \/ EventsAtRest

Symmetry == Permutations(Commands)
=============================================================================
