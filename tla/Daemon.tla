------------------------------- MODULE Daemon -------------------------------
(***************************************************************************)
(* The life of the daemon (daemon-service/daemon/daemon.cc, main.cc):      *)
(* Daemon::init() loads the modules and starts the servers of the VM,      *)
(* run() starts the pipe server and waits, stop() takes all of it down.    *)
(* Any connection of any server may be inside a module's code meanwhile.   *)
(*                                                                         *)
(* The servers of the VM (VmChannel) are their handler threads here: a     *)
(* Guest calls or does not.  What callCapability does is CapabilityService.*)
(***************************************************************************)
EXTENDS IpcServer, ModuleManager

CONSTANT Guests     \* threads of the vsock and gRPC servers

VARIABLES
    phase,          \* Daemon::init(), run() and stop()
    servers,        \* the servers of the VM accept calls
    guest           \* each of their threads: "idle" or "call"

vars == <<ipcVars, moduleVars, phase, servers, guest>>

Init ==
    /\ IpcInit /\ ModulesInit
    /\ phase = "load"
    /\ servers = FALSE
    /\ guest = [g \in Guests |-> "idle"]

PhaseGoes(from, to) == phase = from /\ phase' = to
ServersUnchanged == <<servers, guest>>

-----------------------------------------------------------------------------
(* init() and run().                                                       *)

Load ==
    /\ phase = "load"
    /\ LoadSteps
    /\ UNCHANGED <<ipcVars, phase, ServersUnchanged>>

\* A module that fails ends init() and the daemon: stop() finds nothing that
\* runs, and initialized_ is not set, so release() does nothing either.
LoadEnds ==
    /\ \/ Loaded /\ PhaseGoes("load", "serve") /\ UNCHANGED moduleVars
       \/ LoadFailed /\ PhaseGoes("load", "gone") /\ DropManager
    /\ UNCHANGED <<ipcVars, ServersUnchanged>>

\* The servers of the VM start; one that fails to is done without, and has no
\* thread that calls.
StartServers ==
    /\ PhaseGoes("serve", "run")
    /\ servers' = TRUE
    /\ UNCHANGED <<ipcVars, moduleVars, guest>>

\* The pipe server starts, or run() returns and ~Daemon() stops.
Run ==
    /\ phase = "run"
    /\ \/ IpcStart /\ phase' = "running"
       \/ IpcStartFails /\ phase' = "stop"
    /\ UNCHANGED <<moduleVars, ServersUnchanged>>

-----------------------------------------------------------------------------
(* The threads of the servers.                                             *)

GuestCalls(g) ==
    /\ servers /\ guest[g] = "idle"
    /\ guest' = [guest EXCEPT ![g] = "call"]
    /\ UNCHANGED <<ipcVars, moduleVars, phase, servers>>

GuestReturns(g) ==
    /\ guest[g] = "call"
    /\ guest' = [guest EXCEPT ![g] = "idle"]
    /\ UNCHANGED <<ipcVars, moduleVars, phase, servers>>

Serve ==
    /\ IpcSteps
    /\ UNCHANGED <<moduleVars, phase, ServersUnchanged>>

-----------------------------------------------------------------------------
(* stop().                                                                 *)

\* The shutdown event; UIService::stop() lets go whoever waits for the user.
Shutdown ==
    /\ PhaseGoes("running", "stop")
    /\ UNCHANGED <<ipcVars, moduleVars, ServersUnchanged>>

\* Faulty variant of StopServers: their threads are not joined.
StopServersOnly ==
    /\ PhaseGoes("stop", "stop_ipc")
    /\ servers' = FALSE
    /\ UNCHANGED <<ipcVars, moduleVars, guest>>

\* Each server's stop() joins its threads.
StopServers ==
    /\ PhaseGoes("stop", "stop_ipc")
    /\ \A g \in Guests : guest[g] = "idle"
    /\ servers' = FALSE
    /\ UNCHANGED <<ipcVars, moduleVars, guest>>

\* A server that was not started returns at once.
StopIpc ==
    /\ \/ IpcStop /\ PhaseGoes("stop_ipc", "join")
       \/ ~running /\ PhaseGoes("stop_ipc", "release") /\ UNCHANGED ipcVars
    /\ UNCHANGED <<moduleVars, ServersUnchanged>>

IpcStopped ==
    /\ stop = "down" /\ PhaseGoes("join", "release")
    /\ UNCHANGED <<ipcVars, moduleVars, ServersUnchanged>>

Release ==
    /\ phase = "release"
    /\ IF Released THEN phase' = "gone" /\ UNCHANGED moduleVars
                   ELSE ReleaseSteps /\ UNCHANGED phase
    /\ UNCHANGED <<ipcVars, ServersUnchanged>>

Main == Load \/ LoadEnds \/ StartServers \/ Run \/ StopServers \/ StopIpc \/ IpcStopped \/ Release

Next ==
    \/ Main \/ Shutdown \/ Serve
    \/ \E g \in Guests : GuestCalls(g) \/ GuestReturns(g)

Spec == Init /\ [][Next]_vars

\* Every thread runs, and a call returns.  Nobody need connect, call or shut
\* down, and CloseHandle need not end what is blocked on the handle.
FairSpec ==
    /\ Spec
    /\ WF_vars(Main \/ (Serve /\ Stopper)) /\ WF_vars(Serve /\ Acceptor)
    /\ \A w \in Workers : WF_vars(Serve /\ Worker(w))
    /\ \A g \in Guests : WF_vars(GuestReturns(g))

\* An assumption about the clients: none keeps its connection for ever.
LeavingClientsSpec == FairSpec /\ \A h \in Handles : WF_vars(Serve /\ ClientLeaves(h))

-----------------------------------------------------------------------------
(* Properties.                                                             *)

Phases == {"load", "serve", "run", "running", "stop", "stop_ipc", "join", "release", "gone"}

TypeOK ==
    /\ IpcTypeOK
    /\ loading.at \in {"open", "factory", "init", "register", "drop", "failed"}
    /\ library \in [Modules -> {"out", "loaded"}]
    /\ object \in [Modules -> {"none", "made", "ready", "released", "deleted"}]
    /\ Range(all_modules) \cup Range(dl_handles) \cup Range(capabilities) \cup chain \subseteq Modules
    /\ phase \in Phases
    /\ servers \in BOOLEAN
    /\ guest \in [Guests -> {"idle", "call"}]

InCall ==
    \/ \E w \in Workers : worker[w] = "call"
    \/ \E g \in Guests : guest[g] = "call"

\* While any connection is in a call, no module is still to be loaded, and each
\* that the call can reach has been initialised, is not released yet and has its
\* code: every thread of the servers starts after the last module is loaded and
\* ends before the first is released, however stop() finds it.
Reachable == Range(capabilities) \cup chain
CallsAreSafe ==
    InCall => Loaded /\ \A m \in Reachable : object[m] = "ready" /\ HasCode(m)

\* In the chain, or the last that was loaded under its name.
IsReached(m) ==
    \/ m \in chain
    \/ Name[Library(m)] \in DOMAIN capabilities /\ capabilities[Name[Library(m)]] >= m

\* dl_handles_ and all_modules_ correspond but for release(), which empties one
\* before the other, and a name never leads to a module that the manager does not
\* own any more, or that is not initialised, or has no code.  Until release()
\* every module it owns is reached, but for one that is not what it says and one
\* whose name a later module has taken.
RoutesAreOwned ==
    /\ phase # "release" => dl_handles = all_modules
    /\ Range(capabilities) \subseteq Range(all_modules)
    /\ \A m \in Range(capabilities) : object[m] \in {"ready", "released"} /\ HasCode(m)
    /\ phase \notin {"release", "gone"} =>
          /\ chain \subseteq Range(all_modules)
          /\ \A m \in Range(all_modules) : Library(m) \in Mistyped \/ IsReached(m)

\* After release() no code of a module runs: not even a destructor ran without
\* its library.
ReleaseKeepsCode ==
    [][ \A m \in Modules :
            object[m] = "released" /\ object'[m] = "deleted" => HasCode(m) ]_vars

\* Daemon::stop() returns, if clients leave and the acceptor has not looked at
\* running_ for the last time without having called ConnectNamedPipe yet.
CaughtStopReturns == stop = "cancel" /\ accept # "connect" ~> phase = "gone"

\* What a comment says and the code does not keep (README.md): a module is
\* deleted before its library is unloaded.
DeletedBeforeUnload == [][ \A m \in Modules :
    object[m] # "deleted" /\ object'[m] = "deleted" => HasCode(m) ]_vars
=============================================================================
