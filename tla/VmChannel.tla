----------------------------- MODULE VmChannel -----------------------------
(***************************************************************************)
(* The daemon's side of the VM: the two servers that guests connect to     *)
(* (vmm/ipc/vsock_server.cc for gateway frames, vmm/ipc/                   *)
(* vsock_bridge_server.cc in front of the gRPC server), one thread per     *)
(* connection, and what they and the health thread report to the UI: the   *)
(* connection counter, the three status fields and their pushes            *)
(* (daemon/daemon.cc), up to Daemon::stop(), which joins them all.         *)
(*                                                                         *)
(* The accept threads are folded into Accept: they only hand a connection  *)
(* to a new thread.  A push is one step, made under UIService's            *)
(* write_mutex_; a UI that connects is sent a status of its own.           *)
(***************************************************************************)
EXTENDS Naturals, FiniteSets

CONSTANTS
    VsockGuests,    \* connection slots of the frame server
    BridgeGuests,   \* connection slots of the bridge
    Health, Main,   \* the other two threads that update the status
    MaxConnects     \* bound: connections accepted

ASSUME GuestAssumption ==
    /\ VsockGuests \cap BridgeGuests = {}
    /\ {Health, Main} \cap (VsockGuests \cup BridgeGuests) = {}
    /\ Health # Main

ASSUME BoundAssumption == MaxConnects \in Nat

Guests == VsockGuests \cup BridgeGuests
Threads == Guests \cup {Health, Main}

ASSUME ThreadAssumption == IsFiniteSet(Guests) /\ "ui" \notin Threads

VARIABLES
    count,       \* vm_gateway_connection_count_
    status,      \* vm_state_, openclaw_state_, channel_state_
    step,        \* where each thread is in an update...State() call
    news,        \* its argument: the field and the value
    json,        \* the snapshot a thread is about to push
    ui, shown,   \* the UI: connected or not, and the status it shows if it is
    serving,     \* running_ of the two servers, by name
    thread,      \* each connection's thread
    guest,       \* the other end of each connection
    peer,        \* the bridge's target: the other end of each target socket
    active,      \* active_sockets_ of the bridge
    shut,        \* sockets that closeActiveSockets() closed
    relays,      \* relaySocketData() threads, by the socket they receive from
    health,      \* the health thread
    main,        \* Daemon::init(), run() and stop()
    connects,    \* connections accepted so far
    current      \* history: snapshots no older than the last change, and
                 \* "ui" if the UI was sent one since it connected

statusVars == <<status, step, news, json, ui, shown, current>>
connVars == <<serving, thread, guest, peer, active, shut, relays, connects>>
sockVars == <<peer, active, shut, relays>>
vars == <<count, statusVars, connVars, health, main>>

Servers == {"vsock", "bridge"}
Client(g) == <<g, "client">>
Target(g) == <<g, "target">>
Sockets == BridgeGuests \X {"client", "target"}
ServerOf(g) == IF g \in VsockGuests THEN "vsock" ELSE "bridge"

VmStates == {"stopped", "starting", "running"}
OpenClawStates == {"unknown", "online", "offline"}
ChannelStates == {"idle", "active"}
Statuses == [vm : VmStates, openclaw : OpenClawStates, channel : ChannelStates]
News(field, value) == [field |-> field, value |-> value]
AllNews == {News("vm", v) : v \in VmStates} \cup {News("openclaw", v) : v \in OpenClawStates}
           \cup {News("channel", v) : v \in ChannelStates}

NoNews == News("none", "none")
InitialStatus == [vm |-> "stopped", openclaw |-> "unknown", channel |-> "idle"]

Init ==
    /\ count = 0
    /\ status = InitialStatus
    /\ step = [t \in Threads |-> "rest"]
    /\ news = [t \in Threads |-> NoNews]
    /\ json = [t \in Threads |-> InitialStatus]
    /\ ui = "away"
    /\ shown = InitialStatus
    /\ serving = [s \in Servers |-> TRUE]
    /\ thread = [g \in Guests |-> "none"]
    /\ guest = [g \in Guests |-> "gone"]
    /\ peer = [g \in BridgeGuests |-> "gone"]
    /\ active = {}
    /\ shut = {}
    /\ relays = {}
    /\ health = "off"
    /\ main = "init"
    /\ connects = 0
    /\ current = {}

-----------------------------------------------------------------------------
(* updateVmState(), updateOpenClawState(), updateChannelState().           *)

Tell(t, field, value) ==
    /\ step[t] = "rest"
    /\ step' = [step EXCEPT ![t] = "update"]
    /\ news' = [news EXCEPT ![t] = News(field, value)]

Told == <<status, json, ui, shown, current>>

\* Faulty variant of UpdateState: only news of the channel is pushed.
UpdateStateQuietly(t) ==
    LET f == news[t].field IN
    /\ step[t] = "update"
    /\ IF f # "channel" \/ status[f] = news[t].value
       THEN step' = [step EXCEPT ![t] = "rest"]
       ELSE step' = [step EXCEPT ![t] = "snapshot"]
    /\ status' = [status EXCEPT ![f] = news[t].value]
    /\ current' = IF status' = status THEN current ELSE {}
    /\ news' = [news EXCEPT ![t] = NoNews]
    /\ UNCHANGED <<count, json, ui, shown, connVars, health, main>>

\* Under status_mutex_: no news is no push.
UpdateState(t) ==
    LET f == news[t].field IN
    /\ step[t] = "update"
    /\ IF status[f] = news[t].value
       THEN /\ step' = [step EXCEPT ![t] = "rest"]
            /\ UNCHANGED <<status, current>>
       ELSE /\ step' = [step EXCEPT ![t] = "snapshot"]
            /\ status' = [status EXCEPT ![f] = news[t].value]
            /\ current' = {}
    /\ news' = [news EXCEPT ![t] = NoNews]
    /\ UNCHANGED <<count, json, ui, shown, connVars, health, main>>

\* pushStatus(): the snapshot is taken under status_mutex_ ...
TakeSnapshot(t) ==
    /\ step[t] = "snapshot"
    /\ step' = [step EXCEPT ![t] = "push"]
    /\ json' = [json EXCEPT ![t] = status]
    /\ current' = current \cup {t}
    /\ UNCHANGED <<count, status, news, ui, shown, connVars, health, main>>

\* ... and pushed after it is released, to a UI that is connected.
PushStatus(t) ==
    /\ step[t] = "push"
    /\ step' = [step EXCEPT ![t] = "rest"]
    /\ shown' = IF ui = "here" THEN json[t] ELSE shown
    /\ current' = (current \ {t}) \cup (IF t \in current /\ ui = "here" THEN {"ui"} ELSE {})
    /\ json' = [json EXCEPT ![t] = InitialStatus]
    /\ UNCHANGED <<count, status, news, ui, connVars, health, main>>

UIUnchanged == <<count, status, step, news, json, connVars, health, main>>

\* UIService sends a UI that connects the status of that moment.
UIConnects ==
    /\ ui = "away"
    /\ ui' = "here"
    /\ shown' = status
    /\ current' = current \cup {"ui"}
    /\ UNCHANGED UIUnchanged

UILeaves ==
    /\ ui = "here"
    /\ ui' = "away"
    /\ shown' = InitialStatus
    /\ current' = current \ {"ui"}
    /\ UNCHANGED UIUnchanged

-----------------------------------------------------------------------------
(* Connections.                                                            *)

ConnUnchanged == <<serving, connects, health, main>>

\* accept() returns a client and a thread is made for it.
Accept(g) ==
    /\ thread[g] = "none" /\ serving[ServerOf(g)]
    /\ connects < MaxConnects
    /\ connects' = connects + 1
    /\ thread' = [thread EXCEPT ![g] = "start"]
    /\ guest' = [guest EXCEPT ![g] = "here"]
    /\ shut' = shut \ {Client(g), Target(g)}
    /\ UNCHANGED <<count, statusVars, serving, peer, active, relays, health, main>>

\* Faulty variant of TargetFails: the close is reported as any other.
TargetFailsReported(g) ==
    /\ g \in BridgeGuests /\ thread[g] = "start"
    /\ thread' = [thread EXCEPT ![g] = "closing"]
    /\ UNCHANGED <<ConnUnchanged, count, statusVars, guest, sockVars>>

\* connectTarget() fails: the client is closed before anyone was told.
TargetFails(g) ==
    /\ g \in BridgeGuests /\ thread[g] = "start"
    /\ thread' = [thread EXCEPT ![g] = "none"]
    /\ guest' = [guest EXCEPT ![g] = "gone"]
    /\ UNCHANGED <<ConnUnchanged, count, statusVars, sockVars>>

TellChannel(g) == Tell(g, "channel", IF count' > 0 THEN "active" ELSE "idle")

\* The target is connected; registerSocket() for one socket and then the other.
RegisterClient(g) ==
    /\ g \in BridgeGuests /\ thread[g] = "start"
    /\ thread' = [thread EXCEPT ![g] = "registering"]
    /\ peer' = [peer EXCEPT ![g] = "here"]
    /\ active' = active \cup {Client(g)}
    /\ UNCHANGED <<ConnUnchanged, count, statusVars, guest, shut, relays>>

RegisterTarget(g) ==
    /\ g \in BridgeGuests /\ thread[g] = "registering"
    /\ thread' = [thread EXCEPT ![g] = "registered"]
    /\ active' = active \cup {Target(g)}
    /\ UNCHANGED <<ConnUnchanged, count, statusVars, guest, peer, shut, relays>>

\* onChannelConnectionChanged(true).
ConnOpened(g) ==
    /\ thread[g] = (IF g \in BridgeGuests THEN "registered" ELSE "start")
    /\ count' = count + 1
    /\ TellChannel(g)
    /\ thread' = [thread EXCEPT ![g] = "opened"]
    /\ UNCHANGED <<ConnUnchanged, Told, guest, sockVars>>

\* Back from the handler, or at the top of the frame loop; the bridge starts its
\* two relays and joins them.
Serve(g) ==
    /\ thread[g] \in {"opened", "served"} /\ step[g] = "rest"
    /\ thread' = [thread EXCEPT ![g] =
                    IF g \in VsockGuests /\ ~serving["vsock"] THEN "closing" ELSE "recv"]
    /\ relays' = IF g \in BridgeGuests THEN relays \cup {Client(g), Target(g)} ELSE relays
    /\ UNCHANGED <<ConnUnchanged, count, statusVars, guest, peer, active, shut>>

\* A frame arrives and is handled; the response may find the guest gone.
HandleFrame(g) ==
    /\ g \in VsockGuests /\ thread[g] = "recv" /\ guest[g] = "here"
    /\ thread' = [thread EXCEPT ![g] = "served"]
    /\ UNCHANGED <<ConnUnchanged, count, statusVars, guest, sockVars>>

RecvFails(g) ==
    /\ g \in VsockGuests /\ thread[g] = "recv" /\ guest[g] = "gone"
    /\ thread' = [thread EXCEPT ![g] = "closing"]
    /\ UNCHANGED <<ConnUnchanged, count, statusVars, guest, sockVars>>

\* The end that a relay of g receives from, or sends to, is gone.
Lost(g, s) == s \in shut \/ (s = Client(g) /\ guest[g] = "gone") \/ (s = Target(g) /\ peer[g] = "gone")

RelayUnchanged == <<ConnUnchanged, count, statusVars, thread, guest, active, shut>>

\* Faulty variant of RelayEnds: a socket that is closed locally keeps blocking.
RelayEndsForPeer(g, s) ==
    /\ s \in relays /\ Lost(g, s) /\ s \notin shut
    /\ relays' = relays \ {s}
    /\ UNCHANGED <<RelayUnchanged, peer>>

\* relaySocketData(): recv() fails ...
RelayEnds(g, s) ==
    /\ s \in relays /\ Lost(g, s)
    /\ relays' = relays \ {s}
    /\ UNCHANGED <<RelayUnchanged, peer>>

\* ... or something was received that cannot be sent on.
RelaySendFails(g, s) ==
    /\ s \in relays /\ ~Lost(g, s) /\ Lost(g, IF s = Client(g) THEN Target(g) ELSE Client(g))
    /\ relays' = relays \ {s}
    /\ UNCHANGED <<RelayUnchanged, peer>>

\* The gRPC server ends a connection, and does so when it was told that nothing
\* more comes (the SD_SEND of the relay that ends).
PeerLeaves(g) ==
    /\ peer[g] = "here"
    /\ peer' = [peer EXCEPT ![g] = "gone"]
    /\ UNCHANGED <<RelayUnchanged, relays>>
PeerIsTold(g) == thread[g] = "recv" /\ Client(g) \notin relays /\ PeerLeaves(g)

\* Both relays are joined.
RelaysEnded(g) ==
    /\ g \in BridgeGuests /\ thread[g] = "recv" /\ {Client(g), Target(g)} \cap relays = {}
    /\ thread' = [thread EXCEPT ![g] = "closing"]
    /\ UNCHANGED <<ConnUnchanged, count, statusVars, guest, sockVars>>

\* The sockets are unregistered and closed, then onChannelConnectionChanged(false).
ConnClosed(g) ==
    /\ thread[g] = "closing"
    /\ count' = IF count > 0 THEN count - 1 ELSE 0
    /\ TellChannel(g)
    /\ thread' = [thread EXCEPT ![g] = "closed"]
    /\ guest' = [guest EXCEPT ![g] = "gone"]
    /\ peer' = [b \in BridgeGuests |-> IF b = g THEN "gone" ELSE peer[b]]
    /\ active' = active \ {Client(g), Target(g)}
    /\ UNCHANGED <<ConnUnchanged, Told, shut, relays>>

ThreadEnds(g) ==
    /\ thread[g] = "closed" /\ step[g] = "rest"
    /\ thread' = [thread EXCEPT ![g] = "none"]
    /\ UNCHANGED <<ConnUnchanged, count, statusVars, guest, sockVars>>

GuestLeaves(g) ==
    /\ guest[g] = "here"
    /\ guest' = [guest EXCEPT ![g] = "gone"]
    /\ UNCHANGED <<ConnUnchanged, count, statusVars, thread, sockVars>>

-----------------------------------------------------------------------------
(* The health thread.                                                      *)

HealthUnchanged == <<count, connVars, main>>

\* Five seconds after the start, if vmm.exe is still running.
ConfirmVm ==
    /\ health = "wait"
    /\ health' = "probe"
    /\ \/ Tell(Health, "vm", "running") /\ UNCHANGED Told
       \/ UNCHANGED statusVars
    /\ UNCHANGED HealthUnchanged

Probe ==
    /\ health = "probe"
    /\ health' = "pause"
    /\ \E state \in {"online", "offline"} : Tell(Health, "openclaw", state)
    /\ UNCHANGED <<HealthUnchanged, Told>>

PauseEnds ==
    /\ health = "pause" /\ step[Health] = "rest"
    /\ health' = "probe"
    /\ UNCHANGED <<HealthUnchanged, statusVars>>

\* Faulty variant of HealthStops: only the first wait watches the event.
HealthStopsEarly ==
    /\ health = "wait" /\ step[Health] = "rest"
    /\ main = "join_health"
    /\ health' = "done"
    /\ UNCHANGED <<HealthUnchanged, statusVars>>

\* health_stop_event_ is set.
HealthStops ==
    /\ health \in {"wait", "pause"} /\ step[Health] = "rest"
    /\ main = "join_health"
    /\ health' = "done"
    /\ UNCHANGED <<HealthUnchanged, statusVars>>

-----------------------------------------------------------------------------
(* The main thread: the end of init(), then stop().                        *)

MainUnchanged == <<count, statusVars, connVars, health>>

\* vmm_launcher_.start() succeeded; when it fails there is no health thread.
VmmStarted ==
    /\ main = "init"
    /\ main' = "starting"
    /\ Tell(Main, "vm", "starting")
    /\ UNCHANGED <<count, connVars, health, Told>>
VmmFailed ==
    /\ main = "init"
    /\ main' = "run"
    /\ UNCHANGED MainUnchanged

StartHealthThread ==
    /\ main = "starting" /\ step[Main] = "rest"
    /\ main' = "run"
    /\ health' = "wait"
    /\ UNCHANGED <<count, statusVars, connVars>>

\* stop(): the UI service goes first, then SetEvent(health_stop_event_).
Stop ==
    /\ main = "run"
    /\ main' = "join_health"
    /\ ui' = "off"
    /\ shown' = InitialStatus
    /\ current' = current \ {"ui"}
    /\ UNCHANGED <<count, status, step, news, json, connVars, health>>

JoinHealth ==
    /\ main = "join_health" /\ health \in {"off", "done"}
    /\ main' = "stop_vsock"
    /\ UNCHANGED MainUnchanged

\* running_ is cleared, the listening socket closed, the accept thread joined.
StopVsock ==
    /\ main = "stop_vsock"
    /\ main' = "join_vsock"
    /\ serving' = [serving EXCEPT !["vsock"] = FALSE]
    /\ UNCHANGED <<count, statusVars, thread, guest, sockVars, connects, health>>

JoinVsock ==
    /\ main = "join_vsock" /\ \A g \in VsockGuests : thread[g] = "none"
    /\ main' = "stop_bridge"
    /\ UNCHANGED MainUnchanged

\* As StopVsock, and closeActiveSockets() before the accept thread is joined.
StopBridge ==
    /\ main = "stop_bridge"
    /\ main' = "join_bridge"
    /\ serving' = [serving EXCEPT !["bridge"] = FALSE]
    /\ shut' = shut \cup active
    /\ active' = {}
    /\ UNCHANGED <<count, statusVars, thread, guest, peer, relays, connects, health>>

JoinBridge ==
    /\ main = "join_bridge" /\ \A g \in BridgeGuests : thread[g] = "none"
    /\ main' = "reset"
    /\ UNCHANGED MainUnchanged

\* The counter and the channel state are reset.
Reset ==
    /\ main = "reset"
    /\ main' = "idle"
    /\ count' = 0
    /\ Tell(Main, "channel", "idle")
    /\ UNCHANGED <<connVars, health, Told>>

Stopped ==
    /\ main = "idle" /\ step[Main] = "rest"
    /\ main' = "stopped"
    /\ UNCHANGED MainUnchanged

StopSteps ==
    JoinHealth \/ StopVsock \/ JoinVsock \/ StopBridge \/ JoinBridge \/ Reset \/ Stopped

-----------------------------------------------------------------------------
StatusStep(t) == UpdateState(t) \/ TakeSnapshot(t) \/ PushStatus(t)
ConnStep(g) ==
    \/ RegisterClient(g) \/ RegisterTarget(g) \/ ConnOpened(g) \/ Serve(g)
    \/ RecvFails(g) \/ RelaysEnded(g) \/ ConnClosed(g) \/ ThreadEnds(g)
HealthStep == ConfirmVm \/ Probe \/ HealthStops

Next ==
    \/ \E t \in Threads : StatusStep(t)
    \/ UIConnects \/ UILeaves
    \/ \E g \in Guests :
          Accept(g) \/ TargetFails(g) \/ HandleFrame(g) \/ GuestLeaves(g) \/ ConnStep(g)
    \/ \E g \in BridgeGuests :
          \/ PeerLeaves(g)
          \/ \E s \in {Client(g), Target(g)} : RelayEnds(g, s) \/ RelaySendFails(g, s)
    \/ HealthStep \/ PauseEnds
    \/ VmmStarted \/ VmmFailed \/ StartHealthThread \/ Stop \/ StopSteps

Spec == Init /\ [][Next]_vars

\* A thread that can run does, and the gRPC server ends a connection on which
\* nothing more comes.  Guests need not send, leave or connect, and
\* nobody need stop the daemon; SF because a pause may end or a stop be noticed.
ThreadFairness ==
    /\ \A t \in Threads : WF_vars(StatusStep(t))
    /\ \A g \in Guests : WF_vars(ConnStep(g))
    /\ \A g \in BridgeGuests :
          WF_vars(RelayEnds(g, Client(g))) /\ WF_vars(RelayEnds(g, Target(g))) /\ WF_vars(PeerIsTold(g))
    /\ WF_vars(HealthStep) /\ SF_vars(HealthStops)
    /\ WF_vars(StartHealthThread) /\ WF_vars(StopSteps)

FairSpec == Spec /\ ThreadFairness

-----------------------------------------------------------------------------
(* Properties.                                                             *)

TypeOK ==
    /\ count \in 0 .. Cardinality(Guests)
    /\ status \in Statuses /\ shown \in Statuses
    /\ step \in [Threads -> {"rest", "update", "snapshot", "push"}]
    /\ news \in [Threads -> AllNews \cup {NoNews}]
    /\ json \in [Threads -> Statuses]
    /\ ui \in {"away", "here", "off"}
    /\ serving \in [Servers -> BOOLEAN]
    /\ thread \in [Guests -> {"none", "start", "registering", "registered", "opened", "recv", "served", "closing", "closed"}]
    /\ guest \in [Guests -> {"here", "gone"}]
    /\ peer \in [BridgeGuests -> {"here", "gone"}]
    /\ active \subseteq Sockets /\ shut \subseteq Sockets /\ relays \subseteq Sockets
    /\ health \in {"off", "wait", "probe", "pause", "done"}
    /\ main \in {"init", "starting", "run", "join_health", "stop_vsock", "join_vsock",
                 "stop_bridge", "join_bridge", "reset", "idle", "stopped"}
    /\ connects \in 0 .. MaxConnects
    /\ current \subseteq Threads \cup {"ui"}

\* The counter is exact at every step and never falls below zero, so its clamp
\* never hides a miscount: it counts the threads between their two reports.
CountIsExact ==
    main \notin {"idle", "stopped"} =>
        count = Cardinality({g \in Guests : thread[g] \in {"opened", "recv", "served", "closing"}})

\* No news is lost: unless some thread still has it to push, a connected UI has
\* been sent a status that is no older than the last change.
NewsReachesUI ==
    ui = "here" => "ui" \in current \/ \E t \in Threads : step[t] \in {"snapshot", "push"}

\* When stop() has returned no thread of a connection or of the health check is
\* left to touch the daemon, and the status it leaves says idle.
StoppedIsQuiet ==
    main = "stopped" =>
        /\ \A t \in Threads : step[t] = "rest"
        /\ \A g \in Guests : thread[g] = "none"
        /\ health \in {"off", "done"}
        /\ count = 0 /\ status.channel = "idle"

\* A bridged connection of which closeActiveSockets() reaches a socket, perhaps
\* between the two registrations, comes to an end, and nobody waits for its guest.
ClosedBridgeEnds ==
    \A g \in BridgeGuests : {Client(g), Target(g)} \cap shut # {} ~> thread[g] = "none"

\* stop() returns when the guests go away.
StopReturnsWithoutGuests ==
    <>[](\A g \in Guests : guest[g] = "gone") => (main = "join_health" ~> main = "stopped")
=============================================================================
