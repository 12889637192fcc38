--------------------------- MODULE VmChannel_proofs ---------------------------
(* Proofs about VmChannel, for any finite numbers of connection slots and    *)
(* any number of connections.                                                *)
EXTENDS VmChannel, FiniteSetTheorems, TLAPS

-----------------------------------------------------------------------------
(* The inductive invariant.                                                *)

StatusTypes ==
    /\ status \in Statuses /\ shown \in Statuses
    /\ step \in [Threads -> {"rest", "update", "snapshot", "push"}]
    /\ news \in [Threads -> AllNews \cup {NoNews}]
    /\ json \in [Threads -> Statuses]
    /\ ui \in {"away", "here", "off"}
    /\ current \subseteq Threads \cup {"ui"}
    /\ \A t \in Threads : step[t] = "update" => news[t] \in AllNews

ConnTypes ==
    /\ serving \in [Servers -> BOOLEAN]
    /\ thread \in [Guests -> {"none", "start", "registering", "registered", "opened", "recv",
                           "served", "closing", "closed"}]
    /\ guest \in [Guests -> {"here", "gone"}]
    /\ peer \in [BridgeGuests -> {"here", "gone"}]
    /\ active \subseteq Sockets /\ shut \subseteq Sockets /\ relays \subseteq Sockets
    /\ connects \in 0 .. MaxConnects

LifeTypes ==
    /\ health \in {"off", "wait", "probe", "pause", "done"}
    /\ main \in {"init", "starting", "run", "join_health", "stop_vsock", "join_vsock",
                 "stop_bridge", "join_bridge", "reset", "idle", "stopped"}

\* Threads between their two reports.
Reported == {g \in Guests : thread[g] \in {"opened", "recv", "served", "closing"}}
Over == main \in {"idle", "stopped"}

Counted ==
    /\ count \in Nat
    /\ ~Over => count = Cardinality(Reported)
    /\ Over => count = 0

\* What stop() has waited for stays as it is, and what init() starts is not
\* there before.
Joined ==
    /\ main \in {"init", "starting"} => health = "off"
    /\ main \in {"stop_vsock", "join_vsock", "stop_bridge", "join_bridge", "reset", "idle", "stopped"}
          => health \in {"off", "done"}
    /\ main \in {"join_vsock", "stop_bridge", "join_bridge", "reset", "idle", "stopped"}
          => ~serving["vsock"]
    /\ main \in {"stop_bridge", "join_bridge", "reset", "idle", "stopped"}
          => \A g \in VsockGuests : thread[g] = "none"
    /\ main \in {"join_bridge", "reset", "idle", "stopped"} => ~serving["bridge"]
    /\ main \in {"reset", "idle", "stopped"} => \A g \in BridgeGuests : thread[g] = "none"

\* Who can be in an update...State() call, and what the last one leaves.
AtRest ==
    /\ \A g \in Guests : thread[g] \notin {"opened", "closed"} => step[g] = "rest"
    /\ health \in {"off", "wait", "done"} => step[Health] = "rest"
    /\ main \notin {"starting", "idle"} => step[Main] = "rest"
    /\ Over => status.channel = "idle"
               \/ (main = "idle" /\ step[Main] = "update" /\ news[Main] = News("channel", "idle"))
    /\ main = "idle" /\ step[Main] = "update" => news[Main] = News("channel", "idle")

\* Somebody has the newest status still to push, or the UI has it.
Pending(t) == step[t] = "snapshot" \/ (step[t] = "push" /\ t \in current)
Newest == ui = "here" => "ui" \in current \/ \E t \in Threads : Pending(t)

IInv == StatusTypes /\ ConnTypes /\ LifeTypes /\ Counted /\ Joined /\ AtRest /\ Newest

LEMMA ThreadsApart ==
    /\ Health \in Threads /\ Main \in Threads /\ Health # Main /\ "ui" \notin Threads
    /\ Health \notin Guests /\ Main \notin Guests
    /\ \A g \in Guests : g \in Threads
    /\ \A t \in Threads : t \in Guests \/ t = Health \/ t = Main
    /\ \A g \in Guests : g \in VsockGuests \/ g \in BridgeGuests
    /\ \A g \in VsockGuests : g \in Guests /\ g \notin BridgeGuests
    /\ \A g \in BridgeGuests : g \in Guests /\ g \notin VsockGuests
BY GuestAssumption, ThreadAssumption DEF Guests, Threads

LEMMA ReportedFinite ==
    /\ IsFiniteSet(Reported) /\ Cardinality(Reported) \in Nat
    /\ Cardinality(Reported) <= Cardinality(Guests) /\ Cardinality(Guests) \in Nat
<1>1. Reported \subseteq Guests
  BY DEF Reported
<1>. QED  BY <1>1, ThreadAssumption, FS_Subset, FS_CardinalityType

LEMMA InitialTyped == InitialStatus \in Statuses
BY DEF InitialStatus, Statuses, VmStates, OpenClawStates, ChannelStates

LEMMA InvInit == Init => IInv
<1> SUFFICES ASSUME Init PROVE IInv
  OBVIOUS
<1>1. StatusTypes /\ ConnTypes /\ LifeTypes
  BY InitialTyped, BoundAssumption DEF Init, StatusTypes, ConnTypes, LifeTypes
<1>2. Counted
  <2>1. Reported = {}
    BY DEF Init, Reported
  <2>. QED  BY <2>1, FS_EmptySet DEF Init, Counted, Over
<1>3. Joined /\ AtRest /\ Newest
  BY ThreadsApart DEF Init, Joined, AtRest, Newest, Over
<1>. QED  BY <1>1, <1>2, <1>3 DEF IInv

LEMMA InvImplies == IInv => TypeOK /\ CountIsExact /\ NewsReachesUI /\ StoppedIsQuiet
<1> SUFFICES ASSUME IInv PROVE TypeOK /\ CountIsExact /\ NewsReachesUI /\ StoppedIsQuiet
  OBVIOUS
<1> USE DEF IInv
<1>1. count \in 0 .. Cardinality(Guests)
  BY ReportedFinite DEF Counted
<1>2. TypeOK
  BY <1>1 DEF TypeOK, StatusTypes, ConnTypes, LifeTypes
<1>3. CountIsExact
  BY DEF Counted, Over, CountIsExact, Reported
<1>4. NewsReachesUI
  BY DEF Newest, Pending, NewsReachesUI
<1>5. StoppedIsQuiet
  BY ThreadsApart DEF Joined, AtRest, Counted, Over, StoppedIsQuiet
<1>. QED  BY <1>2, <1>3, <1>4, <1>5

-----------------------------------------------------------------------------
(* update...State() and the UI.                                            *)

\* A call to update...State() takes a thread from rest.
LEMMA Told1 ==
    ASSUME StatusTypes, NEW t \in Threads, NEW field, NEW value, News(field, value) \in AllNews,
           Tell(t, field, value), UNCHANGED Told
    PROVE  /\ StatusTypes' /\ step[t] = "rest" /\ step' = [step EXCEPT ![t] = "update"]
           /\ \A s \in Threads : s # t => step'[s] = step[s] /\ news'[s] = news[s]
           /\ step'[t] = "update" /\ news'[t] = News(field, value)
           /\ (Newest => Newest')
<1>1. /\ step[t] = "rest" /\ step' = [step EXCEPT ![t] = "update"]
      /\ news' = [news EXCEPT ![t] = News(field, value)]
      /\ UNCHANGED <<status, json, ui, shown, current>>
  BY DEF Tell, Told
<1>2. StatusTypes'
  BY <1>1 DEF StatusTypes
<1>3. \A s \in Threads : Pending(s) => Pending(s)'
  BY <1>1 DEF StatusTypes, Pending
<1>4. Newest => Newest'
  BY <1>1, <1>3 DEF Newest
<1>. QED  BY <1>1, <1>2, <1>4 DEF StatusTypes

LEMMA NewsTyped ==
    /\ \A v \in VmStates : News("vm", v) \in AllNews
    /\ \A v \in OpenClawStates : News("openclaw", v) \in AllNews
    /\ \A v \in ChannelStates : News("channel", v) \in AllNews
BY DEF AllNews

LEMMA StatusUpdated ==
    ASSUME NEW s \in Statuses, NEW n \in AllNews
    PROVE  /\ [s EXCEPT ![n.field] = n.value] \in Statuses
           /\ n = News("channel", "idle") => [s EXCEPT ![n.field] = n.value].channel = "idle"
<1>1. CASE \E v \in VmStates : n = News("vm", v)
  BY <1>1 DEF News, Statuses, VmStates
<1>2. CASE \E v \in OpenClawStates : n = News("openclaw", v)
  BY <1>2 DEF News, Statuses, OpenClawStates
<1>3. CASE \E v \in ChannelStates : n = News("channel", v)
  BY <1>3 DEF News, Statuses, ChannelStates
<1>. QED  BY <1>1, <1>2, <1>3 DEF AllNews

LEMMA StatusKeeps ==
    ASSUME IInv, NEW t \in Threads, StatusStep(t)
    PROVE  IInv'
<1> USE DEF IInv
<1>1. UNCHANGED <<count, connVars, health, main>>
  BY DEF StatusStep, UpdateState, TakeSnapshot, PushStatus
<1>2. ConnTypes' /\ LifeTypes' /\ Counted' /\ Joined'
  BY <1>1 DEF ConnTypes, LifeTypes, Counted, Joined, Over, Reported, connVars
<1>3. \A s \in Threads : s # t => step'[s] = step[s] /\ news'[s] = news[s]
  BY DEF StatusStep, UpdateState, TakeSnapshot, PushStatus, StatusTypes
<1>4. step[t] # "rest" /\ step'[t] # "update"
  BY DEF StatusStep, UpdateState, TakeSnapshot, PushStatus, StatusTypes
<1>5. Over => t = Main /\ main = "idle"
  BY <1>4, ThreadsApart DEF AtRest, Joined, Over
<1>6. CASE UpdateState(t)
  <2>1. step[t] = "update" /\ news[t] \in AllNews
    BY <1>6 DEF UpdateState, StatusTypes
  <2>2. status' \in Statuses /\ (news[t] = News("channel", "idle") => status'.channel = "idle")
    <3>1. CASE status[news[t].field] = news[t].value
      <4>1. status' = status
        BY <1>6, <3>1 DEF UpdateState
      <4>2. news[t] = News("channel", "idle") => status.channel = "idle"
        BY <3>1 DEF News
      <4>. QED  BY <4>1, <4>2 DEF StatusTypes
    <3>2. CASE status[news[t].field] # news[t].value
      BY <1>6, <3>2, <2>1, StatusUpdated DEF UpdateState, StatusTypes
    <3>. QED  BY <3>1, <3>2
  <2>3. StatusTypes'
    BY <1>6, <2>2 DEF UpdateState, StatusTypes
  <2>4. AtRest'
    BY <1>1, <1>3, <1>4, <1>5, <2>1, <2>2, ThreadsApart DEF AtRest, Over, connVars
  <2>5. Newest'
    <3>1. CASE status[news[t].field] = news[t].value
      <4>1. \A s \in Threads : Pending(s) => Pending(s)'
        BY <1>6, <3>1, <1>3, <2>1 DEF UpdateState, Pending
      <4>. QED  BY <1>6, <3>1, <4>1 DEF UpdateState, Newest
    <3>2. CASE status[news[t].field] # news[t].value
      <4>1. Pending(t)'
        BY <1>6, <3>2 DEF UpdateState, Pending, StatusTypes
      <4>. QED  BY <4>1 DEF Newest
    <3>. QED  BY <3>1, <3>2
  <2>. QED  BY <1>2, <2>3, <2>4, <2>5
<1>7. CASE TakeSnapshot(t)
  <2>1. StatusTypes'
    BY <1>7 DEF TakeSnapshot, StatusTypes
  <2>2. AtRest'
    BY <1>7, <1>1, <1>3, <1>4, <1>5, ThreadsApart DEF TakeSnapshot, AtRest, Over, connVars
  <2>3. Pending(t)'
    BY <1>7 DEF TakeSnapshot, Pending, StatusTypes
  <2>. QED  BY <1>2, <2>1, <2>2, <2>3 DEF Newest
<1>8. CASE PushStatus(t)
  <2>1. StatusTypes'
    BY <1>8, InitialTyped DEF PushStatus, StatusTypes
  <2>2. AtRest'
    BY <1>8, <1>1, <1>3, <1>4, <1>5, ThreadsApart DEF PushStatus, AtRest, Over, connVars
  <2>3. Newest'
    <3>1. CASE t \in current
      BY <1>8, <3>1 DEF PushStatus, Newest
    <3>2. CASE t \notin current
      <4>1. current' = current /\ ui' = ui
        BY <1>8, <3>2 DEF PushStatus
      <4>2. \A s \in Threads : Pending(s) => Pending(s)'
        BY <1>8, <3>2, <4>1, <1>3 DEF PushStatus, Pending
      <4>. QED  BY <4>1, <4>2 DEF Newest
    <3>. QED  BY <3>1, <3>2
  <2>. QED  BY <1>2, <2>1, <2>2, <2>3
<1>. QED  BY <1>6, <1>7, <1>8 DEF StatusStep

LEMMA UIKeeps ==
    ASSUME IInv, UIConnects \/ UILeaves
    PROVE  IInv'
<1> USE DEF IInv
<1>1. UNCHANGED <<count, status, step, news, json, connVars, health, main>>
  BY DEF UIConnects, UILeaves, UIUnchanged
<1>2. ConnTypes' /\ LifeTypes' /\ Counted' /\ Joined' /\ AtRest'
  BY <1>1 DEF ConnTypes, LifeTypes, Counted, Joined, AtRest, Over, Reported, connVars
<1>3. StatusTypes' /\ Newest'
  BY <1>1, InitialTyped DEF UIConnects, UILeaves, StatusTypes, Newest
<1>. QED  BY <1>2, <1>3

-----------------------------------------------------------------------------
(* Connections.                                                            *)

\* A thread that moves between its two reports, or outside them.
LEMMA ThreadMoves ==
    ASSUME IInv, NEW g \in Guests, NEW at, thread' = [thread EXCEPT ![g] = at],
           at \in {"none", "start", "registering", "registered", "opened", "recv", "served",
                   "closing", "closed"},
           thread[g] \in {"opened", "recv", "served", "closing"} <=>
               at \in {"opened", "recv", "served", "closing"},
           step[g] = "rest", thread[g] # "none" \/ serving[ServerOf(g)],
           UNCHANGED <<count, statusVars, serving, health, main>>,
           guest' \in [Guests -> {"here", "gone"}], peer' \in [BridgeGuests -> {"here", "gone"}],
           active' \subseteq Sockets, shut' \subseteq Sockets, relays' \subseteq Sockets,
           connects' \in 0 .. MaxConnects
    PROVE  IInv'
<1> USE DEF IInv
<1>1. StatusTypes' /\ LifeTypes' /\ Newest'
  BY DEF StatusTypes, LifeTypes, Newest, Pending, statusVars
<1>2. ConnTypes'
  BY DEF ConnTypes
<1>3. Counted'
  <2>1. Reported' = Reported
    BY DEF Reported, ConnTypes
  <2>. QED  BY <2>1 DEF Counted, Over
<1>4. Joined'
  <2>1. g \in VsockGuests => ServerOf(g) = "vsock"
    BY DEF ServerOf
  <2>2. g \in BridgeGuests => ServerOf(g) = "bridge"
    BY ThreadsApart DEF ServerOf
  <2>. QED  BY <2>1, <2>2, ThreadsApart DEF Joined, ConnTypes
<1>5. AtRest'
  BY ThreadsApart DEF AtRest, Over, statusVars, ConnTypes
<1>. QED  BY <1>1, <1>2, <1>3, <1>4, <1>5

LEMMA SocketsOf == \A g \in BridgeGuests : Client(g) \in Sockets /\ Target(g) \in Sockets
BY DEF Client, Target, Sockets

LEMMA AcceptKeeps ==
    ASSUME IInv, NEW g \in Guests, Accept(g)
    PROVE  IInv'
<1>1. connects' \in 0 .. MaxConnects
  BY BoundAssumption DEF Accept, IInv, ConnTypes
<1>2. /\ guest' \in [Guests -> {"here", "gone"}] /\ peer' \in [BridgeGuests -> {"here", "gone"}]
      /\ active' \subseteq Sockets /\ shut' \subseteq Sockets /\ relays' \subseteq Sockets
  BY DEF Accept, IInv, ConnTypes
<1>3. step[g] = "rest"
  BY DEF Accept, IInv, AtRest
<1>. QED  BY <1>1, <1>2, <1>3, ThreadMoves DEF Accept

LEMMA ConnMovesKeep ==
    ASSUME IInv, NEW g \in Guests,
           \/ TargetFails(g) \/ RegisterClient(g) \/ RegisterTarget(g) \/ HandleFrame(g)
           \/ Serve(g) \/ RecvFails(g) \/ RelaysEnded(g) \/ ThreadEnds(g)
    PROVE  IInv'
<1> USE DEF TargetFails, RegisterClient, RegisterTarget, HandleFrame, Serve, RecvFails, RelaysEnded,
            ThreadEnds
<1>1. /\ UNCHANGED <<count, statusVars, serving, connects, health, main>>
      /\ guest' = guest \/ guest' = [guest EXCEPT ![g] = "gone"]
      /\ peer' = peer \/ peer' = [peer EXCEPT ![g] = "here"]
      /\ shut' = shut
      /\ \E at \in {"none", "registering", "registered", "recv", "served", "closing"} :
            /\ thread' = [thread EXCEPT ![g] = at]
            /\ thread[g] \in {"opened", "recv", "served", "closing"} <=>
                   at \in {"opened", "recv", "served", "closing"}
  BY DEF ConnUnchanged, sockVars
<1>2. /\ connects' \in 0 .. MaxConnects /\ guest' \in [Guests -> {"here", "gone"}]
      /\ peer' \in [BridgeGuests -> {"here", "gone"}] /\ shut' \subseteq Sockets
  BY <1>1 DEF IInv, ConnTypes
<1>3. active' \subseteq Sockets /\ relays' \subseteq Sockets
  BY SocketsOf DEF ConnUnchanged, sockVars, IInv, ConnTypes
<1>4. step[g] = "rest" /\ thread[g] # "none"
  BY DEF IInv, AtRest
<1>. QED  BY <1>1, <1>2, <1>3, <1>4, ThreadMoves

\* A relay ends, or the target does.
LEMMA RelaysKeep ==
    ASSUME IInv, NEW g \in BridgeGuests,
           PeerLeaves(g) \/ \E s \in {Client(g), Target(g)} : RelayEnds(g, s) \/ RelaySendFails(g, s)
    PROVE  IInv'
<1> USE DEF IInv
<1>1. /\ UNCHANGED <<count, statusVars, serving, thread, guest, active, shut, connects, health, main>>
      /\ relays' \subseteq relays
      /\ peer' = peer \/ peer' = [peer EXCEPT ![g] = "gone"]
  BY DEF PeerLeaves, RelayEnds, RelaySendFails, RelayUnchanged, ConnUnchanged
<1>2. StatusTypes' /\ ConnTypes' /\ LifeTypes' /\ Newest'
  BY <1>1 DEF StatusTypes, ConnTypes, LifeTypes, Newest, Pending, statusVars
<1>3. Counted' /\ Joined' /\ AtRest'
  BY <1>1 DEF Counted, Joined, AtRest, Over, Reported, statusVars
<1>. QED  BY <1>2, <1>3

LEMMA GuestLeavesKeeps ==
    ASSUME IInv, NEW g \in Guests, GuestLeaves(g)
    PROVE  IInv'
<1> USE DEF IInv
<1>1. /\ guest' = [guest EXCEPT ![g] = "gone"]
      /\ UNCHANGED <<count, statusVars, thread, sockVars, serving, connects, health, main>>
  BY DEF GuestLeaves, ConnUnchanged
<1>2. StatusTypes' /\ ConnTypes' /\ LifeTypes' /\ Newest'
  BY <1>1 DEF StatusTypes, ConnTypes, LifeTypes, Newest, Pending, statusVars, sockVars
<1>3. Counted' /\ Joined' /\ AtRest'
  BY <1>1 DEF Counted, Joined, AtRest, Over, Reported, statusVars
<1>. QED  BY <1>2, <1>3

LEMMA ConnOpenedKeeps ==
    ASSUME IInv, NEW g \in Guests, ConnOpened(g)
    PROVE  IInv'
<1> USE DEF IInv
<1>1. /\ thread[g] \in {"start", "registered"} /\ count' = count + 1 /\ thread' = [thread EXCEPT ![g] = "opened"]
      /\ UNCHANGED <<serving, connects, health, main, guest, sockVars>>
  BY DEF ConnOpened, ConnUnchanged, ConnTypes
<1>2. ~Over
  BY <1>1, ThreadsApart DEF Joined, Over
<1>3. Reported' = Reported \cup {g} /\ g \notin Reported
  BY <1>1 DEF Reported, ConnTypes
<1>4. Counted'
  <2>1. Cardinality(Reported \cup {g}) = Cardinality(Reported) + 1
    BY <1>3, ReportedFinite, FS_AddElement
  <2>. QED  BY <1>1, <1>2, <1>3, <2>1 DEF Counted, Over
<1>5. /\ StatusTypes' /\ Newest' /\ step'[g] = "update"
      /\ \A s \in Threads : s # g => step'[s] = step[s] /\ news'[s] = news[s]
  <2>1. News("channel", IF count' > 0 THEN "active" ELSE "idle") \in AllNews
    BY NewsTyped DEF ChannelStates
  <2>. QED  BY <2>1, Told1, ThreadsApart DEF ConnOpened, TellChannel
<1>6. ConnTypes' /\ LifeTypes'
  BY <1>1 DEF ConnTypes, LifeTypes, sockVars
<1>7. Joined'
  BY <1>1, ThreadsApart DEF Joined, ConnTypes
<1>8. AtRest'
  BY <1>1, <1>2, <1>5, ThreadsApart DEF AtRest, Over, ConnTypes
<1>. QED  BY <1>4, <1>5, <1>6, <1>7, <1>8

LEMMA ConnClosedKeeps ==
    ASSUME IInv, NEW g \in Guests, ConnClosed(g)
    PROVE  IInv'
<1> USE DEF IInv
<1>1. /\ thread[g] = "closing" /\ count' = (IF count > 0 THEN count - 1 ELSE 0)
      /\ thread' = [thread EXCEPT ![g] = "closed"] /\ guest' = [guest EXCEPT ![g] = "gone"]
      /\ UNCHANGED <<serving, connects, health, main, shut, relays>>
      /\ peer' \in [BridgeGuests -> {"here", "gone"}] /\ active' \subseteq Sockets
  BY DEF ConnClosed, ConnUnchanged, ConnTypes
<1>2. ~Over
  BY <1>1, ThreadsApart DEF Joined, Over
<1>3. Reported' = Reported \ {g} /\ g \in Reported
  BY <1>1 DEF Reported, ConnTypes
<1>4. Counted'
  <2>1. Cardinality(Reported \ {g}) = Cardinality(Reported) - 1
    BY <1>3, ReportedFinite, FS_RemoveElement
  <2>2. Cardinality(Reported') \in Nat
    BY <1>3, ReportedFinite, FS_RemoveElement, FS_CardinalityType
  <2>. QED  BY <1>1, <1>2, <1>3, <2>1, <2>2 DEF Counted, Over
<1>5. /\ StatusTypes' /\ Newest' /\ step'[g] = "update"
      /\ \A s \in Threads : s # g => step'[s] = step[s] /\ news'[s] = news[s]
  <2>1. News("channel", IF count' > 0 THEN "active" ELSE "idle") \in AllNews
    BY NewsTyped DEF ChannelStates
  <2>. QED  BY <2>1, Told1, ThreadsApart DEF ConnClosed, TellChannel
<1>6. ConnTypes' /\ LifeTypes'
  BY <1>1 DEF ConnTypes, LifeTypes
<1>7. Joined'
  BY <1>1, ThreadsApart DEF Joined, ConnTypes
<1>8. AtRest'
  BY <1>1, <1>2, <1>5, ThreadsApart DEF AtRest, Over, ConnTypes
<1>. QED  BY <1>4, <1>5, <1>6, <1>7, <1>8
-----------------------------------------------------------------------------
(* The health thread and the main thread.                                  *)

LEMMA HealthKeeps ==
    ASSUME IInv, HealthStep \/ PauseEnds
    PROVE  IInv'
<1> USE DEF IInv
<1>1. UNCHANGED <<count, connVars, main>> /\ health \notin {"off", "done"}
  BY DEF HealthStep, ConfirmVm, Probe, PauseEnds, HealthStops, HealthUnchanged
<1>2. ~Over /\ main \notin {"init", "starting"} /\ health' \in {"probe", "pause", "done"}
  BY <1>1 DEF Joined, Over, HealthStep, ConfirmVm, Probe, PauseEnds, HealthStops
<1>3. ConnTypes' /\ LifeTypes' /\ Counted'
  BY <1>1, <1>2 DEF ConnTypes, LifeTypes, Counted, Over, Reported, connVars
<1>4. Joined'
  BY <1>1, <1>2 DEF Joined, Over, connVars, HealthStep, ConfirmVm, Probe, PauseEnds, HealthStops
<1>5. CASE UNCHANGED statusVars /\ (health' = "done" => step[Health] = "rest")
  <2>1. StatusTypes' /\ Newest'
    BY <1>5 DEF StatusTypes, Newest, Pending, statusVars
  <2>2. AtRest'
    BY <1>1, <1>2, <1>5 DEF AtRest, Over, connVars, statusVars
  <2>. QED  BY <1>3, <1>4, <2>1, <2>2
<1>6. CASE /\ UNCHANGED Told /\ health' \in {"probe", "pause"}
           /\ \E field \in {"vm", "openclaw"}, value \in VmStates \cup OpenClawStates :
                 News(field, value) \in AllNews /\ Tell(Health, field, value)
  <2>1. /\ StatusTypes' /\ Newest'
        /\ \A s \in Threads : s # Health => step'[s] = step[s] /\ news'[s] = news[s]
    BY <1>6, Told1, ThreadsApart
  <2>2. AtRest'
    BY <1>1, <1>2, <1>6, <2>1, ThreadsApart DEF AtRest, Over, connVars, Told
  <2>. QED  BY <1>3, <1>4, <2>1, <2>2
<1>7. CASE ConfirmVm
  <2>1. "running" \in VmStates
    BY DEF VmStates
  <2>. QED  BY <1>7, <1>5, <1>6, <2>1, NewsTyped DEF ConfirmVm
<1>8. CASE Probe
  <2>1. \A state \in {"online", "offline"} : state \in OpenClawStates
    BY DEF OpenClawStates
  <2>. QED  BY <1>8, <1>6, <2>1, NewsTyped DEF Probe
<1>. QED  BY <1>7, <1>8, <1>5 DEF HealthStep, PauseEnds, HealthStops

LEMMA InitStepsKeep ==
    ASSUME IInv, VmmStarted \/ VmmFailed \/ StartHealthThread
    PROVE  IInv'
<1> USE DEF IInv
<1>1. UNCHANGED <<count, connVars>> /\ main \in {"init", "starting"} /\ main' \in {"starting", "run"}
  BY DEF VmmStarted, VmmFailed, StartHealthThread, MainUnchanged
<1>2. ~Over /\ ~Over' /\ health = "off" /\ step[Health] = "rest"
  BY <1>1 DEF Over, Joined, AtRest
<1>3. ConnTypes' /\ Counted'
  BY <1>1, <1>2 DEF ConnTypes, Counted, Over, Reported, connVars
<1>4. LifeTypes' /\ Joined'
  BY <1>1, <1>2 DEF LifeTypes, Joined, connVars, VmmStarted, VmmFailed, StartHealthThread, MainUnchanged
<1>5. CASE VmmStarted
  <2>1. News("vm", "starting") \in AllNews
    BY NewsTyped DEF VmStates
  <2>2. /\ StatusTypes' /\ Newest'
        /\ \A s \in Threads : s # Main => step'[s] = step[s] /\ news'[s] = news[s]
    BY <1>5, <2>1, Told1, ThreadsApart DEF VmmStarted
  <2>3. AtRest'
    BY <1>1, <1>2, <1>5, <2>2, ThreadsApart DEF VmmStarted, AtRest, Over, connVars, Told
  <2>. QED  BY <1>3, <1>4, <2>2, <2>3
<1>6. CASE VmmFailed \/ StartHealthThread
  <2>1. UNCHANGED statusVars
    BY <1>6 DEF VmmFailed, StartHealthThread, MainUnchanged
  <2>2. StatusTypes' /\ Newest'
    BY <2>1 DEF StatusTypes, Newest, Pending, statusVars
  <2>3. step[Main] = "rest"
    BY <1>6 DEF VmmFailed, StartHealthThread, AtRest
  <2>4. AtRest'
    BY <1>1, <1>2, <2>1, <2>3 DEF AtRest, Over, connVars, statusVars
  <2>. QED  BY <1>3, <1>4, <2>2, <2>4
<1>. QED  BY <1>5, <1>6

LEMMA StopKeeps ==
    ASSUME IInv, Stop
    PROVE  IInv'
<1> USE DEF IInv
<1>1. /\ UNCHANGED <<count, status, step, news, json, connVars, health>>
      /\ main = "run" /\ main' = "join_health" /\ ui' = "off"
      /\ shown' = InitialStatus /\ current' = current \ {"ui"}
  BY DEF Stop
<1>2. ConnTypes' /\ LifeTypes' /\ Counted' /\ Joined'
  BY <1>1 DEF ConnTypes, LifeTypes, Counted, Joined, Over, Reported, connVars
<1>3. StatusTypes' /\ Newest' /\ AtRest'
  BY <1>1, InitialTyped DEF StatusTypes, Newest, AtRest, Over, connVars
<1>. QED  BY <1>2, <1>3

LEMMA StopStepsKeep ==
    ASSUME IInv, StopSteps
    PROVE  IInv'
<1> USE DEF IInv
<1>1. health' = health /\ thread' = thread /\ guest' = guest /\ connects' = connects
  BY DEF StopSteps, JoinHealth, StopVsock, JoinVsock, StopBridge, JoinBridge, Reset, Stopped,
         MainUnchanged, connVars
<1>2. /\ \A s \in Servers : serving'[s] => serving[s]
      /\ serving' \in [Servers -> BOOLEAN]
      /\ peer' = peer /\ relays' = relays /\ active' \subseteq Sockets /\ shut' \subseteq Sockets
  BY DEF StopSteps, JoinHealth, StopVsock, JoinVsock, StopBridge, JoinBridge, Reset, Stopped,
         MainUnchanged, connVars, sockVars, ConnTypes, Servers
<1>3. ConnTypes'
  BY <1>1, <1>2 DEF ConnTypes
<1>4. LifeTypes'
  BY <1>1 DEF LifeTypes, StopSteps, JoinHealth, StopVsock, JoinVsock, StopBridge, JoinBridge,
              Reset, Stopped
<1>5. Joined'
  <2>1. CASE JoinHealth \/ Stopped
    BY <2>1, <1>1 DEF Joined, JoinHealth, Stopped, MainUnchanged, connVars
  <2>2. CASE StopVsock \/ StopBridge
    BY <2>2, <1>1 DEF Joined, StopVsock, StopBridge, ConnTypes, Servers
  <2>3. CASE JoinVsock \/ JoinBridge \/ Reset
    BY <2>3, <1>1 DEF Joined, JoinVsock, JoinBridge, Reset, MainUnchanged, connVars
  <2>. QED  BY <2>1, <2>2, <2>3 DEF StopSteps
<1>6. CASE Reset
  <2>1. News("channel", "idle") \in AllNews
    BY NewsTyped DEF ChannelStates
  <2>2. /\ StatusTypes' /\ Newest' /\ news'[Main] = News("channel", "idle") /\ step'[Main] = "update"
        /\ \A s \in Threads : s # Main => step'[s] = step[s] /\ news'[s] = news[s]
    BY <1>6, <2>1, Told1, ThreadsApart DEF Reset
  <2>3. main = "reset" /\ main' = "idle" /\ count' = 0
    BY <1>6 DEF Reset
  <2>4. Counted'
    BY <2>3 DEF Counted, Over
  <2>5. AtRest'
    BY <1>1, <2>2, <2>3, ThreadsApart DEF AtRest, Over
  <2>. QED  BY <1>3, <1>4, <1>5, <2>2, <2>4, <2>5
<1>7. CASE ~Reset
  <2>1. UNCHANGED <<count, statusVars>> /\ main # "stopped" /\ (main' = "stopped" <=> main = "idle")
        /\ main' # "idle" /\ main # "starting" /\ main' # "starting" /\ step[Main] = "rest"
    BY <1>7 DEF StopSteps, JoinHealth, StopVsock, JoinVsock, StopBridge, JoinBridge, Stopped,
                MainUnchanged, AtRest
  <2>2. StatusTypes' /\ Newest'
    BY <2>1 DEF StatusTypes, Newest, Pending, statusVars
  <2>3. Over' <=> Over
    BY <2>1 DEF Over
  <2>4. Counted'
    BY <2>1, <2>3, <1>1 DEF Counted, Reported
  <2>5. AtRest'
    BY <2>1, <2>3, <1>1 DEF AtRest, statusVars
  <2>. QED  BY <1>3, <1>4, <1>5, <2>2, <2>4, <2>5
<1>. QED  BY <1>6, <1>7

-----------------------------------------------------------------------------
LEMMA InvNext == IInv /\ [Next]_vars => IInv'
<1> SUFFICES ASSUME IInv, [Next]_vars PROVE IInv'
  OBVIOUS
<1>1. CASE UNCHANGED vars
  BY <1>1 DEF IInv, vars, statusVars, connVars, StatusTypes, ConnTypes, LifeTypes, Counted, Joined,
              AtRest, Newest, Pending, Over, Reported
<1>2. CASE \E t \in Threads : StatusStep(t)
  BY <1>2, StatusKeeps
<1>3. CASE UIConnects \/ UILeaves
  BY <1>3, UIKeeps
<1>4. CASE \E g \in Guests :
              Accept(g) \/ TargetFails(g) \/ HandleFrame(g) \/ GuestLeaves(g) \/ ConnStep(g)
  BY <1>4, AcceptKeeps, ConnMovesKeep, GuestLeavesKeeps, ConnOpenedKeeps, ConnClosedKeeps
     DEF ConnStep
<1>5. CASE \E g \in BridgeGuests :
              \/ PeerLeaves(g)
              \/ \E s \in {Client(g), Target(g)} : RelayEnds(g, s) \/ RelaySendFails(g, s)
  BY <1>5, RelaysKeep
<1>6. CASE HealthStep \/ PauseEnds
  BY <1>6, HealthKeeps
<1>7. CASE VmmStarted \/ VmmFailed \/ StartHealthThread
  BY <1>7, InitStepsKeep
<1>8. CASE Stop \/ StopSteps
  BY <1>8, StopKeeps, StopStepsKeep
<1>. QED  BY <1>1, <1>2, <1>3, <1>4, <1>5, <1>6, <1>7, <1>8 DEF Next

THEOREM InvHolds == Spec => []IInv
BY InvInit, InvNext, PTL DEF Spec

\* The variables keep their types, whatever order connections, the health
\* thread, the UI and stop() (daemon.cc) take.
THEOREM TypeCorrect == Spec => []TypeOK
BY InvHolds, InvImplies, PTL

\* vm_gateway_connection_count_ is the number of connections that have reported
\* and have not left (Daemon::onChannelConnectionChanged()).
THEOREM CounterIsExact == Spec => []CountIsExact
BY InvHolds, InvImplies, PTL

\* pushStatus() leaves no connected UI with an old status unless a thread still
\* has it to push.
THEOREM NewsIsPushed == Spec => []NewsReachesUI
BY InvHolds, InvImplies, PTL

\* Daemon::stop() returns when every thread it started has ended, with the
\* counter and the channel state reset.
THEOREM StopLeavesQuiet == Spec => []StoppedIsQuiet
BY InvHolds, InvImplies, PTL
=============================================================================
