-------------------------- MODULE GuestClient_proofs --------------------------
(* Proofs about GuestClient, for any number of calls and of faults.          *)
EXTENDS GuestClient, TLAPS

-----------------------------------------------------------------------------
(* The inductive invariant, in five parts.                                 *)

ReplyTypes == [n : 1 .. MaxCalls, success : BOOLEAN, task : Nat]
RequestTypes == [n : 1 .. MaxCalls, tool : Tools, tag : Nat, conn : 0 .. faults]

Types ==
    /\ mode \in {"gateway", "legacy", "grpc", "auto"}
    /\ transport \in {"none", "vsock", "grpc"} /\ link \in {"none", "live", "dead"}
    /\ call \in [n : 0 .. MaxCalls, tool : Tools \cup {"none"},
                 at : {"rest", "connect", "send", "wait"}]
    /\ begun \in Nat /\ faults \in Nat /\ task \in Nat /\ open \subseteq 1 .. begun
    /\ ran \in [1 .. MaxCalls -> Nat]
    /\ call.at # "rest" => call.n # 0 /\ call.tool \in Tools
    /\ call.at \in {"send", "wait"} => link # "none"
    /\ inbox \subseteq RequestTypes
    /\ replies \in Seq(ReplyTypes)

\* A call is a request, or has been carried out, or neither, and calls to come
\* are neither.
Spent ==
    /\ OnceOnly
    /\ \A r \in inbox : ran[r.n] = 0 /\ r.n <= call.n
    /\ \A r, s \in inbox : r.n = s.n => r = s
    /\ \A n \in 1 .. MaxCalls : n > call.n => ran[n] = 0
    /\ call.at \in {"connect", "send"} => ran[call.n] = 0 /\ \A r \in inbox : r.n # call.n

\* What is on the present connection belongs to the call that waits.
Current(r) == r.conn = faults
OnWire ==
    /\ \A r \in inbox : Current(r) => r.n = call.n /\ At("wait") /\ link = "live" /\ replies = <<>>
    /\ replies # <<>> =>
        /\ At("wait") /\ link = "live"
        /\ Len(replies) = 1 /\ replies[1].n = call.n
        /\ replies[1].success => ran[call.n] = 1
        /\ \A r \in inbox : r.n # call.n

\* The request of the waiting call is about the current task.
Waiting == At("wait") => \A r \in inbox : r.n = call.n => r.tool = call.tool /\ r.tag = task

\* The tasks the guest has dropped.
Accounted ==
    /\ OpenIsAccounted
    /\ (replies # <<>> /\ replies[1].success /\ call.tool = "end") => open \subseteq lost

\* Where a task the guest still uses may have been closed.
Trusted(t) == t # 0 => t \in open \cup doubtful
TasksKnown ==
    /\ ~(At("wait") /\ call.tool = "end") => Trusted(task)
    /\ \A r \in inbox : r.tool = "end" => (r.n = call.n /\ At("wait")) \/ r.tag \in doubtful
    /\ \A r \in inbox : r.tool = "act" /\ r.n = call.n => Trusted(r.tag)
    /\ (replies # <<>> /\ replies[1].success /\ call.tool = "begin") => Trusted(replies[1].task)

IInv == Types /\ Spent /\ OnWire /\ Waiting /\ Accounted /\ TasksKnown

LEMMA InvInit == Init => IInv
BY GuestAssumption
   DEF Init, IInv, Types, Spent, OnWire, Waiting, Accounted, TasksKnown, Trusted, OnceOnly,
       OpenIsAccounted, Rest, Tools, At

LEMMA InvImplies == IInv => TypeOK /\ OnceOnly /\ OpenIsAccounted
BY DEF IInv, Types, TypeOK, Spent, Accounted, RequestTypes

-----------------------------------------------------------------------------
(* Sequences of at most one reply.                                         *)

LEMMA OneGoes ==
    ASSUME NEW S, NEW q \in Seq(S), Len(q) = 1, NEW i \in DOMAIN q
    PROVE  i = 1 /\ q[1] \in S /\ RemoveAt(q, i) = <<>>
BY DEF RemoveAt

LEMMA OneComes ==
    ASSUME NEW S, NEW e \in S
    PROVE  Append(<<>>, e) \in Seq(S) /\ Append(<<>>, e) # <<>>
           /\ Len(Append(<<>>, e)) = 1 /\ Append(<<>>, e)[1] = e
OBVIOUS

LEMMA SeqGrows ==
    ASSUME NEW S, NEW T, S \subseteq T, NEW q \in Seq(S)
    PROVE  q \in Seq(T)
OBVIOUS

-----------------------------------------------------------------------------
(* The client.                                                             *)

\* The history variables of a step that changes neither task nor wire.
LEMMA CallMoves ==
    ASSUME IInv, UNCHANGED <<mode, task, daemonVars, wireVars, historyVars>>,
           Types', ~At("wait"), ~At("wait")', call'.n = call.n, call'.tool = call.tool,
           call.at = "rest" => call'.at = "rest"
    PROVE  IInv'
<1> USE DEF IInv, daemonVars, wireVars, historyVars
<1>1. Spent'
  BY DEF Spent, OnceOnly, Types, At
<1>2. OnWire' /\ Waiting'
  BY DEF OnWire, Waiting, Current, At
<1>3. Accounted' /\ TasksKnown'
  BY DEF OnWire, Accounted, OpenIsAccounted, TasksKnown, Trusted, At
<1>. QED  BY <1>1, <1>2, <1>3

LEMMA ToolsCallKeeps ==
    ASSUME IInv, NEW tool \in Tools, ToolsCall(tool)
    PROVE  IInv'
<1> USE DEF IInv, daemonVars, wireVars, historyVars
<1>1. call.at = "rest" /\ call.n \in 0 .. MaxCalls /\ call.n < MaxCalls /\ MaxCalls \in Nat
      /\ call' = [n |-> call.n + 1, tool |-> tool, at |-> "connect"]
  BY GuestAssumption DEF ToolsCall, At, Types
<1>2. /\ call'.n = call.n + 1 /\ call'.tool = tool /\ call'.at = "connect"
      /\ call'.n \in 1 .. MaxCalls
  BY <1>1
<1>3. UNCHANGED <<mode, transport, link, task, daemonVars, wireVars, historyVars>>
  BY DEF ToolsCall
<1>4. Types'
  BY <1>1, <1>2, <1>3 DEF Types, RequestTypes, ReplyTypes
<1>5. Spent'
  BY <1>1, <1>2, <1>3 DEF Spent, OnceOnly, Types, RequestTypes
<1>6. OnWire' /\ Waiting'
  BY <1>1, <1>2, <1>3 DEF OnWire, Waiting, Current, At
<1>7. Accounted'
  BY <1>1, <1>3 DEF Accounted, OpenIsAccounted, OnWire, At
<1>8. TasksKnown'
  <2>1. \A r \in inbox : r.n # call.n + 1
    BY <1>1 DEF Spent, Types, RequestTypes
  <2>. QED  BY <2>1, <1>1, <1>2, <1>3 DEF TasksKnown, Trusted, OnWire, At
<1>. QED  BY <1>4, <1>5, <1>6, <1>7, <1>8

LEMMA EnsureConnectedKeeps ==
    ASSUME IInv, EnsureConnected
    PROVE  IInv'
<1> USE DEF IInv
<1>1. /\ call \in [n : 0 .. MaxCalls, tool : Tools \cup {"none"},
                   at : {"rest", "connect", "send", "wait"}]
      /\ call.at = "connect" /\ call'.at \in {"send", "rest"}
      /\ call' = [call EXCEPT !.at = call'.at]
  BY DEF EnsureConnected, At, Goto, Answered, Types
<1>2. call'.n = call.n /\ call'.tool = call.tool
  BY <1>1
<1>3. UNCHANGED <<mode, task, daemonVars, wireVars, historyVars>>
  BY DEF EnsureConnected
<1>4. /\ transport' \in {"none", "vsock", "grpc"} /\ link' \in {"none", "live", "dead"}
      /\ call'.at = "send" => link' # "none"
  <2>1. \A t \in Transports : t \in {"none", "vsock", "grpc"}
    BY DEF Transports, Types
  <2>2. link' \in {"none", "live", "dead"} /\ transport' \in {"none", "vsock", "grpc"}
    BY <2>1 DEF EnsureConnected, Connected, Types
  <2>3. call'.at = "send" => link' # "none"
    BY <1>1 DEF EnsureConnected, Connected, Goto, Answered
  <2>. QED  BY <2>2, <2>3
<1>5. Types'
  BY <1>1, <1>2, <1>3, <1>4
     DEF Types, daemonVars, wireVars, historyVars, RequestTypes, ReplyTypes
<1>. QED  BY <1>1, <1>2, <1>3, <1>5, CallMoves DEF At

LEMMA SendKeeps ==
    ASSUME IInv, NEW t \in 0 .. MaxCalls, Send(t)
    PROVE  IInv'
<1> USE DEF IInv, daemonVars, wireVars, historyVars
<1> DEFINE new == [n |-> call.n, tool |-> call.tool, tag |-> task', conn |-> faults]
<1>1. /\ call \in [n : 0 .. MaxCalls, tool : Tools \cup {"none"},
                   at : {"rest", "connect", "send", "wait"}]
      /\ call.at = "send" /\ call' = [call EXCEPT !.at = "wait"]
      /\ call.n # 0 /\ call.tool \in Tools /\ link = "live" /\ inbox' = inbox \cup {new}
  BY DEF Send, At, Goto, Types
<1>2. call'.n = call.n /\ call'.tool = call.tool /\ call'.at = "wait" /\ call.n \in 1 .. MaxCalls
  BY <1>1
<1>3. UNCHANGED <<mode, transport, link, replies, open, begun, ran, doubtful, faults>>
  BY DEF Send
<1>4. /\ task' \in Nat
      /\ call.tool # "end" => task' = task
      /\ lost' = lost \/ lost' = lost \cup ({task} \ {0, task'})
      /\ task' = task \/ lost' = lost \cup ({task} \ {0, task'})
  BY GuestAssumption DEF Send, Ends, Types
<1>5. new \in RequestTypes
  BY <1>1, <1>2, <1>4 DEF RequestTypes, Types
<1>6. replies = <<>>
  BY <1>1 DEF OnWire, At
<1>7. Types'
  <2>1. inbox' \subseteq RequestTypes'
    BY <1>1, <1>3, <1>5 DEF Types, RequestTypes
  <2>. QED  BY <2>1, <1>1, <1>2, <1>3, <1>4 DEF Types, ReplyTypes
<1>8. Spent'
  BY <1>1, <1>2, <1>3, <1>5 DEF Spent, OnceOnly, Types, RequestTypes
<1>9. \A r \in inbox : ~Current(r) /\ r.n # call.n
  BY <1>1 DEF OnWire, At, Spent
<1>10. OnWire' /\ Waiting'
  BY <1>1, <1>2, <1>3, <1>6, <1>9 DEF OnWire, Waiting, Current, At
<1>11. Accounted'
  BY <1>3, <1>4, <1>6 DEF Accounted, OpenIsAccounted, Types
<1>12. TasksKnown'
  BY <1>1, <1>2, <1>3, <1>4, <1>6, <1>9 DEF TasksKnown, Trusted, At
<1>. QED  BY <1>7, <1>8, <1>10, <1>11, <1>12

\* The reply that is received is the only one, and the call's own.
LEMMA Received ==
    ASSUME IInv, NEW i \in 1 .. MaxCalls, Receive(i)
    PROVE  /\ i = 1 /\ At("wait") /\ replies # <<>> /\ replies[1] \in ReplyTypes
           /\ replies[1].n = call.n /\ (replies[1].success => ran[call.n] = 1)
           /\ replies' = <<>>
           /\ \A r \in inbox : ~Current(r)
<1> USE DEF IInv
<1>1. i \in DOMAIN replies /\ replies' = RemoveAt(replies, i) /\ At("wait")
  BY DEF Receive
<1>2. replies # <<>>
  BY <1>1
<1>3. Len(replies) = 1 /\ replies \in Seq(ReplyTypes)
  BY <1>2 DEF OnWire, Types
<1>4. i = 1 /\ replies[1] \in ReplyTypes /\ replies' = <<>>
  BY <1>1, <1>3, OneGoes
<1>. QED  BY <1>1, <1>2, <1>4 DEF OnWire

LEMMA ReceiveKeeps ==
    ASSUME IInv, NEW i \in 1 .. MaxCalls, Receive(i)
    PROVE  IInv'
<1> USE DEF IInv, daemonVars
<1> DEFINE reply == replies[1]
<1>1. /\ i = 1 /\ call.at = "wait" /\ replies # <<>> /\ reply \in ReplyTypes
      /\ replies' = <<>> /\ \A r \in inbox : ~Current(r)
  BY Received DEF At
<1>2. /\ call \in [n : 0 .. MaxCalls, tool : Tools \cup {"none"},
                   at : {"rest", "connect", "send", "wait"}]
      /\ call' = [call EXCEPT !.at = "rest"]
  BY DEF Receive, Answered, Types
<1>3. call'.n = call.n /\ call'.tool = call.tool /\ call'.at = "rest"
  BY <1>2
<1>4. /\ UNCHANGED <<mode, transport, link, inbox, open, begun, ran, faults>>
      /\ doubtful' = doubtful \cup (IF call.tool = "end" /\ ~reply.success THEN {task} ELSE {})
  BY <1>1 DEF Receive
<1>5. Takes(reply)
  BY <1>1 DEF Receive
<1>6. reply.success \in BOOLEAN /\ reply.task \in Nat
  BY <1>1 DEF ReplyTypes
<1>7. \/ task' = task /\ lost' = lost /\ ~(reply.success /\ call.tool = "end")
      \/ /\ reply.success /\ call.tool = "begin" /\ task' = reply.task
         /\ lost' = (lost \ {reply.task}) \cup ({task} \ {0, reply.task})
      \/ reply.success /\ call.tool = "end" /\ task' = 0 /\ lost' = lost
  BY <1>5, <1>6 DEF Takes
<1>8. Types'
  <2>1. task' \in Nat
    BY <1>6, <1>7 DEF Types
  <2>2. replies' \in Seq(ReplyTypes') /\ inbox' \subseteq RequestTypes'
    BY <1>1, <1>4 DEF Types, RequestTypes
  <2>. QED  BY <2>1, <2>2, <1>2, <1>3, <1>4 DEF Types
<1>9. Spent'
  BY <1>3, <1>4 DEF Spent, OnceOnly
<1>10. OnWire' /\ Waiting'
  BY <1>1, <1>3, <1>4 DEF OnWire, Waiting, Current, At
<1>11. Accounted'
  BY <1>1, <1>4, <1>7 DEF Accounted, OpenIsAccounted, Types
<1>12. TasksKnown'
  <2>1. Trusted(task)'
    BY <1>1, <1>4, <1>6, <1>7 DEF TasksKnown, Trusted, At
  <2>2. \A r \in inbox : r.tool = "end" => r.tag \in doubtful'
    <3> SUFFICES ASSUME NEW r \in inbox, r.tool = "end", r.tag \notin doubtful
                 PROVE  r.tag \in doubtful'
      BY <1>4
    <3>1. r.n = call.n
      BY DEF TasksKnown
    <3>2. call.tool = "end" /\ r.tag = task
      BY <3>1, <1>1 DEF Waiting, At
    <3>3. ~reply.success
      <4>1. ran[r.n] = 0
        BY DEF Spent
      <4>2. reply.success => ran[call.n] = 1
        BY Received
      <4>. QED  BY <4>1, <4>2, <3>1
    <3>. QED  BY <3>2, <3>3, <1>4
  <2>3. \A r \in inbox : r.tool = "act" /\ r.n = call.n => Trusted(r.tag)'
    BY <1>4 DEF TasksKnown, Trusted
  <2>. QED  BY <2>1, <2>2, <2>3, <1>1, <1>3, <1>4 DEF TasksKnown, Trusted
<1>. QED  BY <1>8, <1>9, <1>10, <1>11, <1>12

\* The call ends without its answer, the client with or without its task, and
\* what is left in the inbox is from a connection that is gone.
LEMMA CallEnds ==
    ASSUME IInv, Types', inbox' = inbox, replies' = <<>>, faults' >= faults,
           UNCHANGED <<daemonVars, ran>>,
           call'.n = call.n, call'.tool = call.tool, call'.at = "rest",
           \A r \in inbox : r.conn # faults',
           doubtful \subseteq doubtful',
           At("wait") /\ call.tool = "end" => task \in doubtful',
           \/ task' = task /\ lost' = lost
           \/ task' = 0 /\ lost' = lost \cup ({task} \ {0})
    PROVE  IInv'
<1> USE DEF IInv, daemonVars
<1>1. Spent'
  BY DEF Spent, OnceOnly
<1>2. OnWire' /\ Waiting'
  BY DEF OnWire, Waiting, Current, At
<1>3. Accounted'
  BY DEF Accounted, OpenIsAccounted, Types
<1>4. TasksKnown'
  <2>1. Trusted(task)'
    BY DEF TasksKnown, Trusted
  <2>2. \A r \in inbox : r.tool = "end" => r.tag \in doubtful'
    <3> SUFFICES ASSUME NEW r \in inbox, r.tool = "end", r.tag \notin doubtful
                 PROVE  r.tag \in doubtful'
      OBVIOUS
    <3>1. r.n = call.n /\ At("wait")
      BY DEF TasksKnown
    <3>. QED  BY <3>1 DEF Waiting
  <2>3. \A r \in inbox : r.tool = "act" /\ r.n = call.n => Trusted(r.tag)'
    BY DEF TasksKnown, Trusted
  <2>. QED  BY <2>1, <2>2, <2>3 DEF TasksKnown, Trusted
<1>. QED  BY <1>1, <1>2, <1>3, <1>4

LEMMA FailsKeeps ==
    ASSUME IInv, Fails
    PROVE  IInv'
<1> USE DEF IInv
<1>1. /\ call \in [n : 0 .. MaxCalls, tool : Tools \cup {"none"},
                   at : {"rest", "connect", "send", "wait"}]
      /\ call' = [call EXCEPT !.at = "rest"] /\ link = "dead" /\ replies' = <<>>
      /\ link' \in {"live", "dead"}
      /\ UNCHANGED <<mode, transport, task, inbox, daemonVars, ran, lost, faults>>
      /\ doubtful' = doubtful \cup (IF call.tool = "end" THEN {task} ELSE {})
  BY DEF Fails, Answered, Types
<1>2. call'.n = call.n /\ call'.tool = call.tool /\ call'.at = "rest"
  BY <1>1
<1>3. Types'
  BY <1>1, <1>2 DEF Types, RequestTypes, ReplyTypes, daemonVars
<1>4. \A r \in inbox : r.conn # faults'
  BY <1>1 DEF OnWire, Current
<1>5. faults' >= faults
  BY <1>1 DEF Types
<1>. QED  BY <1>1, <1>2, <1>3, <1>4, <1>5, CallEnds

-----------------------------------------------------------------------------
(* Faults.                                                                 *)

\* No request is from a connection that is yet to come.
LEMMA NewConnection ==
    ASSUME Types, faults' = faults + 1
    PROVE  faults' \in Nat /\ faults' >= faults /\ (\A r \in inbox : r.conn # faults')
           /\ inbox \subseteq [n : 1 .. MaxCalls, tool : Tools, tag : Nat, conn : 0 .. faults']
BY DEF Types, RequestTypes

LEMMA LinkDropsKeeps ==
    ASSUME IInv, LinkDrops
    PROVE  IInv'
<1> USE DEF IInv, daemonVars
<1>1. /\ faults' = faults + 1 /\ link' = "dead" /\ inbox' \subseteq inbox /\ replies' = <<>>
      /\ UNCHANGED <<mode, transport, task, call, daemonVars, ran, lost, doubtful>>
  BY DEF LinkDrops
<1>2. /\ faults' \in Nat /\ (\A r \in inbox : r.conn # faults')
      /\ inbox \subseteq [n : 1 .. MaxCalls, tool : Tools, tag : Nat, conn : 0 .. faults']
  BY <1>1, NewConnection
<1>3. Types'
  BY <1>1, <1>2 DEF Types, RequestTypes, ReplyTypes
<1>4. Spent' /\ OnWire' /\ Waiting'
  BY <1>1, <1>2 DEF Spent, OnceOnly, OnWire, Waiting, Current, At
<1>5. Accounted' /\ TasksKnown'
  BY <1>1 DEF Accounted, OpenIsAccounted, TasksKnown, Trusted, At
<1>. QED  BY <1>3, <1>4, <1>5

LEMMA DaemonRestartsKeeps ==
    ASSUME IInv, DaemonRestarts
    PROVE  IInv'
<1> USE DEF IInv
<1>1. /\ faults' = faults + 1 /\ link' = (IF link = "none" THEN "none" ELSE "dead")
      /\ inbox' = {} /\ replies' = <<>> /\ doubtful' = doubtful \cup open /\ open' = {}
      /\ begun' = 0 /\ UNCHANGED <<mode, transport, task, call, ran, lost>>
  BY DEF DaemonRestarts
<1>2. Types'
  BY <1>1 DEF Types, RequestTypes, ReplyTypes
<1>3. Spent' /\ OnWire' /\ Waiting'
  BY <1>1 DEF Spent, OnceOnly, OnWire, Waiting, At
<1>4. Accounted' /\ TasksKnown'
  BY <1>1 DEF Accounted, OpenIsAccounted, TasksKnown, Trusted, At
<1>. QED  BY <1>2, <1>3, <1>4

LEMMA GuestRestartsKeeps ==
    ASSUME IInv, GuestRestarts
    PROVE  IInv'
<1> USE DEF IInv
<1>1. /\ call \in [n : 0 .. MaxCalls, tool : Tools \cup {"none"},
                   at : {"rest", "connect", "send", "wait"}]
      /\ call' = [call EXCEPT !.at = "rest"] /\ faults' = faults + 1
      /\ transport' = "none" /\ link' = "none" /\ task' = 0 /\ replies' = <<>>
      /\ lost' = lost \cup ({task} \ {0})
      /\ UNCHANGED <<mode, inbox, daemonVars, ran>>
      /\ doubtful' = doubtful \cup (IF call.at = "wait" /\ call.tool = "end" THEN {task} ELSE {})
  BY DEF GuestRestarts, Answered, Types
<1>2. call'.n = call.n /\ call'.tool = call.tool /\ call'.at = "rest"
  BY <1>1
<1>3. /\ faults' \in Nat /\ faults' >= faults /\ (\A r \in inbox : r.conn # faults')
      /\ inbox \subseteq [n : 1 .. MaxCalls, tool : Tools, tag : Nat, conn : 0 .. faults']
  BY <1>1, NewConnection
<1>4. Types'
  <2>1. replies' \in Seq(ReplyTypes') /\ inbox' \subseteq RequestTypes'
    BY <1>1, <1>3 DEF RequestTypes, daemonVars
  <2>2. task' \in Nat
    BY <1>1 DEF Types, daemonVars
  <2>. QED  BY <2>1, <2>2, <1>1, <1>2, <1>3 DEF Types, daemonVars
<1>. QED  BY <1>1, <1>2, <1>3, <1>4, CallEnds DEF At
-----------------------------------------------------------------------------
(* The daemon.                                                             *)

\* A reply finds the stream empty, and its request was the last of the connection.
LEMMA Replied ==
    ASSUME IInv, NEW r \in inbox, NEW success \in BOOLEAN, NEW t \in Nat, Reply(r, success, t)
    PROVE  \/ replies' = replies /\ ~Current(r)
           \/ /\ Current(r) /\ replies = <<>> /\ Len(replies') = 1 /\ replies' # <<>>
              /\ replies'[1] = [n |-> r.n, success |-> success, task |-> t]
              /\ \A T : [n |-> r.n, success |-> success, task |-> t] \in T => replies' \in Seq(T)
              /\ r.n = call.n /\ At("wait") /\ link = "live" /\ r.tool = call.tool /\ r.tag = task
              /\ \A s \in inbox : s # r => ~Current(s) /\ s.n # call.n
<1> USE DEF IInv
<1>1. CASE Current(r)
  <2>1. /\ r.n = call.n /\ At("wait") /\ link = "live" /\ replies = <<>>
        /\ r.tool = call.tool /\ r.tag = task
    BY <1>1 DEF OnWire, Waiting
  <2>2. \A s \in inbox : s # r => ~Current(s) /\ s.n # call.n
    BY <2>1 DEF OnWire, Spent
  <2>3. replies' = Append(<<>>, [n |-> r.n, success |-> success, task |-> t])
    BY <1>1, <2>1 DEF Reply, Current
  <2>. QED  BY <1>1, <2>1, <2>2, <2>3, OneComes
<1>2. CASE ~Current(r)
  BY <1>2 DEF Reply, Current
<1>. QED  BY <1>1, <1>2

\* What a request does besides its own effect on the tasks.
LEMMA Handled ==
    ASSUME IInv, NEW r \in inbox, NEW success \in BOOLEAN, NEW t \in Nat, Reply(r, success, t),
           HandleVmGatewayFrame(r), begun' \in Nat,
           open' \subseteq 1 .. begun',
           (success = TRUE /\ Did(r)) \/ (success = FALSE /\ ran' = ran)
    PROVE  Types' /\ Spent' /\ OnWire' /\ Waiting'
<1> USE DEF IInv
<1>1. /\ r.n \in 1 .. MaxCalls /\ r.tool \in Tools /\ inbox' = inbox \ {r}
      /\ UNCHANGED <<guestVars, faults>> /\ ran[r.n] = 0 /\ r.n <= call.n
      /\ ran \in [1 .. MaxCalls -> Nat]
  BY DEF HandleVmGatewayFrame, Types, RequestTypes, Spent
<1>2. /\ ran' \in [1 .. MaxCalls -> Nat] /\ \A n \in 1 .. MaxCalls : n # r.n => ran'[n] = ran[n]
      /\ ran'[r.n] \in {0, 1} /\ (success = TRUE => ran'[r.n] = 1)
  <2>1. CASE success = TRUE /\ Did(r)
    BY <2>1, <1>1 DEF Did
  <2>2. CASE success = FALSE /\ ran' = ran
    BY <2>2, <1>1
  <2>. QED  BY <2>1, <2>2
<1>3. Types'
  <2>1. inbox' \subseteq RequestTypes'
    BY <1>1 DEF Types, RequestTypes
  <2>2. ReplyTypes \subseteq ReplyTypes'
    BY DEF Types, ReplyTypes
  <2>3. [n |-> r.n, success |-> success, task |-> t] \in ReplyTypes'
    BY <1>1 DEF ReplyTypes
  <2>4. replies' \in Seq(ReplyTypes')
    <3>1. CASE replies' = replies
      BY <3>1, <2>2, SeqGrows DEF Types
    <3>. QED  BY <3>1, <2>3, Replied
  <2>. QED  BY <2>1, <2>4, <1>1, <1>2 DEF Types, guestVars
<1>4. Spent'
  <2>1. OnceOnly'
    BY <1>1, <1>2 DEF Spent, OnceOnly
  <2>2. \A s \in inbox' : ran'[s.n] = 0 /\ s.n <= call.n
    BY <1>1, <1>2 DEF Spent, Types, RequestTypes
  <2>3. \A n \in 1 .. MaxCalls : n > call.n => ran'[n] = 0
    BY <1>1, <1>2 DEF Spent, Types
  <2>4. call.at \in {"connect", "send"} => ran'[call.n] = 0
    BY <1>1, <1>2 DEF Spent, Types
  <2>. QED  BY <2>1, <2>2, <2>3, <2>4, <1>1 DEF Spent, guestVars
<1>5. OnWire'
  <2>1. CASE replies' = replies /\ ~Current(r)
    <3>1. replies # <<>> => r.n # call.n
      BY DEF OnWire
    <3>2. At("wait") => call.n \in 1 .. MaxCalls
      BY DEF Types, At
    <3>3. replies # <<>> => ran'[call.n] = ran[call.n]
      BY <3>1, <3>2, <1>2 DEF OnWire
    <3>. QED  BY <2>1, <3>3, <1>1 DEF OnWire, Current, At, guestVars
  <2>2. CASE /\ Current(r) /\ Len(replies') = 1
             /\ replies'[1] = [n |-> r.n, success |-> success, task |-> t]
             /\ r.n = call.n /\ At("wait") /\ link = "live"
             /\ \A s \in inbox : s # r => ~Current(s) /\ s.n # call.n
    <3>1. replies'[1].n = call.n /\ replies'[1].success = success
      BY <2>2
    <3>2. \A s \in inbox' : s.conn # faults /\ s.n # call.n
      BY <2>2, <1>1 DEF Current
    <3>. QED  BY <2>2, <3>1, <3>2, <1>1, <1>2 DEF OnWire, Current, At, guestVars
  <2>. QED  BY <2>1, <2>2, Replied
<1>6. Waiting'
  BY <1>1 DEF Waiting, At, guestVars
<1>. QED  BY <1>3, <1>4, <1>5, <1>6

LEMMA BeginTaskKeeps ==
    ASSUME IInv, NEW r \in inbox, HandleVmGatewayFrame(r), BeginTask(r)
    PROVE  IInv'
<1> USE DEF IInv
<1>1. /\ r.tool = "begin" /\ begun' = begun + 1 /\ open' = open \cup {begun'}
      /\ lost' = lost \cup {begun'} /\ Did(r) /\ Reply(r, TRUE, begun') /\ doubtful' = doubtful
  BY DEF BeginTask
<1>2. begun \in Nat /\ begun' \in Nat /\ open \subseteq 1 .. begun /\ task \in Nat
  BY <1>1 DEF Types
<1>3. open' \subseteq 1 .. begun'
  BY <1>1, <1>2
<1>4. Types' /\ Spent' /\ OnWire' /\ Waiting'
  BY <1>1, <1>2, <1>3, Handled, Zenon
<1>5. UNCHANGED <<task, call, faults>> /\ inbox' = inbox \ {r}
  BY DEF HandleVmGatewayFrame, guestVars
<1>6. \/ replies' = replies
      \/ /\ replies'[1].task = begun' /\ r.tool = call.tool
         /\ At("wait") /\ r.n = call.n
  <2>1. \/ replies' = replies
        \/ /\ replies'[1] = [n |-> r.n, success |-> TRUE, task |-> begun']
           /\ r.tool = call.tool /\ At("wait") /\ r.n = call.n
    BY <1>1, <1>2, Replied, Zenon
  <2>. QED  BY <2>1
<1>7. Accounted'
  <2>1. OpenIsAccounted'
    BY <1>1, <1>5 DEF Accounted, OpenIsAccounted
  <2>. QED  BY <2>1, <1>1, <1>5, <1>6 DEF Accounted
<1>8. TasksKnown'
  BY <1>1, <1>2, <1>5, <1>6 DEF TasksKnown, Trusted, At
<1>. QED  BY <1>4, <1>7, <1>8

LEMMA EndTaskKeeps ==
    ASSUME IInv, NEW r \in inbox, HandleVmGatewayFrame(r), EndTask(r)
    PROVE  IInv'
<1> USE DEF IInv
<1>1. /\ r.tool = "end" /\ begun' = begun /\ open' = open \ {r.tag}
      /\ lost' = lost \ {r.tag} /\ Did(r) /\ Reply(r, TRUE, 0) /\ doubtful' = doubtful
  BY DEF EndTask
<1>2. begun' \in Nat /\ open' \subseteq 1 .. begun'
  <2>1. begun \in Nat /\ open \subseteq 1 .. begun
    BY DEF Types
  <2>2. begun' = begun /\ open' \subseteq open
    BY DEF EndTask
  <2>. QED  BY <2>1, <2>2
<1>3. Types' /\ Spent' /\ OnWire' /\ Waiting'
  <2>1. 0 \in Nat
    OBVIOUS
  <2>. QED  BY <2>1, <1>1, <1>2, Handled, Zenon
<1>4. UNCHANGED <<task, call, faults>> /\ inbox' = inbox \ {r}
  BY DEF HandleVmGatewayFrame, guestVars
<1>5. \/ replies' = replies
      \/ r.tool = call.tool /\ r.tag = task /\ At("wait") /\ r.n = call.n
  BY <1>1, Replied
<1>6. Accounted'
  BY <1>1, <1>4, <1>5 DEF Accounted, OpenIsAccounted
<1>7. TasksKnown'
  <2>1. (r.n = call.n /\ At("wait") /\ call.tool = "end") \/ r.tag \in doubtful
    BY <1>1 DEF TasksKnown, Waiting
  <2>2. ~(At("wait") /\ call.tool = "end") => Trusted(task)'
    BY <2>1, <1>1, <1>4 DEF TasksKnown, Trusted
  <2>3. \A s \in inbox : s.tool = "act" /\ s.n = call.n => Trusted(s.tag)'
    BY <2>1, <1>1, <1>4 DEF TasksKnown, Trusted, Spent
  <2>4. (replies' # <<>> /\ replies'[1].success /\ call.tool = "begin" /\ replies'[1].task # 0)
           => replies'[1].task \in open' \cup doubtful'
    BY <2>1, <1>1, <1>4, <1>5 DEF TasksKnown, Trusted
  <2>5. \A s \in inbox' : s.tool = "end" => (s.n = call.n /\ At("wait")) \/ s.tag \in doubtful
    BY <1>4 DEF TasksKnown
  <2>. QED  BY <2>2, <2>3, <2>4, <2>5, <1>1, <1>4 DEF TasksKnown, Trusted, At
<1>. QED  BY <1>3, <1>6, <1>7

LEMMA CallCapabilityKeeps ==
    ASSUME IInv, NEW r \in inbox, HandleVmGatewayFrame(r), CallCapability(r)
    PROVE  IInv'
<1> USE DEF IInv
<1>1. /\ r.tool = "act" /\ UNCHANGED <<begun, open, lost, doubtful>>
      /\ (Did(r) /\ Reply(r, TRUE, 0)) \/ (ran' = ran /\ Reply(r, FALSE, 0))
  BY DEF CallCapability, daemonVars
<1>2. begun \in Nat /\ open \subseteq 1 .. begun
  BY DEF Types
<1>3. Types' /\ Spent' /\ OnWire' /\ Waiting'
  <2>1. 0 \in Nat /\ begun' \in Nat /\ open' \subseteq 1 .. begun'
    BY <1>1, <1>2
  <2>2. CASE Did(r) /\ Reply(r, TRUE, 0)
    BY <2>1, <2>2, Handled, Zenon
  <2>3. CASE ran' = ran /\ Reply(r, FALSE, 0)
    BY <2>1, <2>3, Handled, Zenon
  <2>. QED  BY <2>2, <2>3, <1>1
<1>4. UNCHANGED <<task, call, faults>> /\ inbox' = inbox \ {r}
  BY DEF HandleVmGatewayFrame, guestVars
<1>5. replies' = replies \/ (r.tool = call.tool /\ At("wait"))
  BY <1>1, Replied
<1>6. Accounted'
  BY <1>1, <1>4, <1>5 DEF Accounted, OpenIsAccounted
<1>7. TasksKnown'
  BY <1>1, <1>4, <1>5 DEF TasksKnown, Trusted, At
<1>. QED  BY <1>3, <1>6, <1>7

-----------------------------------------------------------------------------
(* The theorems.                                                           *)

LEMMA InvNext == IInv /\ [Next]_vars => IInv'
<1> SUFFICES ASSUME IInv, [Next]_vars PROVE IInv'
  OBVIOUS
<1>1. ASSUME NEW tool \in Tools, ToolsCall(tool) PROVE IInv'
  BY <1>1, ToolsCallKeeps
<1>2. CASE EnsureConnected
  BY <1>2, EnsureConnectedKeeps
<1>3. CASE Fails
  BY <1>3, FailsKeeps
<1>4. ASSUME NEW t \in 0 .. MaxCalls, Send(t) PROVE IInv'
  BY <1>4, SendKeeps
<1>5. ASSUME NEW i \in 1 .. MaxCalls, Receive(i) PROVE IInv'
  BY <1>5, ReceiveKeeps
<1>6. ASSUME NEW r \in inbox, HandleVmGatewayFrame(r) PROVE IInv'
  BY <1>6, BeginTaskKeeps, EndTaskKeeps, CallCapabilityKeeps DEF HandleVmGatewayFrame
<1>7. CASE Faults
  BY <1>7, LinkDropsKeeps, DaemonRestartsKeeps, GuestRestartsKeeps DEF Faults
<1>8. CASE UNCHANGED vars
  BY <1>8 DEF vars, guestVars, daemonVars, wireVars, historyVars, IInv, Types, RequestTypes,
       ReplyTypes, Spent, OnceOnly, OnWire, Current, Waiting, Accounted, OpenIsAccounted,
       TasksKnown, Trusted, At
<1>. QED  BY <1>1, <1>2, <1>3, <1>4, <1>5, <1>6, <1>7, <1>8 DEF Next, Client, Daemon

LEMMA Invariant == Spec => []IInv
<1>. QED  BY InvInit, InvNext, PTL DEF Spec

\* The variables keep their types, for any number of calls and faults.
THEOREM TypeCorrect == Spec => []TypeOK
<1>. QED  BY Invariant, InvImplies, PTL

\* No call is carried out twice, for any number of calls, whatever is lost.
THEOREM CallsRunOnce == Spec => []OnceOnly
<1>. QED  BY Invariant, InvImplies, PTL

\* A task the daemon has open is the guest's current one or one it dropped.
THEOREM OpenAccounted == Spec => []OpenIsAccounted
<1>. QED  BY Invariant, InvImplies, PTL

LEMMA AnswerStep == IInv /\ [Next]_vars =>
    [\A i \in 1 .. MaxCalls : Receive(i) => replies[i].n = call.n]_vars
<1>1. ASSUME IInv, NEW i \in 1 .. MaxCalls, Receive(i) PROVE replies[i].n = call.n
  BY <1>1, Received
<1>. QED  BY <1>1

\* A reply is given to the call it answers, on either transport.
THEOREM AnswersAreOwn == Spec => AnswerIsOwn
<1>. QED  BY Invariant, AnswerStep, PTL DEF Spec, AnswerIsOwn

LEMMA OkStep == IInv /\ [Next]_vars =>
    [\A i \in 1 .. MaxCalls : Ok(i) => ran[call.n] = 1]_vars
<1>1. ASSUME IInv, NEW i \in 1 .. MaxCalls, Ok(i) PROVE ran[call.n] = 1
  <2>1. Receive(i) /\ replies[i].success
    BY <1>1 DEF Ok
  <2>. QED  BY <1>1, <2>1, Received
<1>. QED  BY <1>1

\* An answer that is no error means that the call was carried out, once.
THEOREM OkMeansRan == Spec => OkIsDone
<1>. QED  BY Invariant, OkStep, PTL DEF Spec, OkIsDone

LEMMA RunsStep == IInv /\ [Next]_vars =>
    [\A request \in inbox :
        (/\ HandleVmGatewayFrame(request)
         /\ request.tool = "act" /\ request.n = call.n /\ request.tag # 0)
            => request.tag \in open \cup doubtful]_vars
BY DEF IInv, TasksKnown, Trusted

\* The call being served runs under a task that is open, or whose end was in doubt.
THEOREM CallsRunUnderOpenTask == Spec => RunsUnderOpenTask
<1>. QED  BY Invariant, RunsStep, PTL DEF Spec, RunsUnderOpenTask
=============================================================================
