----------------------------- MODULE GuestClient -----------------------------
(***************************************************************************)
(* The guest's side of the VM channel (mcp/server) and the frames of the   *)
(* daemon it talks to: an MCP server serves one tools/call after another,  *)
(* over an AF_VSOCK stream or over gRPC through a local tunnel, and the    *)
(* daemon opens and closes tasks and runs capabilities for it.             *)
(*                                                                         *)
(* A connection may be lost at any moment, before the daemon read a        *)
(* request, while it runs, or before its reply arrives; the daemon and the *)
(* MCP server may be restarted.  A request the daemon has read runs on.    *)
(***************************************************************************)
EXTENDS Naturals, Sequences, FiniteSets, SequencesExt

CONSTANTS
    MaxCalls,       \* bound: tools/call requests of a behaviour
    MaxFaults       \* bound: lost connections and restarts of a behaviour

ASSUME GuestAssumption == MaxCalls \in Nat /\ MaxFaults \in Nat

VARIABLES
    mode,           \* --vm-channel-transport
    transport,      \* the client in use: "none", "vsock" or "grpc"
    link,           \* its connection: "none", "live" or "dead"
    task,           \* _task_id; 0 is none
    call,           \* the tools/call being served
    inbox,          \* requests the daemon has yet to run
    replies,        \* replies on their way to the guest
    open,           \* tasks of the daemon's registry
    begun,          \* next_id_ - 1: tasks this daemon has registered
    ran,            \* history: how often the operation of a call was done
    lost,           \* history: tasks the guest dropped and the daemon did not end
    doubtful,       \* history: tasks a failed end or a restart may have closed
    faults          \* history: faults so far, which number the connections

guestVars == <<mode, transport, link, task, call>>
daemonVars == <<open, begun>>
wireVars == <<inbox, replies>>
historyVars == <<ran, lost, doubtful, faults>>
vars == <<guestVars, daemonVars, wireVars, historyVars>>

Tools == {"begin", "end", "act"}
Rest == [n |-> 0, tool |-> "none", at |-> "rest"]
At(point) == call.at = point
Goto(point) == call' = [call EXCEPT !.at = point]
Answered == call' = [call EXCEPT !.at = "rest"]

-----------------------------------------------------------------------------
(* The MCP server.                                                         *)

\* handle_tools_call(): the next request of the agent.
ToolsCall(tool) ==
    /\ At("rest")
    /\ call.n < MaxCalls
    /\ call' = [n |-> call.n + 1, tool |-> tool, at |-> "connect"]
    /\ UNCHANGED <<mode, transport, link, task, daemonVars, wireVars, historyVars>>

\* The transports a mode tries, one after the other.
Transports ==
    IF transport # "none" THEN {transport}
    ELSE CASE mode \in {"gateway", "legacy"} -> {"vsock"}
           [] mode = "grpc" -> {"grpc"}
           [] mode = "auto" -> {"vsock", "grpc"}

\* _ensure_connected(): is_connected() says that connect() succeeded once.
Connected(t) == transport' = t /\ link' = "live"
EnsureConnected ==
    /\ At("connect")
    /\ \/ link # "none" /\ Goto("send") /\ UNCHANGED <<transport, link>>
       \/ link = "none" /\ (\E t \in Transports : Connected(t)) /\ Goto("send")
       \/ link = "none" /\ Answered /\ UNCHANGED <<transport, link>>
    /\ UNCHANGED <<mode, task, daemonVars, wireVars, historyVars>>

\* gui__end_task may name a task: it replaces the current one for good.
Ends(t) ==
    IF call.tool = "end" /\ t # 0
    THEN task' = t /\ lost' = lost \cup ({task} \ {0, t})
    ELSE UNCHANGED <<task, lost>>

\* Faulty variant of Send: end_task forgets the task before it sends.
SendCleared(t) ==
    /\ At("send") /\ link = "live"
    /\ task' = IF call.tool = "end" THEN 0 ELSE task
    /\ inbox' = inbox \cup {[n |-> call.n, tool |-> call.tool, tag |-> task', conn |-> faults]}
    /\ Goto("wait")
    /\ UNCHANGED <<mode, transport, link, replies, daemonVars, historyVars>>

\* The request, with the current task.
Send(t) ==
    /\ At("send") /\ link = "live"
    /\ Ends(t)
    /\ inbox' = inbox \cup {[n |-> call.n, tool |-> call.tool, tag |-> task', conn |-> faults]}
    /\ Goto("wait")
    /\ UNCHANGED <<mode, transport, link, replies, daemonVars, ran, doubtful, faults>>

\* Faulty variant of Takes: end_task leaves _task_id as it is.
TakesForever(reply) ==
    IF reply.success /\ call.tool = "begin"
    THEN task' = reply.task /\ lost' = (lost \ {reply.task}) \cup ({task} \ {0, reply.task})
    ELSE UNCHANGED <<task, lost>>

\* What the answer to a call means to the client.
Takes(reply) ==
    CASE ~reply.success -> UNCHANGED <<task, lost>>
      [] reply.success /\ call.tool = "begin" ->
            task' = reply.task /\ lost' = (lost \ {reply.task}) \cup ({task} \ {0, reply.task})
      [] reply.success /\ call.tool = "end" -> task' = 0 /\ UNCHANGED lost
      [] OTHER -> UNCHANGED <<task, lost>>

\* _recv_frame() takes the next frame of the stream, whatever request it
\* answers; a gRPC call gets its own reply.
NextFrame(i) == i = 1 /\ link = "live"
OwnReply(i) == replies[i].n = call.n

Receive(i) ==
    /\ At("wait")
    /\ i \in DOMAIN replies
    /\ IF transport = "vsock" THEN NextFrame(i) ELSE OwnReply(i)
    /\ Takes(replies[i])
    /\ replies' = RemoveAt(replies, i)
    /\ doubtful' = doubtful \cup (IF call.tool = "end" /\ ~replies[i].success THEN {task} ELSE {})
    /\ Answered
    /\ UNCHANGED <<mode, transport, link, inbox, daemonVars, ran, faults>>

\* Faulty variant of Fails: the request is sent once more.
FailsRetrying ==
    /\ call.at \in {"send", "wait"}
    /\ link = "dead"
    /\ link' = "live"
    /\ Goto("send")
    /\ UNCHANGED <<mode, transport, task, wireVars, daemonVars, historyVars>>

\* Faulty variant of Fails: a call gives up waiting and leaves its reply to come.
FailsByTimeout ==
    /\ At("wait")
    /\ Answered
    /\ doubtful' = doubtful \cup (IF call.tool = "end" THEN {task} ELSE {})
    /\ UNCHANGED <<mode, transport, link, task, wireVars, daemonVars, ran, lost, faults>>

\* The connection is gone: an error for the agent.  The socket of the vsock
\* client stays, and with it the failure of every later call; a gRPC channel
\* connects again.  Left out: a reply that decode_frame() refuses, as one that is
\* too long: the call fails with the link alive and the frame left in the buffer.
Fails ==
    /\ call.at \in {"send", "wait"}
    /\ link = "dead"
    /\ link' = IF transport = "grpc" THEN "live" ELSE "dead"
    /\ replies' = <<>>
    /\ Answered
    /\ doubtful' = doubtful \cup (IF call.tool = "end" THEN {task} ELSE {})
    /\ UNCHANGED <<mode, transport, task, inbox, daemonVars, ran, lost, faults>>

-----------------------------------------------------------------------------
(* The daemon: type-based frames of handleVmGatewayFrame and the gRPC      *)
(* service.                                                                *)

\* A reply goes to the connection its request came from.
Reply(request, success, t) ==
    replies' = IF request.conn = faults
               THEN Append(replies, [n |-> request.n, success |-> success, task |-> t])
               ELSE replies
Did(request) == ran' = [ran EXCEPT ![request.n] = @ + 1]

BeginTask(request) ==
    /\ request.tool = "begin"
    /\ begun' = begun + 1
    /\ open' = open \cup {begun'}
    /\ lost' = lost \cup {begun'}
    /\ Did(request) /\ Reply(request, TRUE, begun')
    /\ UNCHANGED doubtful

\* A task that is not there is ended just as well.
EndTask(request) ==
    /\ request.tool = "end"
    /\ open' = open \ {request.tag}
    /\ lost' = lost \ {request.tag}
    /\ Did(request) /\ Reply(request, TRUE, 0)
    /\ UNCHANGED <<begun, doubtful>>

\* The capability service runs the operation, or refuses it.
CallCapability(request) ==
    /\ request.tool = "act"
    /\ \/ Did(request) /\ Reply(request, TRUE, 0)
       \/ UNCHANGED ran /\ Reply(request, FALSE, 0)
    /\ UNCHANGED <<daemonVars, lost, doubtful>>

HandleVmGatewayFrame(request) ==
    /\ request \in inbox
    /\ inbox' = inbox \ {request}
    /\ BeginTask(request) \/ EndTask(request) \/ CallCapability(request)
    /\ UNCHANGED <<guestVars, faults>>

-----------------------------------------------------------------------------
(* Faults.                                                                 *)

\* A connection is lost, and with it requests not yet read and replies.
LinkDrops ==
    /\ faults < MaxFaults /\ faults' = faults + 1
    /\ link = "live" /\ link' = "dead"
    /\ inbox' \in SUBSET inbox
    /\ replies' = <<>>
    /\ UNCHANGED <<mode, transport, task, call, daemonVars, ran, lost, doubtful>>

\* The daemon starts again with an empty registry, and numbers its tasks from
\* the first again: an id the guest still holds may become another task's.
DaemonRestarts ==
    /\ faults < MaxFaults /\ faults' = faults + 1
    /\ link' = IF link = "none" THEN "none" ELSE "dead"
    /\ inbox' = {} /\ replies' = <<>>
    /\ doubtful' = doubtful \cup open
    /\ open' = {} /\ begun' = 0
    /\ UNCHANGED <<mode, transport, task, call, ran, lost>>

\* OpenClaw starts a new MCP server.  The daemon is not told.
GuestRestarts ==
    /\ faults < MaxFaults /\ faults' = faults + 1
    /\ transport' = "none" /\ link' = "none" /\ task' = 0
    /\ Answered
    /\ replies' = <<>>
    /\ lost' = lost \cup ({task} \ {0})
    /\ doubtful' = doubtful \cup (IF call.at = "wait" /\ call.tool = "end" THEN {task} ELSE {})
    /\ UNCHANGED <<mode, inbox, daemonVars, ran>>

-----------------------------------------------------------------------------
Init ==
    /\ mode \in {"gateway", "legacy", "grpc", "auto"}
    /\ transport = "none" /\ link = "none" /\ task = 0
    /\ call = Rest
    /\ inbox = {} /\ replies = <<>>
    /\ open = {} /\ begun = 0
    /\ ran = [n \in 1 .. MaxCalls |-> 0]
    /\ lost = {} /\ doubtful = {} /\ faults = 0

Client ==
    \/ EnsureConnected \/ Fails
    \/ \E t \in 0 .. MaxCalls : Send(t)
    \/ \E i \in 1 .. MaxCalls : Receive(i)
Daemon == \E request \in inbox : HandleVmGatewayFrame(request)
Faults == LinkDrops \/ DaemonRestarts \/ GuestRestarts
Next == (\E tool \in Tools : ToolsCall(tool)) \/ Client \/ Daemon \/ Faults

Spec == Init /\ [][Next]_vars

-----------------------------------------------------------------------------
(* Properties.                                                             *)

\* Types, and that a client without a connection waits for nothing.
TypeOK ==
    /\ transport \in {"none", "vsock", "grpc"} /\ link \in {"none", "live", "dead"}
    /\ task \in Nat /\ open \subseteq 1 .. begun
    /\ call.at \in {"rest", "connect", "send", "wait"}
    /\ call.at \in {"send", "wait"} => link # "none"
    /\ inbox \subseteq [n : 1 .. MaxCalls, tool : Tools, tag : Nat, conn : 0 .. faults]

\* No call is carried out twice, whatever is lost on the way: neither client
\* sends a request again.
OnceOnly == \A n \in 1 .. MaxCalls : ran[n] <= 1

\* Every task the daemon has open is the current one, or one the guest gave up:
\* its begin got no answer, or another was begun or named in its place, and no
\* end of it has reached the daemon since.
OpenIsAccounted == open \subseteq {task} \cup lost

Ok(i) == Receive(i) /\ replies[i].success

\* A reply is given to the call it answers, although the stream of the vsock
\* client carries no request id: send_request holds the stream for one request
\* and its reply, and a client that lost its connection has none again.
AnswerIsOwn ==
    [][\A i \in 1 .. MaxCalls : Receive(i) => replies[i].n = call.n]_vars

\* An answer that is no error means that the daemon did what was asked.
OkIsDone ==
    [][\A i \in 1 .. MaxCalls : Ok(i) => ran[call.n] = 1]_vars

\* The operation of the call being served runs under an open task or under
\* none, unless an end of that task got no answer or the daemon was restarted.
RunsUnderOpenTask ==
    [][\A request \in inbox :
        (/\ HandleVmGatewayFrame(request)
         /\ request.tool = "act" /\ request.n = call.n /\ request.tag # 0)
            => request.tag \in open \cup doubtful]_vars
=============================================================================
