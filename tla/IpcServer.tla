------------------------------ MODULE IpcServer ------------------------------
(***************************************************************************)
(* WindowsIpcServer (daemon-service/ipc/windows_ipc_server.cc): a thread   *)
(* accepts connections of the named pipe and queues their handles; each    *)
(* worker serves one connection until it ends.  All I/O is synchronous:    *)
(* a thread is about to call ("connect", "read", ...) or blocked in the    *)
(* call ("connecting", "reading", "writing"), and CancelIoEx ends only     *)
(* calls that are blocked.                                                 *)
(*                                                                         *)
(* A handle is a value that CreateNamedPipe may return again once it is    *)
(* closed.  INVALID_HANDLE_VALUE is also the sentinel of the work queue,   *)
(* as in the code.  The count of connections is only logged.               *)
(***************************************************************************)
EXTENDS Naturals, Sequences, FiniteSets

CONSTANTS
    Workers,    \* the threads of the pool
    Handles     \* values of pipe handles

ASSUME IpcAssumption == IsFiniteSet(Workers) /\ Handles \subseteq Nat \ {0}

VARIABLES
    running,                \* running_
    stop,                   \* where start() and stop() are
    listen,                 \* listen_handle_
    accept, current, consumed,      \* acceptLoop() and its locals
    current_accept,         \* current_accept_handle_
    queue,                  \* work_queue_
    active,                 \* active_handles_
    worker, handle,         \* each worker's program point and connection
    pipe                    \* the instance behind each handle value

acceptVars == <<accept, current, consumed, current_accept>>
workerVars == <<worker, handle, active>>
ipcVars == <<running, stop, listen, acceptVars, queue, workerVars, pipe>>

Invalid == 0

IpcInit ==
    /\ running = FALSE
    /\ stop = "new"
    /\ listen = Invalid
    /\ accept = "none" /\ current = Invalid /\ consumed = TRUE /\ current_accept = Invalid
    /\ queue = <<>>
    /\ active = {}
    /\ worker = [w \in Workers |-> "none"]
    /\ handle = [w \in Workers |-> Invalid]
    /\ pipe = [h \in Handles |-> "closed"]

-----------------------------------------------------------------------------
(* Windows.                                                                *)

\* CreateNamedPipeA()
Created(h) == pipe[h] = "closed" /\ pipe' = [pipe EXCEPT ![h] = "listening"]

\* CloseHandle(), also of a value that is closed already or is another's now.
Closed(hs) == pipe' = [h \in Handles |-> IF h \in hs THEN "closed" ELSE pipe[h]]

Blocked(w) == worker[w] \in {"reading", "writing"}
Outstanding(h) ==
    \/ accept = "connecting" /\ current = h
    \/ \E w \in Workers : Blocked(w) /\ handle[w] = h

\* CancelIoEx() of open handles ends the calls that are blocked on them.
CancelAccept(hs) ==
    accept' = IF accept = "connecting" /\ current \in hs /\ pipe[current] # "closed"
              THEN "failed" ELSE accept
CancelWorkers(hs) ==
    worker' = [w \in Workers |->
                 IF Blocked(w) /\ handle[w] \in hs /\ pipe[handle[w]] # "closed"
                 THEN "erase" ELSE worker[w]]

ClientConnects(h) ==
    /\ pipe[h] = "listening"
    /\ pipe' = [pipe EXCEPT ![h] = "connected"]
    /\ UNCHANGED <<running, stop, listen, acceptVars, queue, workerVars>>

ClientLeaves(h) ==
    /\ pipe[h] = "connected"
    /\ pipe' = [pipe EXCEPT ![h] = "left"]
    /\ UNCHANGED <<running, stop, listen, acceptVars, queue, workerVars>>

-----------------------------------------------------------------------------
(* start().                                                                *)

IpcStart ==
    /\ stop = "new"
    /\ \E h \in Handles :
          /\ Created(h)
          /\ listen' = h /\ current' = h
    /\ running' = TRUE
    /\ stop' = "up"
    /\ accept' = "loop"
    /\ worker' = [w \in Workers |-> "wait"]
    /\ UNCHANGED <<consumed, current_accept, queue, active, handle>>

\* No pipe can be made.
IpcStartFails ==
    /\ stop = "new"
    /\ stop' = "down"
    /\ UNCHANGED <<running, listen, acceptVars, queue, workerVars, pipe>>

-----------------------------------------------------------------------------
(* acceptLoop().                                                           *)

AcceptGoes(from, to) == accept = from /\ accept' = to
AcceptUnchanged == <<running, stop, listen, workerVars>>

\* The handle is published in the step that looks at running_: stop() finds no
\* call to cancel in between either way.
AcceptLooks ==
    /\ IF running
       THEN AcceptGoes("loop", "connect") /\ current_accept' = current
       ELSE AcceptGoes("loop", "done") /\ UNCHANGED current_accept
    /\ UNCHANGED <<AcceptUnchanged, current, consumed, queue, pipe>>

\* ConnectNamedPipe(): blocks, finds a client there already, or fails when the
\* client has left again or the handle is closed.
AcceptConnects ==
    /\ AcceptGoes("connect", CASE pipe[current] = "listening" -> "connecting"
                               [] pipe[current] = "connected" -> "connected"
                               [] OTHER                       -> "failed")
    /\ UNCHANGED <<AcceptUnchanged, current, consumed, current_accept, queue, pipe>>

AcceptConnected ==
    /\ AcceptGoes("connecting", "connected") /\ pipe[current] \in {"connected", "left"}
    /\ UNCHANGED <<AcceptUnchanged, current, consumed, current_accept, queue, pipe>>

\* Every failure ends the loop; the first handle, listen_handle_, is not closed.
AcceptFailed ==
    /\ AcceptGoes("failed", "done")
    /\ current_accept' = Invalid
    /\ IF consumed THEN UNCHANGED pipe ELSE Closed({current})
    /\ UNCHANGED <<AcceptUnchanged, current, consumed, queue>>

AcceptQueues ==
    /\ AcceptGoes("connected", "queued")
    /\ current_accept' = Invalid
    /\ queue' = Append(queue, current)
    /\ consumed' = TRUE
    /\ UNCHANGED <<AcceptUnchanged, current, pipe>>

AcceptLooksAgain ==
    /\ AcceptGoes("queued", IF running THEN "create" ELSE "done")
    /\ UNCHANGED <<AcceptUnchanged, current, consumed, current_accept, queue, pipe>>

\* The next instance, or the end of the loop if there is none to be had.  An
\* instance made after stop() has begun is never listened on and stays open.
AcceptCreates ==
    /\ \/ \E h \in Handles :
             Created(h) /\ current' = h /\ consumed' = FALSE /\ AcceptGoes("create", "loop")
       \/ AcceptGoes("create", "done") /\ UNCHANGED <<current, consumed, pipe>>
    /\ UNCHANGED <<AcceptUnchanged, current_accept, queue>>

Acceptor ==
    \/ AcceptLooks \/ AcceptConnects \/ AcceptConnected
    \/ AcceptFailed \/ AcceptQueues \/ AcceptLooksAgain \/ AcceptCreates

-----------------------------------------------------------------------------
(* workerLoop() and processConnection().                                   *)

Goes(w, from, to) == worker[w] = from /\ worker' = [worker EXCEPT ![w] = to]
WorkerUnchanged == <<running, stop, listen, acceptVars>>

WorkerPops(w) ==
    /\ queue # <<>>
    /\ Goes(w, "wait", IF Head(queue) = Invalid THEN "done" ELSE "insert")
    /\ handle' = [handle EXCEPT ![w] = Head(queue)]
    /\ queue' = Tail(queue)
    /\ UNCHANGED <<WorkerUnchanged, active, pipe>>

\* The loop looks at running_ in the step that leads to it: nothing that stop()
\* could interrupt lies in between.
Again == IF running THEN "read" ELSE "erase"

WorkerInserts(w) ==
    /\ Goes(w, "insert", Again)
    /\ active' = active \cup {handle[w]}
    /\ UNCHANGED <<WorkerUnchanged, queue, handle, pipe>>

WorkerCalls(w, from, to) ==
    /\ Goes(w, from, IF pipe[handle[w]] = "closed" THEN "erase" ELSE to)
    /\ UNCHANGED <<WorkerUnchanged, queue, handle, active, pipe>>

\* readFrame(): a client that sends and leaves leaves after the read here.
WorkerReads(w) == WorkerCalls(w, "read", "reading")

\* handleMessage(): no reply to endTask, to an unknown type and to what does not
\* parse; beginTask and a capability that is unknown or unnamed are answered;
\* any other capability is called.  Left out: a field of another JSON type, for
\* which value() throws what nobody catches, and the process ends.
WorkerReceives(w) ==
    /\ \E to \in {Again, "write", "call"} : Goes(w, "reading", to)
    /\ pipe[handle[w]] = "connected"
    /\ UNCHANGED <<WorkerUnchanged, queue, handle, active, pipe>>

WorkerIoFails(w) ==
    /\ Blocked(w) /\ pipe[handle[w]] # "connected"
    /\ Goes(w, worker[w], "erase")
    /\ UNCHANGED <<WorkerUnchanged, queue, handle, active, pipe>>

WorkerReturns(w) ==
    /\ Goes(w, "call", "write")
    /\ UNCHANGED <<WorkerUnchanged, queue, handle, active, pipe>>

\* writeFrame(): blocks while the client does not read.
WorkerWrites(w) == WorkerCalls(w, "write", "writing")
WorkerWritten(w) ==
    /\ Goes(w, "writing", Again) /\ pipe[handle[w]] = "connected"
    /\ UNCHANGED <<WorkerUnchanged, queue, handle, active, pipe>>

\* The handle is erased and then closed: no other thread could tell.
WorkerEnds(w) ==
    /\ Goes(w, "erase", "wait")
    /\ active' = active \ {handle[w]}
    /\ Closed({handle[w]})
    /\ UNCHANGED <<WorkerUnchanged, queue, handle>>

Worker(w) ==
    \/ WorkerPops(w) \/ WorkerInserts(w)
    \/ WorkerReads(w) \/ WorkerReceives(w) \/ WorkerIoFails(w)
    \/ WorkerReturns(w) \/ WorkerWrites(w) \/ WorkerWritten(w)
    \/ WorkerEnds(w)

-----------------------------------------------------------------------------
(* stop().                                                                 *)

StopGoes(from, to) == stop = from /\ stop' = to

IpcStop ==
    /\ StopGoes("up", "cancel")
    /\ running' = FALSE
    /\ UNCHANGED <<listen, acceptVars, queue, workerVars, pipe>>

\* Faulty variant of StopCancelsAccept: the acceptor is not interrupted.
StopCancelsNothing ==
    /\ StopGoes("cancel", "close")
    /\ UNCHANGED <<running, listen, acceptVars, queue, workerVars, pipe>>

StopCancelsAccept ==
    /\ StopGoes("cancel", "close")
    /\ CancelAccept({current_accept})
    /\ UNCHANGED <<running, listen, current, consumed, current_accept, queue, workerVars, pipe>>

\* CloseHandle(listen_handle_): the first instance, whoever has it by now, or
\* whatever has its value since it was closed.  It waits for a synchronous call
\* that is blocked on the handle ...
StopClosesListen ==
    /\ ~Outstanding(listen)
    /\ StopGoes("close", "active")
    /\ Closed({listen})
    /\ listen' = Invalid
    /\ UNCHANGED <<running, acceptVars, queue, workerVars>>

\* ... or ends it.
StopClosesBusy ==
    /\ Outstanding(listen)
    /\ StopGoes("close", "active")
    /\ Closed({listen})
    /\ listen' = Invalid
    /\ CancelAccept({listen}) /\ CancelWorkers({listen})
    /\ UNCHANGED <<running, current, consumed, current_accept, queue, handle, active>>

StopCancelsActive ==
    /\ StopGoes("active", "drain")
    /\ CancelWorkers(active)
    /\ UNCHANGED <<running, listen, acceptVars, queue, handle, active, pipe>>

\* Faulty variant of StopDrains: a sentinel for one worker only.
StopDrainsForOne ==
    /\ StopGoes("drain", "join")
    /\ Closed({queue[i] : i \in DOMAIN queue})
    /\ queue' = <<Invalid>>
    /\ UNCHANGED <<running, listen, acceptVars, workerVars>>

\* What is queued is closed, and each worker gets a sentinel.
StopDrains ==
    /\ StopGoes("drain", "join")
    /\ Closed({queue[i] : i \in DOMAIN queue})
    /\ queue' = [i \in 1 .. Cardinality(Workers) |-> Invalid]
    /\ UNCHANGED <<running, listen, acceptVars, workerVars>>

StopJoinsAcceptor ==
    /\ accept = "done" /\ StopGoes("join", "join_workers")
    /\ UNCHANGED <<running, listen, acceptVars, queue, workerVars, pipe>>

StopJoinsWorkers ==
    /\ \A w \in Workers : worker[w] = "done"
    /\ StopGoes("join_workers", "down")
    /\ UNCHANGED <<running, listen, acceptVars, queue, workerVars, pipe>>

Stopper ==
    \/ StopCancelsAccept \/ StopClosesListen \/ StopCancelsActive \/ StopDrains
    \/ StopJoinsAcceptor \/ StopJoinsWorkers

IpcSteps ==
    \/ Acceptor \/ (\E w \in Workers : Worker(w)) \/ Stopper \/ StopClosesBusy
    \/ \E h \in Handles : ClientConnects(h) \/ ClientLeaves(h)

-----------------------------------------------------------------------------
(* Properties.                                                             *)

StopPoints == {"new", "up", "cancel", "close", "active", "drain", "join", "join_workers", "down"}
AcceptPoints == {"none", "loop", "connect", "connecting", "connected", "failed",
                 "queued", "create", "done"}
WorkerPoints == {"none", "wait", "insert", "read", "reading", "call", "write",
                 "writing", "erase", "done"}

IpcTypeOK ==
    /\ running = (stop = "up")
    /\ stop \in StopPoints
    /\ listen \in Handles \cup {Invalid} /\ current \in Handles \cup {Invalid}
    /\ accept \in AcceptPoints
    /\ consumed \in BOOLEAN
    /\ current_accept \in {Invalid, current}
    /\ queue \in Seq(Handles \cup {Invalid})
    /\ active \subseteq Handles
    /\ worker \in [Workers -> WorkerPoints]
    /\ handle \in [Workers -> Handles \cup {Invalid}]
    /\ pipe \in [Handles -> {"closed", "listening", "connected", "left"}]

Serves(w) == worker[w] \notin {"none", "wait", "done"}

\* A connection has one owner: the acceptor until it is queued, then the queue,
\* then one worker; though handle values come back, no two of them ever close or
\* read the same one.
OneOwner ==
    LET queued == {i \in DOMAIN queue : queue[i] # Invalid} IN
    /\ \A i, j \in queued : queue[i] = queue[j] => i = j
    /\ \A w \in Workers : Serves(w) =>
          /\ \A i \in queued : queue[i] # handle[w]
          /\ \A v \in Workers \ {w} : Serves(v) => handle[v] # handle[w]

\* stop() can interrupt every worker that is blocked.
BlockedIsActive == \A w \in Workers : Blocked(w) => handle[w] \in active

\* Each worker that has not ended finds its sentinel: those left are as many as
\* the workers that still run, and no connection is in front of one.
SentinelEach ==
    stop \in {"join", "join_workers"} =>
        LET sentinels == {i \in DOMAIN queue : queue[i] = Invalid} IN
        /\ Cardinality(sentinels) = Cardinality({w \in Workers : worker[w] # "done"})
        /\ \A i \in sentinels : i <= Cardinality(sentinels)
=============================================================================
