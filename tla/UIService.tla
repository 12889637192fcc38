----------------------------- MODULE UIService -----------------------------
(***************************************************************************)
(* The UI channel of the daemon (daemon-service/ipc/ui_service.cc): one    *)
(* service thread owns a named pipe and reads the UI's answers, any number *)
(* of daemon threads block in askConfirm() or write through push(), and    *)
(* the daemon's main thread calls start() and stop().  The UI process and  *)
(* its user are the environment: the UI reads one message at a time and    *)
(* does not read while a confirmation dialog is open.                      *)
(*                                                                         *)
(* Mutexes that guard a single access (pending_mutex_, pipe_mutex_) are    *)
(* the atomicity of the action that makes the access; write_mutex_, which  *)
(* is held across a blocking write, is a variable.                         *)
(***************************************************************************)
EXTENDS Naturals, Sequences, FiniteSets

CONSTANTS
    Askers,       \* threads that call askConfirm()
    Pushers,      \* threads that call push()
    Svc,          \* the service thread
    Nobody,       \* write_mutex is free
    TimeoutMode,  \* ConfirmTimeoutMode given to start()
    PipeRoom,     \* messages the pipe's 64 KiB outbound buffer can hold
    MaxIds,       \* bound: confirm ids handed out
    MaxConnects   \* bound: times the UI connects

ASSUME ModeAssumption ==
    TimeoutMode \in {"wait_forever", "timeout_deny", "timeout_allow"}

ASSUME ThreadAssumption ==
    /\ Askers \cap Pushers = {}
    /\ Svc \notin Askers \cup Pushers
    /\ Nobody \notin Askers \cup Pushers \cup {Svc}

ASSUME BoundAssumption ==
    /\ PipeRoom \in Nat \ {0}
    /\ MaxIds \in Nat \ {0}
    /\ MaxConnects \in Nat

Callers == Askers \cup Pushers
Writers == Callers \cup {Svc}
Ids == 1 .. MaxIds

\* UIConfirmResult: the three answers a user can give in the dialog.
Deny == [confirmed |-> FALSE, trust |-> FALSE]
Allow == [confirmed |-> TRUE, trust |-> FALSE]
AllowAndTrust == [confirmed |-> TRUE, trust |-> TRUE]
Answers == {Deny, Allow, AllowAndTrust}
Unset == [confirmed |-> FALSE, trust |-> TRUE]  \* no answer yet

INVALID == 0  \* INVALID_HANDLE_VALUE; pipe instances are 1, 2, ...
Note == 0     \* an outbound message that is not a confirm request

VARIABLES
    \* fields of UIService::Implement
    running, connected, pipe_handle, pending_confirms, next_id, write_mutex,
    \* the shared state of promise and future, by confirm id
    promise,
    \* the operating system's side of the pipe
    instance, pipe, toUI, fromUI, aborted,
    \* program points and locals of the threads
    svc, caller, confirm_id, handle, result, main,
    \* the UI process and what its user said, by confirm id
    ui, uiConn, dialog, said, connects

pipeVars == <<instance, pipe, toUI, fromUI>>
uiVars == <<ui, uiConn, dialog, said, connects>>
vars == <<running, connected, pipe_handle, pending_confirms, next_id,
          write_mutex, promise, pipeVars, aborted, svc, caller, confirm_id,
          handle, result, main, uiVars>>

SvcPoints == {"off", "top", "register", "connect", "connecting", "check",
              "snap", "snapping", "read_top", "read", "reading", "drop",
              "cancel", "clear", "close", "done"}
CallerPoints == {"idle", "register", "lock", "writing", "unregister", "wait",
                 "timedout"}
MainPoints == {"new", "up", "cancel_io", "cancel_pending", "join", "finish",
               "stopped"}

Init ==
    /\ running = FALSE
    /\ connected = FALSE
    /\ pipe_handle = INVALID
    /\ pending_confirms = {}
    /\ next_id = 1
    /\ write_mutex = Nobody
    /\ promise = [id \in Ids |-> Unset]
    /\ instance = 0
    /\ pipe = "none"
    /\ toUI = <<>>
    /\ fromUI = <<>>
    /\ aborted = {}
    /\ svc = "off"
    /\ caller = [c \in Callers |-> "idle"]
    /\ confirm_id = [a \in Askers |-> 0]
    /\ handle = [w \in Writers |-> INVALID]
    /\ result = [a \in Askers |-> Deny]
    /\ main = "new"
    /\ ui = "away"
    /\ uiConn = 0
    /\ dialog = 0
    /\ said = [id \in Ids |-> Unset]
    /\ connects = 0

-----------------------------------------------------------------------------
(* Shared helpers.                                                         *)

\* Faulty variant of CancelAllPendingConfirms: the map is not emptied.
CancelKeepsMap ==
    /\ promise' = [id \in Ids |-> IF id \in pending_confirms THEN Deny ELSE promise[id]]
    /\ UNCHANGED pending_confirms

\* cancelAllPendingConfirms(): every promise in the map is kept with a denial
\* and the map is emptied.
CancelAllPendingConfirms ==
    /\ promise' = [id \in Ids |-> IF id \in pending_confirms THEN Deny ELSE promise[id]]
    /\ pending_confirms' = {}

\* CloseHandle / DisconnectNamedPipe on the service thread's own instance:
\* unread data of both directions is discarded.
ClosePipe ==
    /\ pipe' = "none"
    /\ toUI' = <<>>
    /\ fromUI' = <<>>
    /\ UNCHANGED instance

\* A WriteFile through a copied handle.  The handle may be stale: its instance
\* is closed, and the write fails unless the value was handed out again for the
\* instance that is open now, in which case the message goes there.
CanDeliver(w) == handle[w] # INVALID /\ pipe = "open" /\ Len(toUI) < PipeRoom
CanFail(w) ==
    \/ w \in aborted
    \/ handle[w] = INVALID
    \/ pipe # "open"
    \/ handle[w] # instance
Blocked(w) == handle[w] = instance /\ pipe = "open" /\ Len(toUI) >= PipeRoom

\* I/O that CancelIoEx finds outstanding on the registered handle.
Outstanding ==
    {w \in Callers : caller[w] = "writing" /\ write_mutex = w /\ Blocked(w)}
    \cup (IF \/ svc = "connecting" /\ pipe = "listening"
             \/ svc = "reading" /\ pipe = "open" /\ fromUI = <<>>
             \/ svc = "snapping" /\ Blocked(Svc)
          THEN {Svc} ELSE {})

-----------------------------------------------------------------------------
(* The service thread: serviceLoop().                                      *)

SvcUnchanged == <<running, next_id, caller, confirm_id, result, main, uiVars>>

\* while (running_), CreateNamedPipe succeeds.
SvcCreate ==
    /\ svc = "top" /\ running
    /\ svc' = "register"
    /\ instance' = instance + 1
    /\ pipe' = "listening"
    /\ UNCHANGED <<SvcUnchanged, connected, pipe_handle, pending_confirms,
                   write_mutex, promise, toUI, fromUI, aborted, handle>>

\* The loop ends: running_ was cleared, or CreateNamedPipe failed.
SvcLeave ==
    /\ svc = "top"
    /\ svc' = "done"
    /\ UNCHANGED <<SvcUnchanged, connected, pipe_handle, pending_confirms,
                   write_mutex, promise, pipeVars, aborted, handle>>

\* pipe_handle_ = handle, so that stop() can cancel I/O on it.
SvcRegister ==
    /\ svc = "register"
    /\ svc' = "connect"
    /\ pipe_handle' = instance
    /\ UNCHANGED <<SvcUnchanged, connected, pending_confirms, write_mutex,
                   promise, pipeVars, aborted, handle>>

\* ConnectNamedPipe returns ERROR_IO_PENDING, or ERROR_PIPE_CONNECTED when a
\* client is already there.
SvcConnect ==
    /\ svc = "connect" /\ pipe \in {"listening", "open"}
    /\ svc' = IF pipe = "open" THEN "check" ELSE "connecting"
    /\ UNCHANGED <<SvcUnchanged, connected, pipe_handle, pending_confirms,
                   write_mutex, promise, pipeVars, aborted, handle>>

\* ConnectNamedPipe fails at once (ERROR_NO_DATA: the client came and went
\* before the call): the handle is closed and the loop is left.
SvcConnectError ==
    /\ svc = "connect" /\ pipe = "broken"
    /\ svc' = "done"
    /\ pipe_handle' = INVALID
    /\ ClosePipe
    /\ UNCHANGED <<SvcUnchanged, connected, pending_confirms, write_mutex,
                   promise, aborted, handle>>

\* The pending connect completes.
SvcConnected ==
    /\ svc = "connecting" /\ pipe \in {"open", "broken"}
    /\ svc' = "check"
    /\ UNCHANGED <<SvcUnchanged, connected, pipe_handle, pending_confirms,
                   write_mutex, promise, pipeVars, aborted, handle>>

\* The pending connect was cancelled: close, then break or retry.
SvcConnectAborted ==
    /\ svc = "connecting" /\ Svc \in aborted
    /\ svc' = IF running THEN "top" ELSE "done"
    /\ aborted' = aborted \ {Svc}
    /\ pipe_handle' = INVALID
    /\ ClosePipe
    /\ UNCHANGED <<SvcUnchanged, connected, pending_confirms, write_mutex,
                   promise, handle>>

\* if (!running_) after the connect: clear, disconnect, break.
SvcStoppedAfterConnect ==
    /\ svc = "check" /\ ~running
    /\ svc' = "done"
    /\ pipe_handle' = INVALID
    /\ ClosePipe
    /\ UNCHANGED <<SvcUnchanged, connected, pending_confirms, write_mutex,
                   promise, aborted, handle>>

SvcSetConnected ==
    /\ svc = "check" /\ running
    /\ svc' = "snap"
    /\ connected' = TRUE
    /\ UNCHANGED <<SvcUnchanged, pipe_handle, pending_confirms, write_mutex,
                   promise, pipeVars, aborted, handle>>

\* The status snapshot is written under write_mutex_.
SvcSnapLock ==
    /\ svc = "snap" /\ write_mutex = Nobody
    /\ svc' = "snapping"
    /\ write_mutex' = Svc
    /\ handle' = [handle EXCEPT ![Svc] = pipe_handle]
    /\ UNCHANGED <<SvcUnchanged, connected, pipe_handle, pending_confirms,
                   promise, pipeVars, aborted>>

\* writeUnlocked() returns; its outcome is ignored.
SvcSnapWritten ==
    /\ svc = "snapping"
    /\ \/ CanDeliver(Svc) /\ toUI' = Append(toUI, Note)
       \/ CanFail(Svc) /\ UNCHANGED toUI
    /\ svc' = "read_top"
    /\ write_mutex' = Nobody
    /\ aborted' = aborted \ {Svc}
    /\ handle' = [handle EXCEPT ![Svc] = INVALID]
    /\ UNCHANGED <<SvcUnchanged, connected, pipe_handle, pending_confirms,
                   promise, instance, pipe, fromUI>>

\* while (running_) of the read loop.
SvcReadTop ==
    /\ svc = "read_top"
    /\ svc' = IF running THEN "read" ELSE "drop"
    /\ UNCHANGED <<SvcUnchanged, connected, pipe_handle, pending_confirms,
                   write_mutex, promise, pipeVars, aborted, handle>>

\* readFrameAsync() issues its ReadFile.
SvcRead ==
    /\ svc = "read"
    /\ svc' = "reading"
    /\ UNCHANGED <<SvcUnchanged, connected, pipe_handle, pending_confirms,
                   write_mutex, promise, pipeVars, aborted, handle>>

\* Faulty variants of HandleRead: the answer settles every pending request; it
\* is applied with trust whenever it is an approval.
HandleReadForAll(id, v) ==
    /\ promise' = [i \in Ids |-> IF i \in pending_confirms THEN v ELSE promise[i]]
    /\ pending_confirms' = {}
HandleReadTrusting(id, v) ==
    IF id \in pending_confirms
    THEN /\ promise' = [promise EXCEPT ![id] = IF v.confirmed THEN AllowAndTrust ELSE v]
         /\ pending_confirms' = pending_confirms \ {id}
    ELSE UNCHANGED <<promise, pending_confirms>>

\* handleRead() with the answer v to id: an id that is not pending is ignored.
HandleRead(id, v) ==
    IF id \in pending_confirms
    THEN /\ promise' = [promise EXCEPT ![id] = v]
         /\ pending_confirms' = pending_confirms \ {id}
    ELSE UNCHANGED <<promise, pending_confirms>>

SvcReadFrame ==
    /\ svc = "reading" /\ fromUI # <<>>
    /\ svc' = "read_top"
    /\ HandleRead(Head(fromUI).id, Head(fromUI).answer)
    /\ fromUI' = Tail(fromUI)
    /\ UNCHANGED <<SvcUnchanged, connected, pipe_handle, write_mutex,
                   instance, pipe, toUI, aborted, handle>>

\* Faulty variants of SvcReadFails: a failed read is retried without a look at
\* running_; a lost client ends the connection with its last answers unread.
SvcReadRetries ==
    /\ svc = "reading"
    /\ Svc \in aborted \/ (pipe = "broken" /\ fromUI = <<>>)
    /\ svc' = "read"
    /\ aborted' = aborted \ {Svc}
    /\ UNCHANGED <<SvcUnchanged, connected, pipe_handle, pending_confirms,
                   write_mutex, promise, pipeVars, handle>>

SvcReadFailsEarly ==
    /\ svc = "reading"
    /\ Svc \in aborted \/ pipe = "broken"
    /\ svc' = "drop"
    /\ aborted' = aborted \ {Svc}
    /\ UNCHANGED <<SvcUnchanged, connected, pipe_handle, pending_confirms,
                   write_mutex, promise, pipeVars, handle>>

\* The read fails: the client is gone and what it had sent is read, or stop()
\* cancelled it.  (Or a frame announces more than the codec takes, which the UI
\* never sends: its answers are a few fields.)
SvcReadFails ==
    /\ svc = "reading"
    /\ Svc \in aborted \/ (pipe = "broken" /\ fromUI = <<>>)
    /\ svc' = "drop"
    /\ aborted' = aborted \ {Svc}
    /\ UNCHANGED <<SvcUnchanged, connected, pipe_handle, pending_confirms,
                   write_mutex, promise, pipeVars, handle>>

SvcDrop ==
    /\ svc = "drop"
    /\ svc' = "cancel"
    /\ connected' = FALSE
    /\ UNCHANGED <<SvcUnchanged, pipe_handle, pending_confirms, write_mutex,
                   promise, pipeVars, aborted, handle>>

SvcCancel ==
    /\ svc = "cancel"
    /\ svc' = "clear"
    /\ CancelAllPendingConfirms
    /\ UNCHANGED <<SvcUnchanged, connected, pipe_handle, write_mutex,
                   pipeVars, aborted, handle>>

SvcClear ==
    /\ svc = "clear"
    /\ svc' = "close"
    /\ pipe_handle' = INVALID
    /\ UNCHANGED <<SvcUnchanged, connected, pending_confirms, write_mutex,
                   promise, pipeVars, aborted, handle>>

SvcClose ==
    /\ svc = "close"
    /\ svc' = "top"
    /\ ClosePipe
    /\ UNCHANGED <<SvcUnchanged, connected, pipe_handle, pending_confirms,
                   write_mutex, promise, aborted, handle>>

SvcNext ==
    \/ SvcCreate \/ SvcLeave \/ SvcRegister \/ SvcConnect \/ SvcConnectError
    \/ SvcConnected \/ SvcConnectAborted \/ SvcStoppedAfterConnect
    \/ SvcSetConnected \/ SvcSnapLock \/ SvcSnapWritten \/ SvcReadTop
    \/ SvcRead \/ SvcReadFrame \/ SvcReadFails \/ SvcDrop \/ SvcCancel
    \/ SvcClear \/ SvcClose

-----------------------------------------------------------------------------
(* askConfirm() and push().                                                *)

CallUnchanged == <<running, connected, pipe_handle, aborted, svc, main, uiVars>>

\* if (!connected_) return {false, false}.
AskWhileDisconnected(a) ==
    /\ caller[a] = "idle" /\ ~connected
    /\ result' = [result EXCEPT ![a] = Deny]
    /\ confirm_id' = [confirm_id EXCEPT ![a] = 0]
    /\ UNCHANGED <<CallUnchanged, pending_confirms, next_id, write_mutex,
                   promise, pipeVars, caller, handle>>

\* connected_ was read as true: generateId().
AskConfirm(a) ==
    /\ caller[a] = "idle" /\ connected
    /\ next_id <= MaxIds
    /\ confirm_id' = [confirm_id EXCEPT ![a] = next_id]
    /\ next_id' = next_id + 1
    /\ caller' = [caller EXCEPT ![a] = "register"]
    /\ UNCHANGED <<CallUnchanged, pending_confirms, write_mutex, promise,
                   pipeVars, handle, result>>

\* The promise goes into the map before the request is written.
RegisterPromise(a) ==
    /\ caller[a] = "register"
    /\ pending_confirms' = pending_confirms \cup {confirm_id[a]}
    /\ caller' = [caller EXCEPT ![a] = "lock"]
    /\ UNCHANGED <<CallUnchanged, next_id, write_mutex, promise, pipeVars,
                   confirm_id, handle, result>>

\* push(): skipped unless connected_.
Push(p) ==
    /\ caller[p] = "idle" /\ connected
    /\ caller' = [caller EXCEPT ![p] = "lock"]
    /\ UNCHANGED <<CallUnchanged, pending_confirms, next_id, write_mutex,
                   promise, pipeVars, confirm_id, handle, result>>

\* lock(write_mutex_); writeUnlocked() copies pipe_handle_ under pipe_mutex_.
LockAndCopyHandle(c) ==
    /\ caller[c] = "lock" /\ write_mutex = Nobody
    /\ write_mutex' = c
    /\ handle' = [handle EXCEPT ![c] = pipe_handle]
    /\ caller' = [caller EXCEPT ![c] = "writing"]
    /\ UNCHANGED <<CallUnchanged, pending_confirms, next_id, promise,
                   pipeVars, confirm_id, result>>

WriteUnchanged == <<running, connected, pipe_handle, pending_confirms, next_id,
                    promise, instance, pipe, fromUI, svc, confirm_id, result,
                    main, uiVars>>

\* The write succeeds; an asker goes on to wait, a pusher is done.
WriteDelivers(c) ==
    /\ caller[c] = "writing" /\ CanDeliver(c)
    /\ toUI' = Append(toUI, IF c \in Askers THEN confirm_id[c] ELSE Note)
    /\ write_mutex' = Nobody
    /\ caller' = [caller EXCEPT ![c] = IF c \in Askers THEN "wait" ELSE "idle"]
    /\ handle' = [handle EXCEPT ![c] = INVALID]
    /\ aborted' = aborted \ {c}
    /\ UNCHANGED WriteUnchanged

\* Faulty variant of WriteFails: a pusher's failure path keeps write_mutex_.
WriteFailsLocked(c) ==
    /\ caller[c] = "writing" /\ CanFail(c)
    /\ caller' = [caller EXCEPT ![c] = IF c \in Askers THEN "unregister" ELSE "idle"]
    /\ handle' = [handle EXCEPT ![c] = INVALID]
    /\ aborted' = aborted \ {c}
    /\ UNCHANGED <<WriteUnchanged, write_mutex, toUI>>

\* The write fails.  An asker keeps write_mutex_ until it has unregistered.
WriteFails(c) ==
    /\ caller[c] = "writing" /\ CanFail(c)
    /\ write_mutex' = IF c \in Askers THEN c ELSE Nobody
    /\ caller' = [caller EXCEPT ![c] = IF c \in Askers THEN "unregister" ELSE "idle"]
    /\ handle' = [handle EXCEPT ![c] = INVALID]
    /\ aborted' = aborted \ {c}
    /\ UNCHANGED <<WriteUnchanged, toUI>>

ReturnUnchanged == <<CallUnchanged, next_id, promise, pipeVars, confirm_id, handle>>

\* pending_confirms_.erase(confirm_id); return {false, false}.
UnregisterFailed(a) ==
    /\ caller[a] = "unregister"
    /\ pending_confirms' = pending_confirms \ {confirm_id[a]}
    /\ write_mutex' = Nobody
    /\ result' = [result EXCEPT ![a] = Deny]
    /\ caller' = [caller EXCEPT ![a] = "idle"]
    /\ UNCHANGED ReturnUnchanged

\* The future is ready: return future.get().
TakeAnswer(a) ==
    /\ caller[a] = "wait" /\ promise[confirm_id[a]] # Unset
    /\ result' = [result EXCEPT ![a] = promise[confirm_id[a]]]
    /\ caller' = [caller EXCEPT ![a] = "idle"]
    /\ UNCHANGED <<ReturnUnchanged, pending_confirms, write_mutex>>

\* wait_for() returns std::future_status::timeout.
TimeOut(a) ==
    /\ caller[a] = "wait" /\ promise[confirm_id[a]] = Unset
    /\ TimeoutMode # "wait_forever"
    /\ caller' = [caller EXCEPT ![a] = "timedout"]
    /\ UNCHANGED <<ReturnUnchanged, pending_confirms, write_mutex, result>>

\* The timed out request is erased and decided by the mode.
DecideTimedOut(a) ==
    /\ caller[a] = "timedout"
    /\ pending_confirms' = pending_confirms \ {confirm_id[a]}
    /\ result' = [result EXCEPT ![a] =
                    IF TimeoutMode = "timeout_allow" THEN Allow ELSE Deny]
    /\ caller' = [caller EXCEPT ![a] = "idle"]
    /\ UNCHANGED <<ReturnUnchanged, write_mutex>>

\* What a caller does once it is inside askConfirm() or push().
CallerStep(c) ==
    \/ LockAndCopyHandle(c) \/ WriteDelivers(c) \/ WriteFails(c)
    \/ c \in Askers /\ \/ RegisterPromise(c) \/ UnregisterFailed(c)
                       \/ TakeAnswer(c) \/ TimeOut(c) \/ DecideTimedOut(c)

CallersNext ==
    \/ \E a \in Askers : AskWhileDisconnected(a) \/ AskConfirm(a)
    \/ \E p \in Pushers : Push(p)
    \/ \E c \in Callers : CallerStep(c)

-----------------------------------------------------------------------------
(* The main thread: start() and stop().                                    *)

MainUnchanged == <<next_id, write_mutex, pipeVars, caller, confirm_id, handle,
                   result, uiVars>>

Start ==
    /\ main = "new"
    /\ main' = "up"
    /\ running' = TRUE
    /\ svc' = "top"
    /\ UNCHANGED <<MainUnchanged, connected, pipe_handle, pending_confirms,
                   promise, aborted>>

\* running_.exchange(false).
Stop ==
    /\ main = "up"
    /\ main' = "cancel_io"
    /\ running' = FALSE
    /\ UNCHANGED <<MainUnchanged, connected, pipe_handle, pending_confirms,
                   promise, aborted, svc>>

\* CancelIoEx on pipe_handle_, if there is one: it reaches the I/O that is
\* outstanding now and no other.
StopCancelIo ==
    /\ main = "cancel_io"
    /\ main' = "cancel_pending"
    /\ aborted' = IF pipe_handle # INVALID THEN aborted \cup Outstanding ELSE aborted
    /\ UNCHANGED <<MainUnchanged, running, connected, pipe_handle,
                   pending_confirms, promise, svc>>

StopCancelPending ==
    /\ main = "cancel_pending"
    /\ main' = "join"
    /\ CancelAllPendingConfirms
    /\ UNCHANGED <<MainUnchanged, running, connected, pipe_handle, aborted, svc>>

\* service_thread_.join().
StopJoin ==
    /\ main = "join" /\ svc = "done"
    /\ main' = "finish"
    /\ UNCHANGED <<MainUnchanged, running, connected, pipe_handle,
                   pending_confirms, promise, aborted, svc>>

StopFinish ==
    /\ main = "finish"
    /\ main' = "stopped"
    /\ connected' = FALSE
    /\ UNCHANGED <<MainUnchanged, running, pipe_handle, pending_confirms,
                   promise, aborted, svc>>

StopSteps == StopCancelIo \/ StopCancelPending \/ StopJoin \/ StopFinish

-----------------------------------------------------------------------------
(* The UI process (ui/Channel/DaemonChannel.cs, ui/App.cs) and its user.   *)

UIUnchanged == <<running, connected, pipe_handle, pending_confirms, next_id,
                 write_mutex, promise, instance, aborted, svc, caller,
                 confirm_id, handle, result, main>>

UIConnect ==
    /\ ui = "away" /\ pipe = "listening"
    /\ connects < MaxConnects
    /\ connects' = connects + 1
    /\ ui' = "reading"
    /\ uiConn' = instance
    /\ pipe' = "open"
    /\ UNCHANGED <<UIUnchanged, toUI, fromUI, dialog, said>>

\* RunReadLoop hands a frame to the dispatcher; a confirm request opens the
\* modal dialog and the channel does not read on until it is closed.
UIRead ==
    /\ ui = "reading" /\ uiConn = instance /\ pipe = "open" /\ toUI # <<>>
    /\ toUI' = Tail(toUI)
    /\ IF Head(toUI) = Note
       THEN UNCHANGED <<ui, dialog>>
       ELSE /\ ui' = "dialog"
            /\ dialog' = Head(toUI)
    /\ UNCHANGED <<UIUnchanged, pipe, fromUI, uiConn, said, connects>>

\* The user closes the dialog; the answer is lost when the connection is.
UserAnswers(v) ==
    /\ ui = "dialog"
    /\ ui' = "reading"
    /\ said' = [said EXCEPT ![dialog] = v]
    /\ fromUI' = IF uiConn = instance /\ pipe = "open"
                 THEN Append(fromUI, [id |-> dialog, answer |-> v]) ELSE fromUI
    /\ dialog' = 0
    /\ UNCHANGED <<UIUnchanged, pipe, toUI, uiConn, connects>>

\* The UI exits or its connection breaks.
UIClose ==
    /\ ui \in {"reading", "dialog"}
    /\ ui' = "away"
    /\ uiConn' = 0
    /\ dialog' = 0
    /\ IF uiConn = instance /\ pipe = "open"
       THEN pipe' = "broken" /\ toUI' = <<>>
       ELSE UNCHANGED <<pipe, toUI>>
    /\ UNCHANGED <<UIUnchanged, fromUI, said, connects>>

\* A reading UI notices that the server end is gone.
UINoticesDisconnect ==
    /\ ui = "reading" /\ (uiConn # instance \/ pipe = "none")
    /\ ui' = "away"
    /\ uiConn' = 0
    /\ UNCHANGED <<UIUnchanged, pipe, toUI, fromUI, dialog, said, connects>>

UINext ==
    \/ UIConnect \/ UIRead \/ UIClose \/ UINoticesDisconnect
    \/ \E v \in Answers : UserAnswers(v)

Next == SvcNext \/ CallersNext \/ Start \/ Stop \/ StopSteps \/ UINext

-----------------------------------------------------------------------------
(* Fairness.  A daemon thread that can run does, and a mutex waiter is not  *)
(* starved (SF on the two acquisitions of write_mutex_).  Nobody is forced  *)
(* to ask, push or stop.                                                    *)

ThreadFairness ==
    /\ WF_vars(SvcNext) /\ SF_vars(SvcSnapLock)
    /\ WF_vars(Start) /\ WF_vars(StopSteps)
    /\ \A c \in Callers : WF_vars(CallerStep(c)) /\ SF_vars(LockAndCopyHandle(c))

\* A running UI process reads its pipe and notices a lost connection ...
UIFairness == WF_vars(UIRead) /\ WF_vars(UINoticesDisconnect)

\* ... and a present user closes every dialog in the end.
UserFairness == WF_vars(\E v \in Answers : UserAnswers(v))

Spec == Init /\ [][Next]_vars
LiveSpec == Spec /\ ThreadFairness /\ UIFairness
PresentUserSpec == LiveSpec /\ UserFairness

-----------------------------------------------------------------------------
(* Properties.                                                             *)

TypeOK ==
    /\ running \in BOOLEAN /\ connected \in BOOLEAN
    /\ pipe_handle \in Nat /\ instance \in Nat
    /\ pending_confirms \subseteq Ids
    /\ next_id \in 1 .. MaxIds + 1
    /\ write_mutex \in Writers \cup {Nobody}
    /\ promise \in [Ids -> Answers \cup {Unset}]
    /\ pipe \in {"none", "listening", "open", "broken"}
    /\ toUI \in Seq(Ids \cup {Note})
    /\ fromUI \in Seq([id : Ids, answer : Answers])
    /\ aborted \subseteq Writers
    /\ svc \in SvcPoints
    /\ caller \in [Callers -> CallerPoints]
    /\ confirm_id \in [Askers -> Ids \cup {0}]
    /\ handle \in [Writers -> Nat]
    /\ result \in [Askers -> Answers]
    /\ main \in MainPoints
    /\ ui \in {"away", "reading", "dialog"}
    /\ uiConn \in Nat
    /\ dialog \in Ids \cup {0}
    /\ said \in [Ids -> Answers \cup {Unset}]
    /\ connects \in 0 .. MaxConnects

\* The program points of askConfirm() at which the request's promise is in the
\* caller's hands.
Registered == {"lock", "writing", "unregister", "wait", "timedout"}
Holding(a, id) == confirm_id[a] = id /\ caller[a] \in Registered

\* No promise is kept twice and none is lost: an entry of pending_confirms_ is
\* unanswered and has exactly one live caller behind it, and a caller past its
\* registration finds its request still pending or already answered.  (Keeping
\* a std::promise twice throws in the service thread; an entry without a caller
\* would be a leak; a lost one blocks its caller for ever.)
PromiseDiscipline ==
    /\ \A id \in pending_confirms :
          /\ promise[id] = Unset
          /\ \E a \in Askers : Holding(a, id)
    /\ \A a \in Askers : caller[a] \in Registered =>
          confirm_id[a] \in pending_confirms \/ promise[confirm_id[a]] # Unset
    /\ \A a, b \in Askers :
          a # b /\ confirm_id[a] = confirm_id[b] => confirm_id[a] = 0

\* The user's consent is never invented, mixed up or upgraded: a request that
\* returned an approval was approved by the user under that very confirm id,
\* with trust only if the user ticked it, or it timed out under timeout_allow.
ApprovalHasCause ==
    \A a \in Askers :
        caller[a] = "idle" /\ result[a].confirmed =>
            /\ confirm_id[a] # 0
            /\ \/ result[a] = said[confirm_id[a]]
               \/ result[a] = Allow /\ TimeoutMode = "timeout_allow"

\* stop() can reach the service thread wherever it blocks: the handle it
\* cancels I/O on is the one the thread waits on.
BlockedIoIsRegistered ==
    svc \in {"connecting", "snapping", "reading"} =>
        pipe_handle = instance /\ pipe # "none"

\* Every caller of askConfirm() gets a decision in the end.
AskReturns == \A a \in Askers : caller[a] # "idle" ~> caller[a] = "idle"

\* An answer that reached the pipe decides the request it is for, even when the
\* UI is gone before it is read: the caller returns that answer and no other,
\* unless its timer or stop() comes first.
AnswerCounts ==
    \A a \in Askers, v \in Answers :
        /\ caller[a] = "wait" /\ promise[confirm_id[a]] = Unset
        /\ \E i \in DOMAIN fromUI : fromUI[i] = [id |-> confirm_id[a], answer |-> v]
        ~> caller[a] = "timedout" \/ main # "up" \/ (caller[a] = "idle" /\ result[a] = v)

\* stop() returns once its CancelIoEx found the service thread blocked.
CaughtStopReturns == Svc \in aborted ~> main = "stopped"

\* What a comment says and the code does not keep under wait_forever (README.md):
\* whoever is in askConfirm() when stop() is called returns.
StopFreesAskers == \A a \in Askers : main = "cancel_io" /\ caller[a] # "idle" ~> caller[a] = "idle"

-----------------------------------------------------------------------------
(* The service implements the gate.  A request is open from generateId() to *)
(* its return; the gate hears what the user said under its confirm id.      *)

Gate == INSTANCE ConfirmGate WITH
    open <- {a \in Askers : caller[a] # "idle"},
    heard <- [a \in Askers |->
                IF caller[a] # "idle" /\ said[confirm_id[a]] # Unset
                THEN {said[confirm_id[a]]} ELSE {}],
    verdict <- result

\* askConfirm() refuses, approves and trusts only as ConfirmGate allows.
ImplementsGate == Gate!Spec
=============================================================================
