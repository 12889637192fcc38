# ClawSpan in TLA+

ClawSpan lets an agent in a virtual machine act on a Windows desktop through a daemon
that asks the user before anything risky is executed.  The daemon is a multi-threaded
C++ program: named pipes, vsock connections, a service thread per channel, promises that
threads wait on, and a stop sequence that joins them all.  This directory models its
protocol core in TLA+, checks it with TLC and proves its main safety properties with
TLAPS.  Paths below are relative to `src/`.

Contents: [Inventory](#inventory) - [Modules](#modules) - [Runs](#runs) -
[Bounds](#bounds) - [Fairness](#fairness) - [Proofs](#proofs) -
[What the runs refute](#what-the-runs-refute) - [Beyond the runs](#beyond-the-runs) -
[Not modelled](#not-modelled) - [Plan](#plan)

## Inventory

| Component | State it keeps | Operations | What is hard about it | What makes it correct |
|---|---|---|---|---|
| UI channel, `daemon-service/ipc/ui_service.cc` | `running_`, `connected_`, `pipe_handle_`, `pending_confirms_` (a promise per confirm id), `write_mutex_` | `start`, `stop`, `push`, `askConfirm`, the service thread | any number of blocked askers; timeouts racing answers; a copied handle used after unlock; `CancelIoEx` | promises kept exactly once, approvals have a cause, every asker gets a decision, `stop` returns |
| Task registry, `daemon-service/core/task_registry.cc` | `tasks_`, `next_id_` | begin, end, find, cache and check an authorisation, count | callers of several connections in any order, with any ids | ids are not reused, the trust anchor of a task tree is fixed |
| Capability service, `daemon-service/core/capability_service.cc` | the loaded modules, the chain; a call's locals | `callCapability`, `release` | a call crosses five components while other connections end its task | nothing runs without consent, trust stays in its task |
| Security chain and filter, `core/security_chain.cc`, `security/filter/` | ordered modules, rules | registration, hooks | order of modules, early return | the strictest verdict wins |
| Module manager, `core/module_manager.cc` | libraries, module objects, routes | load, init, route, release | objects outliving their library, failure half way | no call into a module that is not ready or no longer loaded |
| Daemon, `daemon/daemon.cc` | status fields, connection counter, task ids of the VM | status updates and pushes, gateway frames, health thread, init, run, stop | the fields are changed by every connection thread; stop order | count exact, no change lost, nothing runs after `stop` |
| vsock server and bridge, `vmm/ipc/vsock_server.cc`, `vsock_bridge_server.cc` | listening socket, connection threads, active sockets | accept, serve, relay, stop | a thread per guest, blocked in `recv` | open and close reports pair, `stop` joins every thread |
| Pipe IPC server, `daemon-service/ipc/windows_ipc_server.cc` | pipe instances, work queue, active handles | accept, worker pool, stop | pushes racing the drain, a fixed pool, handle values that come back | a connection has one owner, each worker finds its sentinel, `stop` returns |
| IPC client and frame codec, `ipc/` | one pipe; none | request; encode, decode | - | a frame decodes to what was encoded |
| Gateway host, `vm_channel/gateway/gateway_host_server.cc` | sessions, three bounded queues, results, idempotency cache, rate buckets | sessions, commands, logs, risks, sweeps | expiry against late answers, retries, back-pressure | a command that is awaited or remembered is delivered once, its first result stays, every event is accounted for |
| VM channel gRPC server, `vm_channel/grpc/` | - | forwards to the gateway handler | - | - |
| VMM launcher, `daemon/vmm_launcher.cc` | child process, job, monitor thread, restart window | start, monitor, stop | exit detection racing stop; a restart limit | no child survives `stop`, a child that died comes back within the limit |
| VMM application, `vmm/main.cc`, `vmm/vmm_app.cc` | last known state, restart attempts | init, run, watchdog, stop, console handler | a failing restart; a death between two checks | a death of the distribution is noticed |
| VM manager, `vmm/vm/vm_manager.cc` | keepalive process, COM service; outside: registry, disk, `.wslconfig`, WSL | create, start, stop, destroy, state, run, list, snapshot, restore | every step is an outside command that may fail or run on after nobody waits for it, with one or two fallbacks; WSL changes in between | an Ok is true, a disk in use is not lost, the user's configuration survives |
| UI process, `ui/` | the pipe client, the modal dialog | read loop, dialog, reconnect | it does not read while a dialog is open | answers carry the id they were asked under |
| AX capability, `capability/ax/` | none of its own; outside: windows, element trees, foreground, focus, keyboard | list windows, tree, click, set value, focus, scroll, keys, activate | the desktop changes between read and act; callers share one keyboard | a path finds the element it was made for, input meets its target, no key stays down |
| MCP server and guest clients, `mcp/server/` | current task, connection, receive buffer | tools/call over vsock or gRPC | lost connections and replies, restarts on either side, no request ids on the stream | an operation runs at most once, a reply answers its own request, open tasks are accounted for |
| Audit, configuration, logging, scripts | files | - | I/O and formatting | - |

How they interact.  A guest's request starts at the MCP server in the VM and enters the
daemon on a vsock connection, a gRPC call or a pipe connection, each with a thread of its
own.  The thread calls `CapabilityService::callCapability`, which runs the security chain's
pre-hooks, looks the operation up in the task's cached authorisations, and otherwise blocks
in `UIService::askConfirm`.  That writes the question to the UI's pipe and waits on a
promise, which the UI channel's service thread keeps when the answer arrives.  Then the
capability is executed (the AX capability acts on the desktop), the post-hooks run, the
operation is counted and a log line is pushed to the UI on the same pipe.  Connection
threads and a health thread change the daemon's status and push it to the UI too.
`Daemon::stop()` first stops the UI channel, then joins the health thread and each server in
turn, and releases the modules.  Beside this, the launcher in the daemon keeps `vmm.exe`
running, which keeps the WSL distribution running that the guest lives in.

The hazards of each part, with the line where each bites, are the `hazards` of
`PROJECT.json`; the properties below are aimed at them.

## Modules

| Module | Stands for | Kind |
|---|---|---|
| `ConfirmGate` | the abstract contract of `askConfirm` | specification |
| `UIService` | `ui_service.cc` whole; the UI process as its environment | model |
| `TaskRegistry` | `task_registry.cc` | model |
| `SecurityChain` | `security_chain.cc` and `security_filter.cc` as functions | model |
| `CapabilityService` | `capability_service.cc`; EXTENDS `TaskRegistry`, INSTANCEs `ConfirmGate` | composition |
| `VmChannel` | the two vsock servers, the status of `daemon.cc`, its health thread and stop order | model |
| `GatewayHost` | `gateway_host_server.cc` without its session table | model |
| `IpcServer` | `windows_ipc_server.cc` | model |
| `ModuleManager` | `module_manager.cc` | model |
| `Daemon` | `init`, `run` and `stop` of `daemon.cc`; EXTENDS `IpcServer` and `ModuleManager` | composition |
| `WslVMManager` | `vm_manager.cc`; WSL as its environment | model |
| `VmmSupervisor` | `vmm_launcher.cc` and `vmm_app.cc`; EXTENDS `WslVMManager` | composition |
| `AXProvider` | `capability/ax/`; the desktop as its environment | model |
| `GuestClient` | the MCP server and its two clients, against the task frames of `daemon.cc` | model |
| `MC...` | instances for TLC, one for each model that is run | TLC |
| `..._proofs` | theorems about `UIService`, `CapabilityService` (with `TaskRegistry` and `SecurityChain`), `GatewayHost`, `VmChannel`, `VmmSupervisor` (with `WslVMManager`), `Daemon` (with its two parts), `AXProvider` and `GuestClient` | TLAPS |

`PROJECT.json` maps every definition to its source lines.  Operators marked "Faulty
variant" are not part of the models: each is a plausible bug of one action, and the
property named beside it in `PROJECT.json` must fail when the action is replaced by it.

### UIService and ConfirmGate

One variable per field of `UIService::Implement` (names kept without the trailing
underscore), the shared state of each promise, the operating system's side of the pipe
(`instance`, `pipe`, the two directions of messages, and `aborted`: threads whose
outstanding I/O `CancelIoEx` has cancelled), the program point and the copied handle of
each thread, and the UI with its user.

* The service thread is `Svc...`: create the instance, register its handle, connect,
  send the snapshot under `write_mutex_`, read until it fails, disconnect, cancel, close.
* `askConfirm` is `AskConfirm`/`AskWhileDisconnected`, `RegisterPromise`,
  `LockAndCopyHandle`, `WriteDelivers`/`WriteFails`, `UnregisterFailed`, and the wait:
  `TakeAnswer`, or `TimeOut` and then `DecideTimedOut`.  The steps are cut where the code
  releases a lock, so that every window between two critical sections is there.
* `push` shares `LockAndCopyHandle` and the write.
* `stop` is `Stop`, `StopCancelIo`, `StopCancelPending`, `StopJoin`, `StopFinish`.
* A handle is the number of its pipe instance.  A write on a stale handle may fail or, since Windows may
  hand the value out again, reach the instance that is open now.  `CancelIoEx` only
  reaches I/O that is outstanding when it is called.
* `TimeOut` may happen at any moment of a wait: time itself is not modelled.

`ConfirmGate` keeps three variables: which requests are open, what the user has said to
each, and what each returned.  `UIService!ImplementsGate` is the refinement: a request is
open from the generation of its confirm id to its return, and the gate hears what the
user said under that id.

### TaskRegistry, SecurityChain and CapabilityService

Every method of the registry holds `rw_mutex_` for its whole body, so it is one action
(or a state function).  Task ids are the numbers in "task-N"; the fingerprint vector,
which the code keeps free of duplicates, is a set; the operation counter wraps at
`OpModulus` as `uint32_t` does.

`SecurityChain` computes the order of registration (`std::lower_bound`), the merged
verdict and the filter's rule matching; `MCCapabilityService` composes the shipped kinds of rules with it to get the verdicts that
`CapabilityService` takes as constants.

In `CapabilityService` a connection is a thread with the locals of `callCapability`.
Every call into another component is a step, so other connections act in between.  A
`TaskContext*` is the id of the task it points into: it dangles when that task ends.
`trusted` and `logged` are history variables the properties refer to and no guard reads.

### VmChannel

A connection is a slot with a thread.  On the bridge it is also two sockets, entered in
`active_sockets_` one after the other (`RegisterClient`, `RegisterTarget`), two relay threads
(`RelayEnds`, `RelaySendFails`), which the connection's thread joins, and the gRPC server at
the other end (`peer`); `StopBridge` may close the sockets that are entered at any point
between.  A connection's two reports are `ConnOpened` and
`ConnClosed`, which change the counter and then, in steps of their own, the status field
(`UpdateState`), the snapshot (`TakeSnapshot`) and the push (`PushStatus`).  The health thread and the
main thread go through the same steps.  `Stop` to `Stopped` is the order of
`Daemon::stop()`.  The variable `current` is history: which snapshots on their way, and
whether the status the UI was sent last, are no older than the last change.  The push is
one step here, since `UIService` already shows how writes are serialised.

### GatewayHost

One variable per field of `GatewayHostServer` (the three sets of command ids are where a
command is: queued, in flight, answered).  Every method loads `running_` and then works
under `state_mutex_`: `Enter` is the load, the action of the method's name the rest, and
the set `inside` holds the threads between the two.  `start` and `stop` exchange
`running_` and clear the state in a second step, so a method may run between them.  The
two `set...Policy` methods do not look at `running_`.  Time is an argument that the VM
supplies, so stamps come in any order.  An event is its number in the order of arrival;
a bucket holds its tokens in units of 1/`Second`, so that the refill by elapsed time is
exact where the code rounds.  `handed`, `awaited`, `counts`, `passed` and `since` are
history: `handed` counts every hand-out of a command, whatever the three sets say of it, until
it was answered and the answer is gone.

### IpcServer, ModuleManager and Daemon

In `IpcServer` each thread has a program point; a call of Windows that may block has two,
before it is made and while it is outstanding, since `CancelIoEx` reaches only the second.
A handle is a value that `CreateNamedPipe` may return again after it was closed, and
`CloseHandle` closes whatever the value stands for by then.  `INVALID_HANDLE_VALUE` is the
sentinel in the work queue, as in the code.  `StopCancelsAccept` to `StopJoinsWorkers` are
the sections of `stop()`.  A worker in `callCapability` is at the point "call".

`ModuleManager` has a module for each entry of `config.modules`, which may name a library
twice, as `parseToml` lets it: the state of its reference on the library and of the object
(none, made, ready, released, deleted), so that code running without its library shows.
`Route` is `routeModule`: a capability takes the name of an earlier one, and a module that
does not inherit what its `moduleType()` says (`Mistyped`) is owned but reached under no
name, and enters the chain if it says Security.  This is the Release build; a Debug build
asserts.
`Daemon` puts both under the phases of its life and adds the threads of the VM's servers,
each of which is in a call or not.  What a call does is `CapabilityService`, what those
servers do is `VmChannel`.

### WslVMManager and VmmSupervisor

`WslVMManager` runs one call at a time, as its callers do.  Each command given to the
registry, `wsl.exe`, the COM service and wslapi is one step, and the
fallback that follows a failure is the next.  A command takes effect and is seen to, takes
effect and is taken for a failure (an import that ends after its 120 seconds), or has none; one
that nobody waits for any longer (the `wsl --unregister` that gets 15 seconds, whatever
was under way when the process died) is in `stray`, and takes effect at any later time or
never (`StrayEnds`).  The keepalive is a process of its own: it is launched, and then wakes
the distribution or does not, and it ends after or before the distribution
(`KeepaliveEnds`).  Whether `pkill` did anything is not looked at, so an orphan may live on.
Between two steps the distribution may die, be woken by somebody else, write its disk or
finish an installation (`Environment`), and the whole process may die (`ManagerDies`), whose
keepalive then lives on as an orphan.  The disk and the exported file are known by what they
hold: nothing, a fresh system, or one in use.  `.wslconfig` is a sequence of lines; it is
truncated (`ReadConfig`) and written line by line (`WriteConfig`), and a stream that fails
drops the rest, which the call does not notice.  `meddled` is history: a stray command took
effect during the call.

`VmmSupervisor` adds the launcher's main thread, its monitor thread and the thread of
`vmm.exe`, which calls the manager.  `AppDies` may happen anywhere; the job object ends the
keepalives when it is closed, if it could be made, set up and given every process
(`jobbed`): a failure there is only logged.  `fast` is history.

### AXProvider

An element has an id, a control type, an AutomationId and a name; identifiers are the
element's texts or numbers, and a text that the path syntax cuts is one of its own.
`BuildTree`, `Serialize`, `Matches` and `FindElementByPath` are functions of the tree: a walk
down a path is many calls of UIA and one step here, so that no tree changes in its middle.
Otherwise a call is a sequence of steps, one for each call of UIA or Win32: find, pattern,
raise, aim, send, each key event.  `UserRaises`, `UserMinimises`, `WindowGoes` and `UIChanges` are
everybody else.  `disturbed` is history: whether somebody else, or a refusal by Windows,
has changed what a call's input will meet.

### GuestClient

The agent's tool calls follow one another.  A request carries its number, and the number of
the connection it went over; the daemon runs what it has read even when that connection is
gone.  A restarted daemon has no task open and hands out the same ids again.  `LinkDrops`,
`DaemonRestarts` and `GuestRestarts` are the faults.  `ran`, `lost` and `doubtful` are
history: how often each call was done, which tasks the client has dropped without an
answered end, and which a fault may have closed without its knowing.

## Runs

| Run | Shows |
|---|---|
| `ui_safety` | Two askers under `timeout_allow`, two connections of the UI, stop at any time: promises are kept once (`PromiseDiscipline`), an approval is the user's own answer to that request or a timeout (`ApprovalHasCause`), and `askConfirm` implements the gate (`ImplementsGate`). |
| `ui_live` | An asker and a pusher: every question gets a decision (`AskReturns`) and an answer that reached the pipe is what the caller returns, unless its timer or `stop` comes first (`AnswerCounts`), if the UI reads and the user closes dialogs; `stop` returns if it caught the service thread blocked (`CaughtStopReturns`). |
| `call_safety` | Two connections with nested tasks: all live tasks of a tree share root and root description (`RootAnchored`), consent (`ExecutedWithConsent`), trust (`TrustStaysInItsTask`), the count against the log (`CountMatchesLog`). |
| `channel` | A guest on each server, UI, health thread and stop: exact count (`CountIsExact`), no status change lost (`NewsReachesUI`), connections the bridge shuts end (`ClosedBridgeEnds`), stop returns once the guests are gone (`StopReturnsWithoutGuests`). |
| `gateway` | Two threads.  Three commands, repeated and late results, sweeps, a cache that shrinks, restarts: a command that waits for its answer or is remembered is not handed out again (`HandedOutOnce`), a stored result is not replaced (`FirstResultStays`), the cache keeps its bound (`CacheWithinPolicy`).  Log and risk events under two policies: none is lost or repeated without being counted (`EventsAccounted`), the queues keep their bounds through every change (`QueuesWithinPolicy`), and a session keeps its rate whatever stamps come (`RateLimited`). |
| `daemon` | Four entries of the configuration, a pipe server with two workers, a guest of the VM's servers, from loading to unloading: each worker that `stop` joins finds a sentinel (`SentinelEach`), no call is in a module that is not ready or already released (`CallsAreSafe`), routes lead to modules that are there, and to each that is not skipped or replaced (`RoutesAreOwned`), a `stop` that caught the acceptor blocked returns (`CaughtStopReturns`). |
| `wsl` | Every operation of the VM manager, every command of which may fail or be left running: an Ok of create, stop, destroy, snapshot and restore is true (`OkMeansDone`), a disk is lost only to the calls and commands that say so (`DiskSurvives`), what is written of `.wslconfig` keeps the other lines in their places (`OtherLinesKept`). |
| `vmm` | Launcher, monitor and watchdog with deaths at any point: `stop` returns (`StopReturns`) and leaves nothing that was in the job (`StopLeavesNothing`), a dead `vmm.exe` comes back or was given up (`VmmComesBack`), a dead distribution is noticed (`DeathIsNoticed`). |
| `ax` | Two callers, two windows, colliding identifiers: every path with clear identifiers leads back to its element (`PathsResolve`), an unmistakable one never to another, however trees change (`MeantIsFound`); no key stays down behind a call (`HeldIsReleased`), undisturbed input meets its window (`InputMeetsTarget`). |
| `guest` | Four calls, two faults, both transports: an operation runs at most once (`OnceOnly`), a reply goes to its own call (`AnswerIsOwn`), every open task is the current one or one the client has dropped (`OpenIsAccounted`), operations run under open tasks (`RunsUnderOpenTask`). |
| `module_unload`, `ui_forever` | Each refutes a comment (`DeletedBeforeUnload`, `StopFreesAskers`): see below. |

The largest are `call_safety` with seven million distinct states, `wsl` with four and `ax` with two.

## Bounds

* Confirm ids, connections, tasks and accepted guests are counters in the code and capped
  by `MaxIds`, `MaxConnects`, `MaxTasks`.  Two ids let one request overlap another or
  follow one that failed; two connections let a request survive a reconnection and a
  handle be stale.  `MaxTasks` is three: a task, its child and the child's child, each begun
  with either of two descriptions.  Calls are only made under two tasks of one description
  (the constraint `CallsUnderTwoTasks`), a parent and a child, or a task and its successor: no call looks at the
  description or at the tree.
* `PipeRoom = 1`: the pipe's 64 KiB buffer holds one message, so that a writer blocks
  as soon as the UI stops reading.  A larger buffer only delays this.
* `OpModulus = 2` lets the counter wrap within the run.
* Four fingerprints: one that is asked for, one that is denied, one whose response is
  vetoed, one whose module is not loaded.
* `VmChannel`: one slot per server, two connections in all, so that a slot is reused or the two servers
  overlap.  The slots only meet in the counter, which two of them suffice to race.
* `GatewayHost`: a cache of two results for three commands, so that eviction must choose;
  stamps 0, 1 and 3 with a lifetime of 1, so that a result can be undated, fresh, at its
  limit and expired, and a clock can stand still, jump and run backwards; policies that
  grow and shrink both queues and trade rate for burst.  `MaxEvents` is four log and four
  risk events, twice what the larger queue holds.  Commands and events share only `running_` and the
  lock, so the constraint `CommandsOrEvents` has one of them at rest while the other goes on.
  Stamps are not negative: the code treats a stamp below 0 like 0 but for the order of eviction.
* `Daemon`: two workers, so that one may be served while the other takes a sentinel, and
  two pipe instances, so that a value comes back while another is in use; a security module,
  a capability, a module that is not what it says, and the capability once more, so that a load
  fails after some are registered, one is skipped and one replaced.  `module_unload` needs one worker
  and one instance.
* `WslVMManager`: `kMaxRetries` is 8, as in the code; two commands left running, so that one
  may end in a later call beside another.  `MaxLines = 3` lets a file without the section grow to
  hold it; of the four initial files one is plain, one has a kernel line in its section, one in
  another section above it, and one a section below it.  No call but create looks at the file,
  so with any but the plain one (the constraint `CallsOrFiles`) there are only creates, and
  nothing is left running.
* `VmmSupervisor`: `kMaxRetries = 1`, one command left running, and an empty `.wslconfig` that is
  never written, since `wsl` covers all three; `max_rapid_restarts` and `MAX_RESTART_ATTEMPTS`
  are 5, as in the code.
* `AXProvider`: two callers, one of which acts on elements and one on keys and windows: the keyboard,
  the focus and the foreground are what they share.  `MaxDepth = 2` has a container below
  the window and its children; `MaxChanges = 1` change of a tree or a window, at any point
  of any call.  The two desktops collect the collisions: texts that are numbers or hold a
  slash, two names alike, two control types of one role, elements without a text.  No list of
  children is longer than `Digits`, the numerals at hand: five here, any number in the
  proofs, where `MaxDepth` is any depth `handleGetUITree` admits (1 to 20).
* `ui_forever` is an asker and a pusher under `wait_forever`, with one id and a user who closes
  dialogs.
* `GuestClient`: four calls are a begin, an operation, an end and one more, two faults a loss
  and a restart, in either order.
* Deadlock is not checked: in each model the system may stop, and does so when `stop` is
  over or its bounds are spent.
* Symmetry is used in `ui_safety` (askers), `call_safety` (connections) and
  `gateway` (commands), which check no liveness.

The proofs lift the bounds: they hold for any sets of threads and any values of these
constants.

## Fairness

Weak fairness of each thread's own steps: the operating system runs a thread that can
run.  Strong fairness of the two acquisitions of `write_mutex_` in `UIService`: an SRW
lock is contended but not withheld for ever.  In `VmChannel`, strong fairness of the health thread's
`HealthStops`: `WaitForSingleObject` returns `WAIT_OBJECT_0` at every wait that follows
`SetEvent` on the manual-reset event, though a pause may also end.  Weak fairness of
`Start`: `Daemon::init` calls it.  In `VmmSupervisor`, the main thread once it stops, the
monitor and `vmm.exe`: a wait of theirs has a timeout, is for another of the three, or is
for a command of the manager.  That such a command ends is an assumption about `wsl.exe`, not
about the code: `runWslExe` waits for it without a timeout (`vm_manager.cc:84`), and the import
of 120 seconds is not killed and its output is waited for (`:556`).  In `VmChannel` also the
relay threads, and the gRPC server, which ends a connection on which it was told that nothing
more comes (`PeerIsTold`).  In `Daemon`, each thread, and a call returns.

Nobody is forced to ask, push, connect, send, leave, start or stop; no process or
distribution is forced to die.  The UI's reading and its
noticing of a lost connection are fair since its read loop runs on its own thread.  Two
assumptions are about the outside and made only in the specifications that name them:
`UserFairness` in `PresentUserSpec`, that a dialog is closed in the end, and
`LeavingClientsSpec` of `Daemon`, that no pipe client keeps its connection for ever: `stop` closes the
handles of blocked clients, but on a synchronous handle `CloseHandle` may wait for the call
that is blocked on it.  `TimeOut` is part of the fair steps of a
caller, except under `wait_forever`, where it is disabled.  `GatewayHost`,
`CapabilityService`, `WslVMManager`, `AXProvider` and `GuestClient` state no fairness: nothing is claimed
to happen in them.

## Proofs

TLAPS checks every step, for all values of the constants that satisfy the named
assumptions: threads are distinct and pools and sets of connection slots finite, modes are
those of the enumeration, bounds and limits are natural numbers
(`ModeAssumption`, `ThreadAssumption`, `BoundAssumption`, `RegistryAssumption`,
`VerdictAssumption`, `ServiceAssumption`, `PolicyAssumption`, `TimeAssumption`,
`GuestAssumption`, `IpcAssumption`, `ManagerAssumption`, `SupervisorAssumption`,
`DesktopAssumption`), `.wslconfig` is a sequence of the kinds of lines that
`writeWslConfig` tells apart, numerals differ, no list of children is longer than there are
numerals, connections are finitely many, and the configuration is a sequence (`ConfiguredAssumption`).  Each module's
invariant is the conjunction of named parts.

Three proofs go along a recursive function: the walk down a path, the levels of a tree and
the loop over the chain.  Each is written as a function on an interval of numbers, so that
a lemma (`WalkStep`, `LevelsStep`, `DriveStep`) can show that its defining equation holds
and the induction can be over a set of numbers (`InductionInNat`, from the well-foundedness
of `<`).

**UIService_proofs.**
* `TypeCorrect`, from `TypeInv`, which adds to `TypeOK` the types of the messages in the
  two directions of the pipe.
* `BlockedIoCorrect`, from `IoInv`: wherever the service thread is between registering the
  handle and dropping it, the handle registered is its instance.
* `PromiseCorrect`.  `PromiseDiscipline` is not inductive: an id that `askConfirm` has
  handed out but not registered might be in the map already.  `PromiseInv` adds that
  every id in use is below `next_id`, that two callers never hold the same one, and that
  ids not handed out are unset.
* `ApprovalCorrect`, from `CauseInv`: the id of an answer on its way back, of a dialog, of a
  queued request, of a promise that was kept, ties each to what the user said under it.
  `AnswersMatch`, `UnsentIsUnsaid`, `QueuedIsUnsaid` and `DialogIsUnsaid` are its parts;
  they are what rules out that an answer is used for another request, or twice.
* `GateCorrect`: `Spec => ImplementsGate`.  Under `CauseInv` every step is a step of the
  gate or leaves its variables unchanged: a user's answer is `Hear`, a return is `Return`
  with a verdict that the gate allows, an ask is `Ask`.

**CapabilityService_proofs** is in three parts.

The registry by itself: `RegistryTypeCorrect` and `RootAnchoredCorrect`, for any number of
tasks and descriptions.  `BeginTask` is the interesting step: a child copies the anchor of a
live parent, so that it agrees with all the live tasks of the tree whether or not the
tree's root is still alive, and a task without a live parent opens a tree under a number
that no other carries.

The request path.  One inductive invariant `IInv`: types, `CallConsistent`
(a connection that is in a call has its arguments, and its request is open at the gate
exactly while it asks), consent and trust.  `ConsentCorrect` and `TrustCorrect` follow; `EndedStaysEndedCorrect`
and `CacheNeedsLiveTaskCorrect` are action properties shown from the same invariant.
`CountMatchesLogCorrect` adds `CountInv`: the calls of a live task between counting and
logging are counted with `Cardinality`, and `NoneAhead` (no call and no log line under an
id that is still to be handed out) lets a new task begin at zero; `ReducedSum` carries the sum over the
wrap of the counter.  The composition is then shown to implement both its parts, step by
step: `ServiceImplementsRegistry` (so that `ServiceKeepsAnchors` holds in the daemon and not
only in the registry) and `ServiceUsesGate` (the request path uses `ConfirmGate` as its
contract allows, and `GateCorrect` says that `UIService` keeps that contract).

The security chain, as functions.  `StrictestWins` says what `runPreHook` and `runPostHook`
compute for any chain and any verdicts, by an invariant of their loop (`Strictest`);
`HooksGiveVerdict` discharges for the chain what `VerdictAssumption` asks of the verdicts.
`RegistrationKeepsOrder` needs that `lower_bound` splits a sorted chain (`LowerBoundSplits`).

**GatewayHost_proofs.** `TypeCorrect` needs that what is cut from a queue was in it.
`HandedOutOnceCorrect` rests on `CommandInv`: a command is in one place only, at most once
in the queue, and one whose hand-out is counted is in flight or answered, which is
what `EnqueueCommand` looks at; so none of those is in the queue.  `FirstResultCorrect` needs no more than what each method
does to the results.  `EventsAccountedCorrect` has a lemma for each thing
that happens to a queue: an arrival, a removal, a cut.  `QueuesWithinPolicyCorrect`
follows from the same lemmas; `CacheWithinPolicyCorrect` adds that the cache is finite, so that
cardinalities compare.  `RateLimitedCorrect` rests on `RateInv`: what
a bucket holds and has let pass is paid for by one burst and the rate over the time from
its first stamp to its last; opening, refilling and taking a token each keep it so, and a
stamp that runs backwards pays nothing.

**VmChannel_proofs.** `CounterIsExact` counts threads: `Counted` says that the counter is
the number of threads between their two reports while the daemon is not over, and 0 after
its reset, which needs `Joined`: what each phase of `stop()` has waited for stays ended, so
no report comes after the reset.  `NewsIsPushed` rests on `Newest`: every change of the
status is followed, in the same thread, by a snapshot that is no older.  `AtRest` says who
can be on the way to push at all, from which `StopLeavesQuiet` follows.

**VmmSupervisor_proofs** is in two layers.  `MInv` is about the manager alone: `WslTypes` and
`CallTypes` are the types, `OpTyped` ties each call to the points it can be at, `Owned` says what a
stop and a create rely on at theirs, and `Written` that what is written of the file is a
beginning of what shall be.  From it follow `OkIsTrue`, step by step: a call that meets no
stray command meets only what the environment may do to a registered distribution;
`DisksSurvive`, which has one case for each thing that may unregister; and `LinesAreKept`, for
files of any length (`WithKernelKeeps`).
`SInv` adds the supervisors: every step of
`vmm.exe` is a step of the manager or leaves it alone, so `MInv` carries over; `Held` says who has the
process handle at each point of the monitor and the main thread, which gives
`RunningVmmIsHeld` and, for a `vmm.exe` that is in the job, `NothingIsLeft`; `Limited` gives `RapidRestartsEnd`.
`SupervisorsUseManager` states the refinement: what the supervisors do to the manager's
variables are steps of `ManagerNext`, or the closing of the job.  So what is proved of the
manager's calls holds under the supervisors too (`SupervisedOkIsTrue`), and more: of its calls they use only
those that spare the disk, the snapshot and the configuration (`SupervisorsSpareDisks`).

**GuestClient_proofs.** `CallsRunOnce` needs `Spent`: a call that has not been sent is in
no request, and one that has been done is in none any more.  `AnswersAreOwn` needs
`OnWire`: on the present connection there is at most one request or one reply, and it
belongs to the call that waits, which is why a stream without request ids is enough.  `TasksKnown` follows
what the client may know of its task through `begin`, `end` and faults; `OpenAccounted`,
`OkMeansRan` and `CallsRunUnderOpenTask` follow.

**Daemon_proofs.** `PipeInv` is about the pipe server.  `SentinelsSuffice` counts: from
the drain on, the sentinels in front of the queue are as many as the workers that have not
ended (`Sentinels`), also when the acceptor queues one more connection behind them.  `OwnerIsAlone` needs
`Open`: a value that is in the queue or with a worker is not closed before `stop()` closes
`listen_handle_`, so `CreateNamedPipe` does not return it; after that no new instance is
ever listened on.  The rest of `IInv` is about the daemon: `Ready` and `Loading` follow the
modules as they come, `Releasing` as they go, and `Serving` says that servers and workers
live strictly in between, which gives `CallsReachModules` and, for every configuration, with
repeats and mistyped modules, `RoutesReachModules`;
`ReleasedKeepCode` is an action property shown from it.

**AXProvider_proofs.**  `CallsCorrect` gives the types and `CallsOK`: what each step of a call
relies on (a path and its element once it is found, bounds once it aims, key events that are
still to be sent).  The other four build on it.
* `PathsResolveCorrect` is about functions of the tree.  By induction over the levels every
  node `BuildTree` shows is reached by walking its own path (`NodesAreFound`): where the
  identifier is clear, the first child that matches is the one the path was made from
  (`ClearIsFirst`, `ClearIsFound`).
* `MeantIsFoundCorrect`: what a walk finds carries the last component of the path
  (`FoundMatches`), as did the element it was made from, and only one element may carry it.
* `HeldIsReleasedCorrect`: the key events still to be sent release every key that they or
  an earlier event of the call pressed (`StrokesRelease`, `TailReleases`).
  The property is about the releases that are still to come: to say instead that the presses
  exceed them would be false of a combination that repeats a key (Ctrl, Ctrl, C), which
  is released twice; the instance has such a combination.
* `InputMeetsTargetCorrect`, from `SteadyInv`: the foreground is a window or none, and while nobody has disturbed a
  call the foreground, the place of the window and the focus are what its last step made
  them.  What disturbs is everything other callers and programs do to them, so a step of
  one call keeps the part of another or marks it.

Proved and in no run of their own, since each is a part of what the invariants above rest
on: the types, `BlockedIoIsRegistered`, `EndedStaysEnded`, `CacheNeedsLiveTask`,
`StoppedIsQuiet`, `VmmHasHandle`, `RestartsLimited`, `OkIsDone`,
`OneOwner`, `BlockedIsActive` and `ReleaseKeepsCode`.

**Only model-checked.** Liveness under fairness (`AskReturns`, `AnswerCounts`,
`CaughtStopReturns` of `UIService` and of `Daemon`, `ClosedBridgeEnds`,
`StopReturnsWithoutGuests`, `StopReturns`, `VmmComesBack`, `DeathIsNoticed`) is beyond the
prover.  Every safety property of a passing run is proved.  The filter's rule matching
(`FilterPreHook`) is only evaluated, on the rules of `MCCapabilityService`.

## What the runs refute

`module_unload` (`module_manager.cc:184`): when a module's `init()` fails, `loadOneModule`
unloads the library while a `unique_ptr` still owns the module, whose destructor then runs
when the function returns.  The comment at `:227` says that every `unique_ptr` must be gone
before `FreeLibrary`, since the destructor would otherwise run in an unloaded library.

`ui_forever` (`ui_service.cc:461`): an asker that has read `connected_` may register its promise
after `stop` and the service thread have emptied the map.  Nobody empties it again, and under
`wait_forever` the caller does not return, though the comment at `:434` says that
`askConfirm` returns at once when `stop()` is called.  Under a timeout the timer decides.

## Beyond the runs

What the source does in corners that the properties exclude or do not reach.  Most are
behaviours of the models; the rest was met while modelling.

UI channel and calls:

* `CancelIoEx` finds nothing outstanding when the service thread has checked `running_` and
  not yet called `ConnectNamedPipe` or `ReadFile` (`:393`); `stop` then joins a thread that waits for
  a UI that may never come, against `:123`.  `CaughtStopReturns` excludes this.
* The wait times out, the user's denial keeps the promise before the entry is erased, and
  `timeout_allow` still approves (`:503`); `:490` calls the window harmless.
* `endTask` on another connection erases the entry a running call points into
  (`capability_service.cc:175`), against `task_registry.cc:24`.
* A snapshot of the status overtaken by a later one is pushed last (`daemon.cc:163`), or a close and an
  open set the channel state in the other order than the count; the UI then shows a state that is
  not the channel's until the next change, against `:202`.
* Under `timeout_allow` a request that queues behind an open dialog times out unseen and
  is approved (`ui_service.cc:509`).  `ApprovalHasCause` admits it as a timeout.
* `push` blocks while a dialog is open and the pipe is full (`:422`), though `:414` calls
  it non-blocking, and a confirmation waits for `write_mutex_` (`:470`) before its
  timeout starts.  `AskReturns` therefore needs `UserFairness`.
* `ConnectNamedPipe` fails with `ERROR_NO_DATA` when the client left before the call; the
  service thread takes this for a stop and ends (`:168`), `SvcConnectError`.
* A call whose execution fails, or whose capability is unknown, leaves no line in the
  UI's log (`capability_service.cc:209`), though `:89` says that every operation is
  reported: `ExecuteFails`.

vsock servers and gateway host:
* The frame server's `stop` closes only the listening socket (`vsock_server.cc:261`), so a
  silent guest keeps its thread, and the join, waiting, though `vsock_server.h:114` says it
  closes the active connections.  `StopReturnsWithoutGuests` therefore has its premise.
* A command that was handed out and never answered stays in flight until the gateway
  restarts; every retry of its id is accepted and ignored (`gateway_host_server.cc:225`).
* A result that arrives again after `takeCommandResult`, a sweep or an eviction is stored
  as new (`:278`), and an evicted or swept command may be queued and handed out again: the
  gateway promises idempotency only for what it remembers.
* When the cache is full, a result stamped older than all others evicts itself (`:551`).
* A method that has loaded `running_` can act between the two steps of `start` or after
  `stop` has cleared, and what it accepted is cleared by the next `start` (`:57`).

Pipe server, modules and daemon:
* A request whose JSON has a field of another type throws in the worker (`windows_ipc_server.cc:306`),
  which nobody catches: the process ends.  The model has no such request.
* `stop` closes `listen_handle_` although a worker may serve that instance or have closed
  it (`StopClosesListen`): the value may be another instance's by then, and if a client of the first
  instance is silent, `CloseHandle` may wait for its blocked read.
* An instance created after `stop` has begun is never closed; a connection queued after the
  drain stays in the queue (`windows_ipc_server.cc:192`).
* A client that leaves before `ConnectNamedPipe` is called ends the accept loop
  (`AcceptConnects`): the server then accepts nobody until a restart.
* `CancelIoEx` before the acceptor has called `ConnectNamedPipe` is lost, against `:102`,
  which says that it works in any iteration.
* A worker serves one connection to its end (`:222`): as many idle clients as workers keep
  everybody else waiting.
* The chain keeps its pointers when the modules are released; nothing calls it by then
  (`CallsAreSafe`).
* A module that says Security and does not inherit the interface is skipped by `routeModule`, whose
  comment (`module_manager.cc:98`) says that no `static_cast` then meets it; `loadOneModule` is not
  told, and casts and registers it in the chain (`:194`).  A module of a type that is skipped stays
  loaded without being reached, and a second capability of one name hides the first (`Route`).
* `module.h:95` says that `release()` has been called before a module is deleted.  When
  `init()` fails half way the modules before it are deleted without (`LoadEnds`;
  `capability_service.cc:57`).
* `g_shutdown_event` is compared with `INVALID_HANDLE_VALUE`, while `CreateEvent` returns
  NULL (`daemon.cc:1001`, `vmm_app.cc:263`).  Ctrl-C before the handler is registered ends
  the process at once.

Launcher, VMM and VM manager:
* A relaunch that fails is not tried again, though the log at `vmm_launcher.cc:238` says
  so (`LaunchFailed`); `start()` after the monitor gave up returns Ok (`:303`).  The header
  counts one rapid restart less than the code (`vmm_launcher.h:49`).
* `CreateProcess` and `AssignProcessToJobObject` are one step here; a daemon that dies
  between them leaves a `vmm.exe` outside the job (`:120`).
* The watchdog does not try a failed `startDistro` again (`vmm_app.cc:178`).
* A `vmm.exe` that is killed leaves its distribution running, until WSL stops it for want of a keepalive.
* A job object that cannot be made, set up or given the process is only logged
  (`vmm_launcher.cc:105`, `:114`, `:120`): keepalives may then outlive `stop`, which is why
  `StopLeavesNothing` has its premise (`jobbed`).
* An import is looked at after 120 s while `wsl.exe` still runs and counted as failed, though it may
  register the distribution before its output ends (`vm_manager.cc:556`); a failed
  `WslConfigureDistribution` returns an error for a distribution that is registered (`:488`).
  `OkMeansDone` is about Ok.
* `startDistro` returns Ok for a `wsl.exe` that has not ended after two seconds (`:707`), which the
  comment at `:718` takes for a started distribution: it may still fail, or the distribution may
  have ended before it (`ConfirmStarted`).  `OkMeansDone` says nothing of start.
* The result of `pkill` is ignored (`:676`): the keepalive of an earlier `vmm.exe` may live on
  beside the new one (`KillSleepers`).
* `cleanupStuckDistro` reads the state before it unregisters, waits 15 seconds for a command it
  does not kill (`:307`), and so may delete an installation that ended meanwhile, or the one that
  the same call goes on to make, though `:257` says that an installed one is spared
  (`UnregisterStuck`, `StrayEnds`).  `DiskSurvives` admits a running unregister, and `OkMeansDone`
  a create that one has `meddled` with.
* `wsl -l --running` is searched for the name as a substring (`:828`), and reads as stopped when it
  fails: `StateViaList` may answer either, whatever is true.
* `getDistroState` believes the keepalive's handle (`:793`), which may outlive the distribution.
* `.wslconfig` is truncated before it is written, line by line and unchecked (`:213`): a death or a
  failing stream loses lines, and a file that cannot be read is taken for empty; the call goes on
  all the same.  `OtherLinesKept` is about what has been written.
* The kernel line is appended at the end of a file that has the section elsewhere, and
  falls into the last section (`:209`), though `:156` says that it goes into `[wsl2]`.
* `destroyDistro` and `snapshotDistro` go on whatever the stop returned (`:765`, `:958`), so that a
  snapshot may be taken of a running distribution, though `:957` wants it consistent; a
  restore whose import fails, or that finds no snapshot, has unregistered the distribution
  already (`:995`).
* `startDistro` of a running distribution starts another keepalive after ending the old
  one; an `init` that finds the distribution running holds no handle, against `:384`.

AX capability:
* Numbers and slashes in texts, two names alike and two control types of one role lead to
  another element or to none: what `Clear` and `Unmistakable` exclude.
* The process id of a window id is dropped (`ax_provider_windows.cc:180`): after a handle
  was used again, a path is followed in another program's window.
* The answer of `SetForegroundWindow` is ignored, as is that of `SetFocus` in `set_value`
  (`:1049`): input then goes where the focus is.  What Windows refuses is in `disturbed`.
* Key events of two callers interleave: a modifier of one changes the key of the other.
* `ax_capability.cc:224`, `:253` and the interface promise that keys for a window do not
  take the foreground; the provider takes it.
* `scroll` reports Ok if `Scroll` fails, ignores the amount with the pattern though the comment at `:1097`
  uses it, and does not bring the window to the front before it turns the wheel.
* The serializer prunes the role AXSeparator, which no control type is mapped to.

Guest:
* After a lost connection the vsock client keeps its socket object, which
  `is_connected` takes for a connection (`vsock_client.py:145`): every later call fails.
* A frame that is too long or does not parse stays in the receive buffer, also over a close.
* A call that was reported as failed may still run, over gRPC also after its task was
  closed; a request without a connection leaves a task open in the daemon (`lost`).
* A daemon that was restarted counts its tasks from 1 again (`DaemonRestarts`): the id that
  a client still holds may by then be a task of its own that it has lost.
* `gui__end_task` with a task id replaces and then clears the current task's id.
* The client's window and shell methods are unknown to the AX capability, which answers
  NOT_SUPPORTED.  `recv()` has no timeout: a daemon that does not answer blocks the server.

## Not modelled

Message formats, JSON and protobuf encoding, logging and the UI's forms; time (a timeout
may happen at any moment of its wait); memory (a bad pointer is a task id that is not
live); failures to create threads, events or the listening sockets, on which the start
functions return at once.  In `SecurityChain`, `runTaskEndHook` only forwards a
notification, and the rules' TOML is not read.  In `VmChannel` and `Daemon` the gRPC server
behind the bridge and the launcher's stop are joins like the others and left out of the stop
order.  In `GatewayHost`, the handshake and heartbeat keep a session
table that no other method reads, and the audit record is written under the lock and
only logged when it fails; the rounding of `double` in the rate limit.  The envelope frames
of `handleVmGatewayFrame` forward to the gateway host; `vm_gateway_client.py` is wired to no
transport, and the start and stop of the guest's tunnel are left out.  The IPC client, the
frame codec, the gRPC forwarding layer, the audit service, the configuration and the
scripts are synchronous I/O without a state that calls share.

## Plan

Done: every component with a protocol of its own, and a theorem for each safety property.
What is left, by weight:

1. `GuestClient` composed with `CapabilityService`: the daemon of the one is a set of open
   tasks, that of the other a registry with a call path; a restart is no step of the
   registry, so the composition needs one of its own.
2. `GuestClient` composed with `GatewayHost` for the envelope frames, once a transport uses
   `vm_gateway_client.py`.
3. The session table of `GatewayHost`, when a method reads it.
