--------------------------- MODULE VmmSupervisor ---------------------------
(***************************************************************************)
(* Two supervisors on top of each other: the daemon's VmmLauncher          *)
(* (daemon-service/daemon/vmm_launcher.cc) keeps one vmm.exe running, and  *)
(* vmm.exe (vmm/main.cc, vmm/vmm_app.cc) keeps the distribution running    *)
(* through WslVMManager.                                                   *)
(*                                                                         *)
(* Three threads act: the daemon's main thread (start, stop), the monitor  *)
(* thread, and vmm.exe's only thread, which is blocked in the manager's    *)
(* call while op is not Idle.  vmm.exe may die at any time.  Creating the  *)
(* process and trying to put it into the job object is one step; the job's *)
(* processes, keepalives included, end when the launcher closes it.        *)
(***************************************************************************)
EXTENDS WslVMManager

CONSTANTS
    max_rapid_restarts,
    MAX_RESTART_ATTEMPTS

ASSUME SupervisorAssumption ==
    max_rapid_restarts \in Nat \ {0} /\ MAX_RESTART_ATTEMPTS \in Nat

VARIABLES
    main,           \* VmmLauncher::start() and stop()
    should_monitor,
    stop_event,     \* "none", "clear" or "set"
    process_handle, \* "none" or "held"
    jobbed,         \* every vmm.exe so far is in the job that ends with its handle
    monitor,        \* monitorLoop()
    rapid_restart_count,
    vmm,            \* vmm.exe: where it is, or "dead"
    shutdown,       \* g_vmm_shutdown_event is set
    known,          \* last_known_state_
    restart_attempts,
    fast            \* history: deaths in a row within ten seconds of a launch

launcherVars == <<main, should_monitor, stop_event, process_handle, jobbed, monitor, rapid_restart_count, fast>>
appVars == <<vmm, shutdown, known, restart_attempts>>
vars == <<vmVars, launcherVars, appVars>>

Init ==
    /\ ManagerInit /\ registered # "stuck"
    /\ main = "idle"
    /\ should_monitor = FALSE
    /\ stop_event = "none"
    /\ process_handle = "none"
    /\ jobbed = TRUE
    /\ monitor = "none"
    /\ rapid_restart_count = 0
    /\ vmm = "dead"
    /\ shutdown = FALSE
    /\ known = "not_registered"
    /\ restart_attempts = 0
    /\ fast = 0

\* A process starts with its fields as its constructors leave them, and its
\* handles go when it ends.
AppReset ==
    /\ shutdown' = FALSE
    /\ known' = "not_registered"
    /\ restart_attempts' = 0

-----------------------------------------------------------------------------
(* VmmLauncher: start.                                                     *)

\* launchProcess().  That the job cannot be made, limited or joined is a warning.
Launched == vmm' = "init" /\ process_handle' = "held" /\ jobbed' \in {jobbed, FALSE}

LauncherStarts ==
    /\ main = "idle"
    /\ main' = "up"
    /\ stop_event' = "clear"
    /\ Launched
    /\ should_monitor' = TRUE
    /\ monitor' = "top"
    /\ UNCHANGED <<vmVars, rapid_restart_count, fast, shutdown, known, restart_attempts>>

\* No vmm.exe is found, or it cannot be launched: the event and the job are closed.
LauncherFails ==
    /\ main = "idle"
    /\ main' = "failed"
    /\ UNCHANGED <<vmVars, should_monitor, stop_event, process_handle, jobbed, monitor,
                   rapid_restart_count, fast, appVars>>

-----------------------------------------------------------------------------
(* The monitor thread.                                                     *)

MonitorGoes(from, to) == monitor = from /\ monitor' = to
MonitorUnchanged == <<vmVars, main, should_monitor, stop_event, shutdown, known, restart_attempts>>

MonitorTop ==
    /\ MonitorGoes("top", IF should_monitor THEN "wait" ELSE "done")
    /\ UNCHANGED <<MonitorUnchanged, process_handle, jobbed, rapid_restart_count, fast, vmm>>

\* Faulty variant of MonitorWakes: only the event is waited for.
MonitorWakesForEvent ==
    /\ stop_event = "set" /\ MonitorGoes("wait", "done")
    /\ UNCHANGED <<MonitorUnchanged, process_handle, jobbed, rapid_restart_count, fast, vmm>>

\* WaitForMultipleObjects(): the process has ended or the event is set.
MonitorWakes ==
    /\ \/ /\ process_handle = "held" /\ vmm = "dead"
          /\ MonitorGoes("wait", IF should_monitor THEN "exited" ELSE "done")
       \/ stop_event = "set" /\ MonitorGoes("wait", "done")
    /\ UNCHANGED <<MonitorUnchanged, process_handle, jobbed, rapid_restart_count, fast, vmm>>

MonitorReaps ==
    /\ MonitorGoes("exited", "count")
    /\ process_handle' = "none"
    /\ UNCHANGED <<MonitorUnchanged, jobbed, rapid_restart_count, fast, vmm>>

\* The death came within ten seconds of the launch, or later.
MonitorCounts ==
    /\ \/ ~should_monitor /\ MonitorGoes("count", "done") /\ UNCHANGED <<rapid_restart_count, fast>>
       \/ /\ should_monitor
          /\ rapid_restart_count' = rapid_restart_count + 1
          /\ fast' = fast + 1
          /\ MonitorGoes("count", IF rapid_restart_count' >= max_rapid_restarts THEN "done" ELSE "delay")
       \/ /\ should_monitor
          /\ rapid_restart_count' = 0
          /\ fast' = 0
          /\ MonitorGoes("count", "delay")
    /\ UNCHANGED <<MonitorUnchanged, process_handle, jobbed, vmm>>

\* The delay passes, or the event is set before it does.
MonitorDelays ==
    /\ \/ stop_event # "set" /\ MonitorGoes("delay", IF should_monitor THEN "launch" ELSE "done")
       \/ stop_event = "set" /\ MonitorGoes("delay", "done")
    /\ UNCHANGED <<MonitorUnchanged, process_handle, jobbed, rapid_restart_count, fast, vmm>>

\* A launch that fails leaves the loop without a process to wait for.
MonitorLaunches ==
    /\ MonitorGoes("launch", "top")
    /\ \/ Launched
       \/ UNCHANGED <<process_handle, jobbed, vmm>>
    /\ UNCHANGED <<MonitorUnchanged, rapid_restart_count, fast>>

MonitorSteps ==
    MonitorTop \/ MonitorWakes \/ MonitorReaps \/ MonitorCounts \/ MonitorDelays \/ MonitorLaunches

-----------------------------------------------------------------------------
(* vmm.exe.                                                                *)

AppUnchanged == <<launcherVars, shutdown>>
Called(call, next) == call /\ vmm' = next
NoCall(next) == vmm' = next /\ UNCHANGED vmVars
Answered == op = Idle

\* VmmApp::init() asks for the state, ...
InitAsks ==
    /\ vmm = "init"
    /\ Called(StateBegin, "init_state")
    /\ UNCHANGED <<AppUnchanged, known, restart_attempts>>

\* ... starts a distribution that is stopped, and makes sure that OpenClaw runs.
InitKnows ==
    /\ vmm = "init_state" /\ Answered
    /\ known' = reply
    /\ CASE reply = "stopped" -> Called(StartBegin, "init_start")
         [] reply = "running" -> Called(RunBegin, "init_claw")
         [] OTHER             -> NoCall("ready")
    /\ UNCHANGED <<AppUnchanged, restart_attempts>>

InitStarted ==
    /\ vmm = "init_start" /\ Answered
    /\ IF reply = "ok"
       THEN known' = "running" /\ Called(RunBegin, "init_claw")
       ELSE NoCall("ready") /\ UNCHANGED known
    /\ UNCHANGED <<AppUnchanged, restart_attempts>>

InitDone ==
    /\ vmm = "init_claw" /\ Answered
    /\ NoCall("ready")
    /\ UNCHANGED <<AppUnchanged, known, restart_attempts>>

\* run(): the event is made and the console handler registered.
RunStarts ==
    /\ vmm = "ready"
    /\ NoCall("idle")
    /\ UNCHANGED <<AppUnchanged, known, restart_attempts>>

\* watchdogCheck(), every five seconds without a shutdown.
CheckAsks ==
    /\ vmm = "idle" /\ ~shutdown
    /\ Called(StateBegin, "check")
    /\ UNCHANGED <<AppUnchanged, known, restart_attempts>>

\* After 60 seconds as "running" the attempts are forgotten.
CheckSame ==
    /\ vmm = "check" /\ Answered /\ reply = known
    /\ NoCall("idle")
    /\ restart_attempts' \in {restart_attempts} \cup (IF known = "running" THEN {0} ELSE {})
    /\ UNCHANGED <<AppUnchanged, known>>

\* Faulty variant of CheckChanged: the state is remembered only after a restart.
CheckChangedLate ==
    /\ vmm = "check" /\ Answered /\ reply # known
    /\ IF known = "running" /\ reply = "stopped" /\ restart_attempts < MAX_RESTART_ATTEMPTS
       THEN restart_attempts' = restart_attempts + 1 /\ Called(StartBegin, "restart")
       ELSE NoCall("idle") /\ UNCHANGED restart_attempts
    /\ UNCHANGED <<AppUnchanged, known>>

\* Only "running" to "stopped" is restarted, a limited number of times.
CheckChanged ==
    /\ vmm = "check" /\ Answered /\ reply # known
    /\ known' = reply
    /\ IF known = "running" /\ reply = "stopped" /\ restart_attempts < MAX_RESTART_ATTEMPTS
       THEN restart_attempts' = restart_attempts + 1 /\ Called(StartBegin, "restart")
       ELSE NoCall("idle") /\ UNCHANGED restart_attempts
    /\ UNCHANGED AppUnchanged

Restarted ==
    /\ vmm = "restart" /\ Answered
    /\ IF reply = "ok"
       THEN known' = "running" /\ Called(RunBegin, "claw")
       ELSE NoCall("idle") /\ UNCHANGED known
    /\ UNCHANGED <<AppUnchanged, restart_attempts>>

ClawDone ==
    /\ vmm = "claw" /\ Answered
    /\ NoCall("idle")
    /\ UNCHANGED <<AppUnchanged, known, restart_attempts>>

\* The process ends: ~WslVMManager() runs, or does not.
AppGone(exits) ==
    /\ vmm' = "dead"
    /\ AppReset
    /\ IF exits THEN ManagerExits ELSE ManagerDies

\* The event: the loop is left and stop() stops a distribution known to run.
ShutdownSeen ==
    /\ vmm = "idle" /\ shutdown
    /\ IF known = "running"
       THEN Called(StopBegin, "stopping") /\ UNCHANGED <<shutdown, known, restart_attempts>>
       ELSE AppGone(TRUE)
    /\ UNCHANGED launcherVars

AppExits ==
    /\ vmm = "stopping" /\ Answered
    /\ AppGone(TRUE)
    /\ UNCHANGED launcherVars

\* It waits for WSL in the manager's calls.
ManagerWorks ==
    /\ vmm # "dead"
    /\ ManagerSteps
    /\ UNCHANGED <<launcherVars, appVars>>

AppDies ==
    /\ vmm # "dead"
    /\ AppGone(FALSE)
    /\ UNCHANGED launcherVars

AppSteps ==
    \/ InitAsks \/ InitKnows \/ InitStarted \/ InitDone \/ RunStarts
    \/ CheckAsks \/ CheckSame \/ CheckChanged \/ Restarted \/ ClawDone
    \/ ShutdownSeen \/ AppExits \/ ManagerWorks

-----------------------------------------------------------------------------
(* VmmLauncher: stop.                                                      *)

MainGoes(from, to) == main = from /\ main' = to

LauncherStops ==
    /\ MainGoes("up", "signal")
    /\ should_monitor' = FALSE
    /\ UNCHANGED <<vmVars, stop_event, process_handle, jobbed, monitor, rapid_restart_count, fast, appVars>>

\* Faulty variant of StopSignals: the event is not set.
StopSignalsNot ==
    /\ MainGoes("signal", "join")
    /\ UNCHANGED <<vmVars, should_monitor, stop_event, process_handle, jobbed, monitor,
                   rapid_restart_count, fast, appVars>>

StopSignals ==
    /\ MainGoes("signal", "join")
    /\ stop_event' = "set"
    /\ UNCHANGED <<vmVars, should_monitor, process_handle, jobbed, monitor, rapid_restart_count, fast, appVars>>

StopJoins ==
    /\ monitor = "done" /\ MainGoes("join", "break")
    /\ UNCHANGED <<vmVars, should_monitor, stop_event, process_handle, jobbed, monitor,
                   rapid_restart_count, fast, appVars>>

\* vmmConsoleCtrlHandler() is registered in the watchdog's loop only.
Handled == vmm \in {"idle", "check", "restart", "claw"}

StopUnchanged == <<should_monitor, stop_event, jobbed, monitor, rapid_restart_count, fast>>

\* stopProcess(): Ctrl+Break reaches the handler, kills a process without one,
\* or cannot be sent.
StopBreaks ==
    /\ \/ /\ process_handle = "none" /\ MainGoes("break", "close")
          /\ UNCHANGED <<vmVars, appVars>>
       \/ /\ process_handle = "held" /\ MainGoes("break", "wait")
          /\ \/ UNCHANGED <<vmVars, appVars>>
             \/ Handled /\ shutdown' = TRUE /\ UNCHANGED <<vmVars, vmm, known, restart_attempts>>
             \/ vmm # "dead" /\ ~Handled /\ AppGone(FALSE)
    /\ UNCHANGED <<StopUnchanged, process_handle>>

\* TerminateProcess() after stop_timeout_ms.
StopTerminates ==
    /\ main = "wait" /\ vmm # "dead"
    /\ AppGone(FALSE)
    /\ UNCHANGED <<StopUnchanged, process_handle, main>>

StopReaps ==
    /\ vmm = "dead" /\ MainGoes("wait", "close")
    /\ process_handle' = "none"
    /\ UNCHANGED <<vmVars, StopUnchanged, appVars>>

\* Faulty variant of StopCloses: the job is kept open.
StopClosesEventOnly ==
    /\ MainGoes("close", "down")
    /\ stop_event' = "none"
    /\ UNCHANGED <<vmVars, should_monitor, process_handle, jobbed, monitor, rapid_restart_count, fast, appVars>>

\* The event and the job are closed; JOB_OBJECT_LIMIT_KILL_ON_JOB_CLOSE ends
\* the keepalives and commands that a vmm.exe in it has left.
StopCloses ==
    /\ MainGoes("close", "down")
    /\ stop_event' = "none"
    /\ orphans' \in (IF jobbed THEN {FALSE} ELSE {FALSE, orphans})
    /\ stray' \in (IF jobbed THEN {{}} ELSE {{}, stray})
    /\ UNCHANGED <<registered, distro, disk, snapshot, config, managerVars, should_monitor,
                   process_handle, jobbed, monitor, rapid_restart_count, fast, appVars>>

StopperSteps == StopSignals \/ StopJoins \/ StopBreaks \/ StopTerminates \/ StopReaps \/ StopCloses

-----------------------------------------------------------------------------
WslActs == (DistroDies \/ OtherWakes \/ KeepaliveEnds \/ StrayEnds) /\ UNCHANGED <<launcherVars, appVars>>

Next ==
    \/ LauncherStarts \/ LauncherFails \/ LauncherStops \/ StopperSteps
    \/ MonitorSteps \/ AppSteps \/ AppDies \/ WslActs

Spec == Init /\ [][Next]_vars

\* The three threads run, and a wait with a timeout ends.  Nobody need start or
\* stop the launcher, and neither vmm.exe nor the distribution need die.
FairSpec == Spec /\ WF_vars(MonitorSteps) /\ WF_vars(AppSteps) /\ WF_vars(StopperSteps)

-----------------------------------------------------------------------------
(* Properties.                                                             *)

TypeOK ==
    /\ ManagerTypeOK
    /\ main \in {"idle", "failed", "up", "signal", "join", "break", "wait", "close", "down"}
    /\ should_monitor \in BOOLEAN
    /\ stop_event \in {"none", "clear", "set"}
    /\ process_handle \in {"none", "held"}
    /\ jobbed \in BOOLEAN
    /\ monitor \in {"none", "top", "wait", "exited", "count", "delay", "launch", "done"}
    /\ rapid_restart_count \in 0 .. max_rapid_restarts
    /\ vmm \in {"dead", "init", "init_state", "init_start", "init_claw", "ready", "idle",
                "check", "restart", "claw", "stopping"}
    /\ shutdown \in BOOLEAN
    /\ known \in {"not_registered", "stopped", "running"}
    /\ restart_attempts \in 0 .. MAX_RESTART_ATTEMPTS
    /\ fast \in 0 .. max_rapid_restarts

\* The launcher never loses vmm.exe: while one runs the handle is held, so the
\* monitor, which launches without a handle, never makes a second one.
VmmHasHandle == vmm # "dead" => process_handle = "held"

\* When stop() has returned nothing the launcher started is left, whatever the
\* monitor was doing and however vmm.exe ended: no process, no monitor and, if
\* each vmm.exe could be put into the job, no keepalive of one that was killed.
StopLeavesNothing ==
    main = "down" =>
        /\ vmm = "dead" /\ process_handle = "none"
        /\ monitor = "done"
        /\ keepalive # "alive"
        /\ jobbed => ~orphans

\* vmm.exe is not launched again after max_rapid_restarts deaths in a row that
\* each came within ten seconds.
RestartsLimited ==
    [][ monitor = "launch" /\ vmm' = "init" => fast < max_rapid_restarts ]_vars

\* stop() returns, wherever it catches the monitor and vmm.exe.
StopReturns == main = "signal" ~> main = "down"

\* vmm.exe comes back after it died, unless the launcher gave up on it, was
\* stopped, or could not launch it.
LaunchFailed == monitor = "wait" /\ process_handle = "none"
VmmComesBack ==
    vmm = "dead" /\ process_handle = "held" ~>
        vmm # "dead" \/ monitor = "done" \/ LaunchFailed

\* The watchdog does not go on believing in a distribution whose keepalive ended.
DeathIsNoticed ==
    keepalive = "exited" /\ known = "running" ~> known # "running" \/ keepalive = "alive"
=============================================================================
