---------------------------- MODULE WslVMManager ----------------------------
(***************************************************************************)
(* WslVMManager (vmm/vm/vm_manager.cc): the life cycle of one WSL          *)
(* distribution, driven through wsl.exe, the WSL COM service and wslapi,   *)
(* each of which may fail at every call.                                   *)
(*                                                                         *)
(* One call runs at a time.  Each outside command is a step of its own,    *)
(* so that the distribution may die, be woken by somebody else or finish   *)
(* an installation between two of them.  What WSL does is the environment: *)
(* a command that wakes the distribution may find that it does not start,  *)
(* and one that nobody waits for any longer may still take effect.         *)
(***************************************************************************)
EXTENDS Naturals, Sequences, FiniteSets

CONSTANTS
    kMaxRetries,    \* attempts of wsl.exe --import
    ConfigFiles,    \* contents of .wslconfig, sequences of lines
    MaxLines,       \* bound: a longer .wslconfig is not written again
    MaxStrays       \* bound: commands left behind at a time

\* The lines of .wslconfig that writeWslConfig() tells apart.
Lines == {"blank", "[wsl2]", "[other]", "kernel=old", "kernel=new", "memory"}

ASSUME ManagerAssumption ==
    /\ kMaxRetries \in Nat \ {0}
    /\ ConfigFiles \subseteq Seq(Lines)
    /\ MaxLines \in Nat
    /\ MaxStrays \in Nat

VARIABLES
    registered,     \* the registry entry: "no", "stuck" (State # 1) or "yes"
    distro,         \* "stopped" or "running"
    disk, snapshot, \* what its disk and the last exported file hold
    config,         \* .wslconfig
    orphans,        \* keepalives of manager processes that died are running
    stray,          \* commands that run and that nobody waits for
    com,            \* com_init_attempted_ and com_available_
    keepalive,      \* keepalive_process_: "none", "alive" or "exited"
    lines,          \* writeWslConfig(): what was read of the file
    op,             \* the call in progress and its program point
    reply,          \* what the last call returned
    meddled         \* history: a stray command took effect during the call

wslVars == <<registered, distro, disk, snapshot, config, orphans, stray>>
managerVars == <<com, keepalive, lines, op, reply, meddled>>
vmVars == <<wslVars, managerVars>>

NoDisk == "none"
Disks == {NoDisk, "fresh", "used"}
Options == [kernel : BOOLEAN, bootstrap : BOOLEAN]
Plain == [kernel |-> FALSE, bootstrap |-> FALSE]
Idle == [call |-> "none", at |-> "rest", try |-> 0, cfg |-> Plain]
Commands == {"unregister", "import", "restore", "terminate", "export"}
Calls == {"create", "start", "stop", "destroy", "state", "run", "list", "snapshot", "restore"}

ManagerInit ==
    /\ registered \in {"no", "stuck", "yes"}
    /\ distro = "stopped"
    /\ disk = IF registered = "yes" THEN "fresh" ELSE NoDisk
    /\ snapshot = NoDisk
    /\ config \in ConfigFiles
    /\ orphans = FALSE
    /\ stray = {}
    /\ com = "untried"
    /\ keepalive = "none"
    /\ lines = <<>>
    /\ op = Idle
    /\ reply = "none"
    /\ meddled = FALSE

At(point) == op.at = point
Goto(point) == op' = [op EXCEPT !.at = point] /\ UNCHANGED <<reply, meddled>>
Return(answer) == op' = Idle /\ reply' = answer /\ UNCHANGED meddled
Begin(call, cfg, point) ==
    /\ op' = [call |-> call, at |-> point, try |-> 0, cfg |-> cfg]
    /\ meddled' = FALSE
    /\ UNCHANGED reply
Answer(answer) == reply' = answer /\ UNCHANGED <<op, meddled>>

Strays(commands) == Cardinality(commands) <= MaxStrays /\ stray' = commands

\* tryGetComService(): asked once, remembered for the life of the process.
ComService(available) ==
    /\ com = "untried" \/ (com = "yes") = available
    /\ com' = IF available THEN "yes" ELSE "no"

-----------------------------------------------------------------------------
(* writeWslConfig().                                                       *)

IsHeader(line) == line \in {"[wsl2]", "[other]"}
IsKernel(line) == line \in {"kernel=old", "kernel=new"}

\* The last header above a line is [wsl2].
InWsl2(file, i) ==
    \E h \in 1 .. i - 1 :
        /\ file[h] = "[wsl2]"
        /\ \A j \in h + 1 .. i - 1 : ~IsHeader(file[j])

KernelLines(file) == {i \in DOMAIN file : IsKernel(file[i]) /\ InWsl2(file, i)}

\* Faulty variant of WithKernel: a kernel line of any section is replaced.
WithKernelAnywhere(file) ==
    [i \in DOMAIN file |-> IF IsKernel(file[i]) THEN "kernel=new" ELSE file[i]]

\* Without a kernel line to replace, one is appended at the end of the file.
WithKernel(file) ==
    IF KernelLines(file) # {}
    THEN [i \in DOMAIN file |-> IF i \in KernelLines(file) THEN "kernel=new" ELSE file[i]]
    ELSE file \o (IF \E i \in DOMAIN file : file[i] = "[wsl2]" THEN <<>> ELSE <<"blank", "[wsl2]">>)
               \o <<"kernel=new">>

-----------------------------------------------------------------------------
(* createDistro().                                                         *)

CreateBegin(cfg) ==
    /\ IF registered = "yes"
       THEN Answer("already_exists")
       ELSE Begin("create", cfg, IF registered = "stuck" THEN "unregister_stuck" ELSE "config")
    /\ UNCHANGED <<wslVars, com, keepalive, lines>>

Unregistered ==
    /\ registered' = "no" /\ distro' = "stopped" /\ disk' = NoDisk
    /\ UNCHANGED <<snapshot, config, orphans>>

\* cleanupStuckDistro(): wsl.exe --unregister is waited for 15 seconds and then
\* left to itself, ...
UnregisterStuck ==
    /\ At("unregister_stuck")
    /\ \/ Unregistered /\ UNCHANGED stray
       \/ UNCHANGED wslVars
       \/ /\ Strays(stray \cup {"unregister"})
          /\ UNCHANGED <<registered, distro, disk, snapshot, config, orphans>>
    /\ Goto("delete_stuck")
    /\ UNCHANGED <<com, keepalive, lines>>

\* Faulty variant of DeleteStuck: the state is not read again.
DeleteStuckBlindly ==
    /\ At("delete_stuck")
    /\ Unregistered
    /\ Goto("config")
    /\ UNCHANGED <<stray, com, keepalive, lines>>

\* ... then the key is deleted if its state is still not 1.
DeleteStuck ==
    /\ At("delete_stuck")
    /\ registered' = IF registered = "stuck" THEN "no" ELSE registered
    /\ Goto("config")
    /\ UNCHANGED <<distro, disk, snapshot, config, orphans, stray, com, keepalive, lines>>

\* The file is read, or taken for empty if that fails, and then truncated.
ReadConfig ==
    /\ At("config")
    /\ \/ ~op.cfg.kernel /\ Goto("import") /\ UNCHANGED <<config, lines>>
       \/ op.cfg.kernel /\ Goto("write") /\ lines' \in {config, <<>>} /\ config' = <<>>
       \/ op.cfg.kernel /\ Return("internal_error") /\ UNCHANGED <<config, lines>>
    /\ UNCHANGED <<registered, distro, disk, snapshot, orphans, stray, com, keepalive>>

\* Line by line.  A stream that fails drops the rest, and the call goes on.
WriteConfig ==
    /\ At("write")
    /\ LET n == Len(config) + 1 IN
       \/ /\ n <= Len(WithKernel(lines))
          /\ config' = Append(config, WithKernel(lines)[n])
          /\ UNCHANGED <<lines, op, reply, meddled>>
       \/ Goto("import") /\ lines' = <<>> /\ UNCHANGED config
    /\ UNCHANGED <<registered, distro, disk, snapshot, orphans, stray, com, keepalive>>

Imported(image) ==
    /\ registered = "no"
    /\ registered' = "yes"
    /\ disk' = image
    /\ UNCHANGED <<distro, snapshot, config, orphans>>

ImportSucceeds == Imported("fresh") /\ UNCHANGED stray

\* createDistroViaWslExe().  After 120 seconds the exit code is read while wsl.exe
\* still runs, and its output is waited for: an import that succeeds late is a
\* failure here.
ImportViaWslExe ==
    /\ At("import")
    /\ \/ ImportSucceeds /\ Goto("bootstrap")
       \/ ImportSucceeds /\ Goto("import_com")
       \/ Goto("import_com") /\ UNCHANGED wslVars
    /\ UNCHANGED <<com, keepalive, lines>>

\* Another installation is going on (0x8000000d): wait and try again.
ImportBusy ==
    /\ At("import")
    /\ IF op.try + 1 < kMaxRetries
       THEN op' = [op EXCEPT !.try = @ + 1] /\ UNCHANGED <<reply, meddled>>
       ELSE Goto("import_com")
    /\ UNCHANGED <<wslVars, com, keepalive, lines>>

ImportViaCom ==
    /\ At("import_com")
    /\ \/ ComService(TRUE) /\ ImportSucceeds /\ Goto("bootstrap")
       \/ \E available \in BOOLEAN : ComService(available) /\ Goto("import_api") /\ UNCHANGED wslVars
    /\ UNCHANGED <<keepalive, lines>>

\* Faulty variant of ImportViaApi: its failure is taken for success.
ImportViaApiOptimist ==
    /\ At("import_api")
    /\ \/ ImportSucceeds /\ Goto("bootstrap")
       \/ Goto("bootstrap") /\ UNCHANGED wslVars
    /\ UNCHANGED <<com, keepalive, lines>>

\* WslRegisterDistribution(), then WslConfigureDistribution(), whose failure is
\* the failure of the call though the distribution is registered.
ImportViaApi ==
    /\ At("import_api")
    /\ \/ ImportSucceeds /\ Goto("bootstrap")
       \/ ImportSucceeds /\ Return("io_error")
       \/ Return("io_error") /\ UNCHANGED wslVars
    /\ UNCHANGED <<com, keepalive, lines>>

\* The command line of the session wakes the distribution, if it starts.
Wakes ==
    /\ registered = "yes"
    /\ distro' = "running"
    /\ UNCHANGED <<registered, disk, snapshot, config, orphans, stray>>

\* runBootstrapCommand(): started, not waited for, its failure not an error.
Bootstrap ==
    /\ At("bootstrap")
    /\ \/ ~op.cfg.bootstrap /\ UNCHANGED <<wslVars, com>>
       \/ /\ op.cfg.bootstrap
          /\ \E available \in BOOLEAN : ComService(available)
          /\ Wakes \/ UNCHANGED wslVars
    /\ Return("ok")
    /\ UNCHANGED <<keepalive, lines>>

CreateSteps ==
    \/ UnregisterStuck \/ DeleteStuck \/ ReadConfig \/ WriteConfig
    \/ ImportViaWslExe \/ ImportBusy \/ ImportViaCom \/ ImportViaApi \/ Bootstrap

-----------------------------------------------------------------------------
(* startDistro().                                                          *)

\* cleanupKeepalive() kills the process of the handle and closes it.
StartBegin ==
    /\ IF registered # "yes"
       THEN Answer("not_found") /\ UNCHANGED keepalive
       ELSE Begin("start", Plain, "pkill") /\ keepalive' = "none"
    /\ UNCHANGED <<wslVars, com, lines>>

\* wsl.exe -d <name> -- pkill -x sleep: wakes the distribution and ends what an
\* earlier process left in it.  Whether it does either is not looked at.
KillSleepers ==
    /\ At("pkill")
    /\ \/ UNCHANGED wslVars
       \/ /\ registered = "yes"
          /\ distro' = "running"
          /\ orphans' \in {orphans, FALSE}
          /\ UNCHANGED <<registered, disk, snapshot, config, stray>>
    /\ Goto("keepalive")
    /\ UNCHANGED <<com, keepalive, lines>>

\* wsl.exe -d <name> -- sleep infinity, which then wakes the distribution or ends.
LaunchKeepalive ==
    /\ At("keepalive")
    /\ \/ keepalive' = "alive" /\ Goto("confirm")
       \/ Return("io_error") /\ UNCHANGED keepalive
    /\ UNCHANGED <<wslVars, com, lines>>

\* A process that is still there after two seconds is taken for a started
\* distribution.
ConfirmStarted ==
    /\ At("confirm")
    /\ IF keepalive = "alive"
       THEN Return("ok") /\ UNCHANGED keepalive
       ELSE Return("io_error") /\ keepalive' = "none"
    /\ UNCHANGED <<wslVars, com, lines>>

StartSteps == KillSleepers \/ LaunchKeepalive \/ ConfirmStarted

-----------------------------------------------------------------------------
(* stopDistro(), alone or on behalf of destroyDistro(), snapshotDistro()   *)
(* and restoreFromSnapshot(), which go on whatever it returns.             *)

StopBegin ==
    /\ Begin("stop", Plain, "stop_com")
    /\ keepalive' = "none"
    /\ UNCHANGED <<wslVars, com, lines>>

AfterStop(answer) ==
    CASE op.call = "stop"     -> Return(answer)
      [] op.call = "snapshot" -> Goto("export")
      [] OTHER                -> Goto("destroy_com")

\* Its processes in Windows end in steps of their own.
Terminated ==
    /\ distro' = "stopped"
    /\ UNCHANGED <<registered, disk, snapshot, config, orphans>>

StopViaCom ==
    /\ At("stop_com")
    /\ \/ ComService(TRUE) /\ Terminated /\ AfterStop("ok") /\ UNCHANGED stray
       \/ \E available \in BOOLEAN : ComService(available) /\ Goto("stop_wsl") /\ UNCHANGED wslVars
    /\ UNCHANGED <<keepalive, lines>>

StopViaWslExe ==
    /\ At("stop_wsl")
    /\ \/ Terminated /\ AfterStop("ok") /\ UNCHANGED stray
       \/ AfterStop("io_error") /\ UNCHANGED wslVars
    /\ UNCHANGED <<com, keepalive, lines>>

StopSteps == StopViaCom \/ StopViaWslExe

-----------------------------------------------------------------------------
(* destroyDistro() and restoreFromSnapshot().                              *)

DestroyBegin ==
    /\ IF registered # "yes"
       THEN Answer("ok") /\ UNCHANGED keepalive
       ELSE Begin("destroy", Plain, "stop_com") /\ keepalive' = "none"
    /\ UNCHANGED <<wslVars, com, lines>>

\* Nobody looks whether there is a snapshot before the distribution is destroyed.
RestoreBegin ==
    /\ IF registered # "yes"
       THEN Begin("restore", Plain, "restore") /\ UNCHANGED keepalive
       ELSE Begin("restore", Plain, "stop_com") /\ keepalive' = "none"
    /\ UNCHANGED <<wslVars, com, lines>>

AfterDestroy(answer) ==
    IF op.call = "restore" /\ answer = "ok" THEN Goto("restore") ELSE Return(answer)

DestroyViaCom ==
    /\ At("destroy_com")
    /\ \/ ComService(TRUE) /\ Unregistered /\ AfterDestroy("ok") /\ UNCHANGED stray
       \/ \E available \in BOOLEAN : ComService(available) /\ Goto("destroy_wsl") /\ UNCHANGED wslVars
    /\ UNCHANGED <<keepalive, lines>>

DestroyViaWslExe ==
    /\ At("destroy_wsl")
    /\ \/ Unregistered /\ AfterDestroy("ok") /\ UNCHANGED stray
       \/ AfterDestroy("io_error") /\ UNCHANGED wslVars
    /\ UNCHANGED <<com, keepalive, lines>>

\* wsl.exe --import of the snapshot, as a disk or as an archive by its extension.
Restored == snapshot # NoDisk /\ Imported(snapshot)

RestoreImport ==
    /\ At("restore")
    /\ \/ Restored /\ Return("ok") /\ UNCHANGED stray
       \/ Return("io_error") /\ UNCHANGED wslVars
    /\ UNCHANGED <<com, keepalive, lines>>

DestroySteps == DestroyViaCom \/ DestroyViaWslExe \/ RestoreImport

-----------------------------------------------------------------------------
(* snapshotDistro().                                                       *)

SnapshotBegin ==
    /\ IF registered # "yes"
       THEN Answer("not_found") /\ UNCHANGED keepalive
       ELSE Begin("snapshot", Plain, "stop_com") /\ keepalive' = "none"
    /\ UNCHANGED <<wslVars, com, lines>>

Exported ==
    /\ registered = "yes"
    /\ snapshot' = disk
    /\ UNCHANGED <<registered, distro, disk, config, orphans>>

\* As a disk, or else as an archive; stopped or not.
Export ==
    /\ At("export")
    /\ \/ Exported /\ Return("ok") /\ UNCHANGED stray
       \/ Goto("export_tar") /\ UNCHANGED wslVars
    /\ UNCHANGED <<com, keepalive, lines>>

ExportTar ==
    /\ At("export_tar")
    /\ \/ Exported /\ Return("ok") /\ UNCHANGED stray
       \/ Return("io_error") /\ UNCHANGED wslVars
    /\ UNCHANGED <<com, keepalive, lines>>

SnapshotSteps == Export \/ ExportTar

-----------------------------------------------------------------------------
(* getDistroState(), runCommand(), listDistros().                          *)

Running == distro = "running"

\* The keepalive process answers if there is one; one that has exited is dropped.
StateBegin ==
    /\ CASE registered # "yes"     -> Answer("not_registered") /\ UNCHANGED keepalive
         [] keepalive = "alive"    -> Answer("running") /\ UNCHANGED keepalive
         [] keepalive = "exited"   -> Answer("stopped") /\ keepalive' = "none"
         [] OTHER                  -> Begin("state", Plain, "state_com") /\ UNCHANGED keepalive
    /\ UNCHANGED <<wslVars, com, lines>>

StateViaCom ==
    /\ At("state_com")
    /\ \/ ComService(TRUE) /\ Return(IF Running THEN "running" ELSE "stopped")
       \/ \E available \in BOOLEAN : ComService(available) /\ Goto("state_list")
    /\ UNCHANGED <<wslVars, keepalive, lines>>

\* wsl.exe -l --running: a failure reads as stopped, and any distribution whose
\* name contains this one's as running.
StateViaList ==
    /\ At("state_list")
    /\ \E answer \in {"running", "stopped"} : Return(answer)
    /\ UNCHANGED <<wslVars, com, keepalive, lines>>

RunBegin ==
    /\ Begin("run", Plain, "run_com")
    /\ UNCHANGED <<wslVars, com, keepalive, lines>>

RunViaCom ==
    /\ At("run_com")
    /\ \/ ComService(TRUE) /\ Wakes /\ Return("handle")
       \/ \E available \in BOOLEAN : ComService(available) /\ Goto("run_api") /\ UNCHANGED wslVars
    /\ UNCHANGED <<keepalive, lines>>

\* WslLaunch() may return a handle of a command that ends at once.
RunViaApi ==
    /\ At("run_api")
    /\ \/ Wakes /\ Return("handle")
       \/ \E answer \in {"handle", "invalid"} : Return(answer) /\ UNCHANGED wslVars
    /\ UNCHANGED <<com, keepalive, lines>>

\* From the COM service or from wsl.exe --list; a failure is an empty list.
ListDistros ==
    /\ \E available \in BOOLEAN : ComService(available)
    /\ \/ Answer(IF registered = "yes" THEN "listed" ELSE "unlisted")
       \/ Answer("unlisted")
    /\ UNCHANGED <<wslVars, keepalive, lines>>

QuerySteps == StateViaCom \/ StateViaList \/ RunViaCom \/ RunViaApi

-----------------------------------------------------------------------------
(* Everybody else.                                                         *)

\* An idle shutdown, wsl --shutdown or a crash.
DistroDies == Running /\ Terminated /\ UNCHANGED <<stray, managerVars>>

\* Another user of WSL, or a keepalive that has got so far.
OtherWakes == ~Running /\ Wakes /\ UNCHANGED managerVars

\* wsl.exe fails, or what it runs has ended with the distribution or before it.
KeepaliveEnds ==
    /\ \/ keepalive = "alive" /\ keepalive' = "exited" /\ UNCHANGED orphans
       \/ orphans /\ orphans' = FALSE /\ UNCHANGED keepalive
    /\ UNCHANGED <<registered, distro, disk, snapshot, config, stray, com, lines, op, reply, meddled>>

GuestWrites ==
    /\ Running /\ disk = "fresh"
    /\ disk' = "used"
    /\ UNCHANGED <<registered, distro, snapshot, config, orphans, stray, managerVars>>

\* The installation that left the entry in another state ends.
InstallEnds ==
    /\ registered = "stuck"
    /\ registered' = "yes"
    /\ disk' = "fresh"
    /\ UNCHANGED <<distro, snapshot, config, orphans, stray, managerVars>>

\* The command that a program point waits for, if it is not one to read.
UnderWay(point) ==
    CASE point \in {"unregister_stuck", "destroy_com", "destroy_wsl"} -> {"unregister"}
      [] point \in {"import", "import_com", "import_api"}             -> {"import"}
      [] point = "restore"                                           -> {"restore"}
      [] point \in {"stop_com", "stop_wsl"}                          -> {"terminate"}
      [] point \in {"export", "export_tar"}                          -> {"export"}
      [] OTHER                                                       -> {}

\* A command that nobody waits for takes effect, or fails.
StrayEnds ==
    /\ \E command \in stray :
          /\ stray' = stray \ {command}
          /\ \/ UNCHANGED <<registered, distro, disk, snapshot, config, orphans, meddled>>
             \/ /\ CASE command = "unregister" -> Unregistered
                     [] command = "import"     -> Imported("fresh")
                     [] command = "restore"    -> Restored
                     [] command = "terminate"  -> Terminated
                     [] OTHER                  -> Exported
                /\ meddled' = TRUE
    /\ UNCHANGED <<com, keepalive, lines, op, reply>>

\* The manager's process dies: the distribution keeps its keepalive, and the
\* command in progress goes on.
ManagerDies ==
    /\ orphans' = (orphans \/ keepalive = "alive")
    /\ Strays(stray \cup UnderWay(op.at))
    /\ com' = "untried" /\ keepalive' = "none" /\ lines' = <<>> /\ op' = Idle /\ reply' = "none"
    /\ UNCHANGED <<registered, distro, disk, snapshot, config, meddled>>

\* ~WslVMManager() ends it.
ManagerExits ==
    /\ op = Idle
    /\ com' = "untried" /\ keepalive' = "none" /\ reply' = "none"
    /\ UNCHANGED <<wslVars, lines, op, meddled>>

ManagerSteps == CreateSteps \/ StartSteps \/ StopSteps \/ DestroySteps \/ SnapshotSteps \/ QuerySteps

Client ==
    /\ op = Idle
    /\ \/ \E cfg \in Options : (cfg.kernel => Len(config) <= MaxLines) /\ CreateBegin(cfg)
       \/ StartBegin \/ StopBegin \/ DestroyBegin \/ RestoreBegin \/ SnapshotBegin
       \/ StateBegin \/ RunBegin \/ ListDistros \/ ManagerExits

Environment ==
    \/ DistroDies \/ OtherWakes \/ KeepaliveEnds \/ GuestWrites \/ InstallEnds \/ StrayEnds

ManagerNext == Client \/ ManagerSteps \/ Environment \/ ManagerDies

ManagerSpec == ManagerInit /\ [][ManagerNext]_vmVars

-----------------------------------------------------------------------------
(* Properties.                                                             *)

Points == {"rest", "unregister_stuck", "delete_stuck", "config", "write", "import", "import_com",
           "import_api", "bootstrap", "pkill", "keepalive", "confirm", "stop_com", "stop_wsl",
           "destroy_com", "destroy_wsl", "restore", "export", "export_tar", "state_com",
           "state_list", "run_com", "run_api"}
Replies == {"none", "ok", "already_exists", "not_found", "io_error", "internal_error", "running",
            "stopped", "not_registered", "handle", "invalid", "listed", "unlisted"}

ManagerTypeOK ==
    /\ registered \in {"no", "stuck", "yes"}
    /\ distro \in {"stopped", "running"}
    /\ disk \in Disks /\ snapshot \in Disks
    /\ config \in Seq(Lines) /\ lines \in Seq(Lines)
    /\ orphans \in BOOLEAN
    /\ stray \subseteq Commands
    /\ com \in {"untried", "yes", "no"}
    /\ keepalive \in {"none", "alive", "exited"}
    /\ op \in [call : Calls \cup {"none"}, at : Points, try : 0 .. kMaxRetries - 1, cfg : Options]
    /\ reply \in Replies
    /\ meddled \in BOOLEAN

Succeeds(call) == op.call = call /\ op' = Idle /\ reply' = "ok"

\* Whichever of the fallbacks made a call succeed, its promise is kept when it
\* says Ok, whatever WSL and its other users did between its commands (the
\* contracts of include/vmm/vm_manager.h), unless a command that an earlier call
\* or an earlier process has left behind took effect meanwhile.  A stop leaves
\* nothing of its own that could wake the distribution again.
OkMeansDone ==
    [][ /\ Succeeds("create") /\ ~meddled => registered' = "yes"
        /\ Succeeds("stop")     => distro' = "stopped" /\ keepalive' = "none"
        /\ Succeeds("destroy")  => registered' = "no" /\ keepalive' = "none"
        /\ Succeeds("snapshot") => registered' = "yes" /\ snapshot' = disk'
        /\ Succeeds("restore")  => registered' = "yes" /\ disk' = snapshot ]_vmVars

\* A disk is only lost to a destroy, a restore, or a wsl --unregister that is
\* still running: the clean-up of a stuck entry, which deletes the key by itself,
\* spares an installation that ended meanwhile, and no other call loses one.
Unregistering == At("unregister_stuck") \/ "unregister" \in stray
DiskSurvives ==
    [][ disk # NoDisk /\ disk' = NoDisk =>
            op.call \in {"destroy", "restore"} \/ Unregistering ]_vmVars

\* As far as the new .wslconfig is written, every line that was read stands in
\* its place, but for the kernel lines of [wsl2].
OtherLinesKept ==
    At("write") =>
        \A i \in DOMAIN config \cap DOMAIN lines : i \in KernelLines(lines) \/ config[i] = lines[i]
=============================================================================
