------------------------- MODULE VmmSupervisor_proofs -------------------------
(* Proofs about WslVMManager and, on top of them, about VmmSupervisor: for   *)
(* any limits, any contents of .wslconfig and any commands left behind.      *)
EXTENDS VmmSupervisor, TLAPS

-----------------------------------------------------------------------------
(* The user's .wslconfig.                                                  *)

\* writeWslConfig() changes kernel lines of [wsl2] or adds lines at the end.
LEMMA WithKernelKeeps ==
    ASSUME NEW file \in Seq(Lines)
    PROVE  /\ WithKernel(file) \in Seq(Lines)
           /\ \A i \in DOMAIN file \ KernelLines(file) : WithKernel(file)[i] = file[i]
<1>. "blank" \in Lines /\ "[wsl2]" \in Lines /\ "kernel=new" \in Lines
  BY DEF Lines
<1>1. CASE KernelLines(file) # {}
  <2>1. WithKernel(file) =
          [i \in 1 .. Len(file) |-> IF i \in KernelLines(file) THEN "kernel=new" ELSE file[i]]
    BY <1>1 DEF WithKernel
  <2>2. \A i \in 1 .. Len(file) :
           (IF i \in KernelLines(file) THEN "kernel=new" ELSE file[i]) \in Lines
    OBVIOUS
  <2>. QED  BY <2>1, <2>2
<1>2. CASE KernelLines(file) = {}
  <2> DEFINE header == IF \E i \in DOMAIN file : file[i] = "[wsl2]" THEN <<>> ELSE <<"blank", "[wsl2]">>
  <2>1. header \in Seq(Lines) /\ <<"kernel=new">> \in Seq(Lines)
    OBVIOUS
  <2>2. WithKernel(file) = (file \o header) \o <<"kernel=new">>
    BY <1>2 DEF WithKernel
  <2> HIDE DEF header
  <2>3. /\ file \o header \in Seq(Lines) /\ Len(file \o header) = Len(file) + Len(header)
        /\ \A i \in 1 .. Len(file) : (file \o header)[i] = file[i]
    BY <2>1
  <2> DEFINE longer == file \o header
  <2>4. /\ longer \o <<"kernel=new">> \in Seq(Lines)
        /\ \A i \in 1 .. Len(longer) : (longer \o <<"kernel=new">>)[i] = longer[i]
    BY <2>1, <2>3
  <2>. QED  BY <2>1, <2>2, <2>3, <2>4
<1>. QED  BY <1>1, <1>2

-----------------------------------------------------------------------------
(* The manager: which call is where, and what that says of WSL.            *)

PointOf(call, point) ==
    \/ call = "none" /\ point = "rest"
    \/ call = "create" /\ point \in {"unregister_stuck", "delete_stuck", "config", "write", "import",
                                    "import_com", "import_api", "bootstrap"}
    \/ call = "start" /\ point \in {"pkill", "keepalive", "confirm"}
    \/ call \in {"stop", "destroy", "restore", "snapshot"} /\ point \in {"stop_com", "stop_wsl"}
    \/ call \in {"destroy", "restore"} /\ point \in {"destroy_com", "destroy_wsl"}
    \/ call = "restore" /\ point = "restore"
    \/ call = "snapshot" /\ point \in {"export", "export_tar"}
    \/ call = "state" /\ point \in {"state_com", "state_list"}
    \/ call = "run" /\ point \in {"run_com", "run_api"}

OpTypes == [call : Calls \cup {"none"}, at : Points, try : 0 .. kMaxRetries - 1, cfg : Options]

WslTypes ==
    /\ registered \in {"no", "stuck", "yes"}
    /\ distro \in {"stopped", "running"}
    /\ disk \in Disks /\ snapshot \in Disks
    /\ orphans \in BOOLEAN
    /\ stray \subseteq Commands

CallTypes ==
    /\ com \in {"untried", "yes", "no"}
    /\ keepalive \in {"none", "alive", "exited"}
    /\ reply \in Replies
    /\ meddled \in BOOLEAN

\* An operation is at a point of its own, and has no other data than its own.
OpTyped ==
    /\ op \in OpTypes
    /\ PointOf(op.call, op.at)
    /\ op.call = "none" => op = Idle

\* A stop or a destroy has let go of its keepalive before its first command, and
\* a create that is about to end has registered the distribution.
StopPoints == {"stop_com", "stop_wsl", "destroy_com", "destroy_wsl"}
Owned ==
    /\ op.at \in StopPoints => keepalive = "none"
    /\ op.at = "bootstrap" => registered = "yes" \/ meddled

\* What is written of .wslconfig is a beginning of what shall be written.
Written ==
    /\ config \in Seq(Lines) /\ lines \in Seq(Lines)
    /\ op.at = "write" =>
          /\ Len(config) <= Len(WithKernel(lines))
          /\ \A i \in DOMAIN config : config[i] = WithKernel(lines)[i]

MInv == WslTypes /\ CallTypes /\ OpTyped /\ Owned /\ Written

\* A step of the manager's thread, or of what surrounds it.
ManagerActs ==
    \/ op = Idle /\ \E cfg \in Options : CreateBegin(cfg)
    \/ op = Idle /\ (StartBegin \/ StopBegin \/ DestroyBegin \/ RestoreBegin \/ SnapshotBegin
                     \/ StateBegin \/ RunBegin \/ ListDistros)
    \/ ManagerExits \/ ManagerSteps \/ Environment \/ ManagerDies

LEMMA ManagerInvInit == ManagerInit => MInv
<1> SUFFICES ASSUME ManagerInit PROVE MInv
  OBVIOUS
<1>1. OpTyped
  <2>1. 0 \in 0 .. kMaxRetries - 1
    BY ManagerAssumption
  <2>. QED  BY <2>1 DEF ManagerInit, OpTyped, OpTypes, PointOf, Idle, Plain, Options, Points, Calls
<1>2. WslTypes /\ CallTypes
  BY DEF ManagerInit, WslTypes, CallTypes, Disks, NoDisk, Replies
<1>3. Owned
  BY DEF ManagerInit, Owned, StopPoints, Idle
<1>4. Written
  BY ManagerAssumption DEF ManagerInit, Written, Idle
<1>. QED  BY <1>1, <1>2, <1>3, <1>4 DEF MInv

LEMMA ManagerInvImplies == MInv => ManagerTypeOK /\ OtherLinesKept
<1> SUFFICES ASSUME MInv PROVE ManagerTypeOK /\ OtherLinesKept
  OBVIOUS
<1>1. ManagerTypeOK
  BY DEF MInv, WslTypes, CallTypes, OpTyped, Owned, Written, OpTypes, ManagerTypeOK
<1>2. ASSUME At("write"), NEW i \in DOMAIN config \cap DOMAIN lines, i \notin KernelLines(lines)
      PROVE  config[i] = lines[i]
  <2>1. lines \in Seq(Lines) /\ config[i] = WithKernel(lines)[i]
    BY <1>2 DEF MInv, Written, At
  <2>2. WithKernel(lines)[i] = lines[i]
    BY <1>2, <2>1, WithKernelKeeps
  <2>. QED  BY <2>1, <2>2
<1>. QED  BY <1>1, <1>2 DEF OtherLinesKept

LEMMA MInvStutters == MInv /\ UNCHANGED vmVars => MInv'
BY DEF MInv, WslTypes, CallTypes, OpTyped, OpTypes, Owned, Written, vmVars, wslVars, managerVars

\* The four ways a step may leave the program point.
LEMMA Started ==
    ASSUME NEW call \in Calls, NEW point, PointOf(call, point), NEW cfg \in Options,
           Begin(call, cfg, point)
    PROVE  OpTyped' /\ op'.call = call /\ op'.at = point /\ reply' = reply /\ meddled' = FALSE
<1>1. op' = [call |-> call, at |-> point, try |-> 0, cfg |-> cfg]
  BY DEF Begin
<1>2. 0 \in 0 .. kMaxRetries - 1
  BY ManagerAssumption
<1>3. point \in Points /\ call # "none"
  BY DEF PointOf, Points, Calls
<1>. QED  BY <1>1, <1>2, <1>3 DEF OpTyped, OpTypes, Begin

LEMMA Moved ==
    ASSUME OpTyped, NEW point, PointOf(op.call, point), op.call # "none", Goto(point)
    PROVE  OpTyped' /\ op'.call = op.call /\ op'.at = point /\ UNCHANGED <<reply, meddled>>
<1>1. op' = [op EXCEPT !.at = point] /\ UNCHANGED <<reply, meddled>>
  BY DEF Goto
<1>2. op \in OpTypes
  BY DEF OpTyped
<1>3. point \in Points
  BY DEF PointOf, Points
<1>4. op' \in OpTypes /\ op'.call = op.call /\ op'.at = point
  BY <1>1, <1>2, <1>3 DEF OpTypes
<1>. QED  BY <1>1, <1>4 DEF OpTyped

LEMMA AtRest == op' = Idle => OpTyped' /\ op'.call = "none" /\ op'.at = "rest"
<1>1. 0 \in 0 .. kMaxRetries - 1
  BY ManagerAssumption
<1>. QED  BY <1>1 DEF OpTyped, OpTypes, PointOf, Idle, Plain, Options, Points, Calls

LEMMA Retried ==
    ASSUME OpTyped, At("import"), op.try + 1 < kMaxRetries, op' = [op EXCEPT !.try = @ + 1]
    PROVE  OpTyped' /\ op'.call = op.call /\ op'.at = op.at
<1>1. op.try + 1 \in 0 .. kMaxRetries - 1
  BY ManagerAssumption DEF OpTyped, OpTypes
<1>2. op' \in OpTypes /\ op'.call = op.call /\ op'.at = op.at
  BY <1>1 DEF OpTyped, OpTypes
<1>3. op.call # "none"
  BY DEF OpTyped, At, Idle
<1>. QED  BY <1>2, <1>3 DEF OpTyped

\* What must hold where a call goes, for the rest of the invariant to hold.
LEMMA Rest ==
    ASSUME MInv, OpTyped', WslTypes', CallTypes',
           UNCHANGED <<config, lines>> \/ (config' = config /\ lines' = <<>>),
           op'.at # "write",
           op'.at \in StopPoints => keepalive' = "none",
           op'.at = "bootstrap" => registered' = "yes" \/ meddled'
    PROVE  MInv'
<1>1. Owned'
  BY DEF Owned
<1>2. <<>> \in Seq(Lines)
  OBVIOUS
<1>3. Written'
  BY <1>2 DEF MInv, Written
<1>. QED  BY <1>1, <1>3 DEF MInv

\* The invariant where a call begins or is answered at once.
LEMMA BeginKeeps ==
    ASSUME MInv, op = Idle,
           \/ \E cfg \in Options : CreateBegin(cfg)
           \/ StartBegin \/ StopBegin \/ DestroyBegin \/ RestoreBegin \/ SnapshotBegin
           \/ StateBegin \/ RunBegin \/ ListDistros
    PROVE  MInv'
<1> USE DEF MInv
<1>1. op.call = "none" /\ op.at = "rest" /\ Plain \in Options
  BY DEF Idle, Plain, Options
<1>2. OpTyped' /\ op'.at \in {"rest", "unregister_stuck", "config", "pkill", "stop_com", "restore",
                              "state_com", "run_com"}
  <2>1. CASE UNCHANGED op
    BY <2>1, <1>1 DEF OpTyped
  <2>2. ASSUME NEW call \in Calls, NEW cfg \in Options, NEW point, PointOf(call, point),
               Begin(call, cfg, point),
               point \in {"unregister_stuck", "config", "pkill", "stop_com", "restore",
                         "state_com", "run_com"}
        PROVE  OpTyped' /\ op'.at = point
    BY <2>2, Started
  <2>. QED  BY <2>1, <2>2, <1>1
            DEF CreateBegin, StartBegin, StopBegin, DestroyBegin, RestoreBegin, SnapshotBegin,
                StateBegin, RunBegin, ListDistros, Answer, Calls, PointOf
<1>3. UNCHANGED wslVars /\ UNCHANGED lines
  BY DEF CreateBegin, StartBegin, StopBegin, DestroyBegin, RestoreBegin,
         SnapshotBegin, StateBegin, RunBegin, ListDistros
<1>4. WslTypes' /\ CallTypes'
  BY <1>3 DEF WslTypes, CallTypes, Replies, CreateBegin, StartBegin, StopBegin, DestroyBegin, RestoreBegin,
         SnapshotBegin, StateBegin, RunBegin, ListDistros, Answer, Begin, ComService, wslVars
<1>5. op'.at = "stop_com" => keepalive' = "none"
  BY <1>1 DEF CreateBegin, StartBegin, StopBegin, DestroyBegin, RestoreBegin,
         SnapshotBegin, StateBegin, RunBegin, ListDistros, Begin, Answer
<1>. QED  BY <1>2, <1>3, <1>4, <1>5, Rest DEF StopPoints, wslVars

LEMMA NotStarted == ASSUME OpTyped, NEW p, At(p), p # "rest" PROVE op.call # "none" /\ op \in OpTypes
BY DEF OpTyped, Idle, At

LEMMA CreateKeeps ==
    ASSUME MInv, CreateSteps
    PROVE  MInv'
<1> USE DEF MInv
<1>1. ASSUME NEW p, At(p), NEW q, Goto(q), PointOf(op.call, q), p # "rest"
      PROVE  OpTyped' /\ op'.at = q /\ UNCHANGED <<reply, meddled>>
  BY <1>1, NotStarted, Moved
<1>2. ASSUME NEW answer, Return(answer)
      PROVE  OpTyped' /\ op'.at = "rest" /\ reply' = answer /\ UNCHANGED meddled
  BY <1>2, AtRest DEF Return
<1>3. ASSUME NEW p, At(p), p \in {"unregister_stuck", "delete_stuck", "config", "write", "import",
                               "import_com", "import_api", "bootstrap"}
      PROVE  op.call = "create"
  BY <1>3 DEF OpTyped, PointOf, At
<1>4. CASE UnregisterStuck
  <2>1. OpTyped' /\ op'.at = "delete_stuck" /\ UNCHANGED <<reply, meddled>>
    BY <1>4, <1>1, <1>3 DEF UnregisterStuck, PointOf
  <2>2. UNCHANGED <<config, lines, com, keepalive>>
    BY <1>4 DEF UnregisterStuck, Unregistered, wslVars
  <2>3. WslTypes'
    BY <1>4 DEF UnregisterStuck, Unregistered, Strays, wslVars, WslTypes, Disks, NoDisk, Commands
  <2>4. CallTypes'
    BY <2>1, <2>2 DEF CallTypes
  <2>. QED  BY <2>1, <2>2, <2>3, <2>4, Rest DEF StopPoints
<1>5. CASE DeleteStuck
  <2>1. OpTyped' /\ op'.at = "config" /\ UNCHANGED <<reply, meddled>>
    BY <1>5, <1>1, <1>3 DEF DeleteStuck, PointOf
  <2>. QED  BY <1>5, <2>1, Rest DEF DeleteStuck, WslTypes, CallTypes, StopPoints
<1>6. CASE ReadConfig
  <2>1. UNCHANGED <<registered, distro, disk, snapshot, orphans, stray, com, keepalive>>
    BY <1>6 DEF ReadConfig
  <2>2. OpTyped' /\ op'.at \in {"import", "write", "rest"} /\ reply' \in Replies /\ UNCHANGED meddled
    BY <1>6, <1>1, <1>2, <1>3 DEF ReadConfig, PointOf, CallTypes, Replies
  <2>3. WslTypes' /\ CallTypes' /\ Owned'
    BY <2>1, <2>2 DEF WslTypes, CallTypes, Owned, StopPoints
  <2>4. Written'
    <3>1. CASE UNCHANGED <<config, lines>> /\ op'.at # "write"
      BY <3>1 DEF Written
    <3>2. CASE lines' \in {config, <<>>} /\ config' = <<>>
      <4>0. <<>> \in Seq(Lines) /\ config \in Seq(Lines)
        BY DEF Written
      <4>1. lines' \in Seq(Lines) /\ config' = <<>> /\ <<>> \in Seq(Lines)
        BY <3>2, <4>0
      <4>2. WithKernel(lines') \in Seq(Lines)
        BY <4>1, WithKernelKeeps
      <4>3. Len(config') = 0 /\ DOMAIN config' = {} /\ Len(WithKernel(lines')) \in Nat
        BY <4>1, <4>2
      <4>. QED  BY <4>1, <4>3 DEF Written, WithKernel, KernelLines, InWsl2
    <3>3. (UNCHANGED <<config, lines>> /\ op'.at # "write") \/ (lines' \in {config, <<>>} /\ config' = <<>>)
      BY <1>6, <1>1, <1>2, <1>3 DEF ReadConfig, PointOf
    <3>. QED  BY <3>1, <3>2, <3>3
  <2>. QED  BY <2>2, <2>3, <2>4
<1>7. CASE WriteConfig
  <2>1. At("write") /\ UNCHANGED <<registered, distro, disk, snapshot, orphans, stray, com, keepalive>>
    BY <1>7 DEF WriteConfig
  <2>2. CASE Goto("import") /\ lines' = <<>> /\ UNCHANGED config
    <3>1. OpTyped' /\ op'.at = "import" /\ UNCHANGED <<reply, meddled>>
      BY <2>1, <2>2, <1>1, <1>3 DEF PointOf
    <3>. QED  BY <2>1, <2>2, <3>1, Rest DEF WslTypes, CallTypes, StopPoints
  <2>3. CASE /\ Len(config) + 1 <= Len(WithKernel(lines))
             /\ config' = Append(config, WithKernel(lines)[Len(config) + 1])
             /\ UNCHANGED <<lines, op, reply, meddled>>
    <3>1. WslTypes' /\ CallTypes' /\ OpTyped' /\ Owned'
      BY <2>1, <2>3 DEF WslTypes, CallTypes, OpTyped, OpTypes, Owned
    <3> DEFINE file == WithKernel(lines)
    <3>2. file \in Seq(Lines)
      BY WithKernelKeeps DEF Written
    <3>3. config \in Seq(Lines) /\ Len(config) <= Len(file) /\ \A i \in DOMAIN config : config[i] = file[i]
      BY <2>1 DEF Written, At
    <3>4. file' = file
      BY <2>3 DEF WithKernel, KernelLines, InWsl2
    <3>5. Len(config) + 1 <= Len(file) /\ config' = Append(config, file[Len(config) + 1])
      BY <2>3
    <3> HIDE DEF file
    <3>6. config' \in Seq(Lines) /\ Len(config') <= Len(file) /\ \A i \in DOMAIN config' : config'[i] = file[i]
      <4>1. file[Len(config) + 1] \in Lines
        BY <3>2, <3>3, <3>5
      <4>2. config' \in Seq(Lines) /\ Len(config') = Len(config) + 1
        BY <3>3, <3>5, <4>1
      <4>3. ASSUME NEW i \in DOMAIN config' PROVE config'[i] = file[i]
        BY <3>3, <3>5, <4>1, <4>2
      <4>. QED  BY <3>5, <4>2, <4>3
    <3>7. Written'
      BY <2>3, <3>4, <3>6 DEF Written, file
    <3>. QED  BY <3>1, <3>7
  <2>. QED  BY <1>7, <2>2, <2>3 DEF WriteConfig
<1>8. CASE ImportViaWslExe
  <2>1. OpTyped' /\ op'.at \in {"bootstrap", "import_com"} /\ UNCHANGED <<reply, meddled>>
    BY <1>8, <1>1, <1>3 DEF ImportViaWslExe, PointOf
  <2>2. op'.at = "bootstrap" => registered' = "yes"
    BY <1>8, <1>1, <1>3 DEF ImportViaWslExe, ImportSucceeds, Imported, PointOf
  <2>. QED  BY <1>8, <2>1, <2>2, Rest
            DEF ImportViaWslExe, ImportSucceeds, Imported, wslVars, WslTypes, CallTypes, Disks, StopPoints
<1>9. CASE ImportBusy
  <2>1. OpTyped' /\ op'.at \in {"import", "import_com"} /\ UNCHANGED <<reply, meddled>>
    BY <1>9, <1>1, <1>3, Retried DEF ImportBusy, PointOf, At
  <2>. QED  BY <1>9, <2>1, Rest DEF ImportBusy, wslVars, WslTypes, CallTypes, StopPoints
<1>10. CASE ImportViaCom
  <2>1. /\ At("import_com")
        /\ (Goto("bootstrap") /\ registered' = "yes") \/ Goto("import_api")
    BY <1>10 DEF ImportViaCom, ImportSucceeds, Imported
  <2>2. OpTyped' /\ op'.at \in {"bootstrap", "import_api"} /\ UNCHANGED <<reply, meddled>>
    BY <2>1, <1>1, <1>3 DEF PointOf
  <2>3. op'.at = "bootstrap" => registered' = "yes"
    BY <2>1, <1>1, <1>3 DEF PointOf
  <2>. QED  BY <1>10, <2>2, <2>3, Rest
            DEF ImportViaCom, ImportSucceeds, Imported, ComService, wslVars, WslTypes, CallTypes, Disks,
                StopPoints
<1>11. CASE ImportViaApi
  <2>1. OpTyped' /\ op'.at \in {"bootstrap", "rest"} /\ reply' \in Replies /\ UNCHANGED meddled
    BY <1>11, <1>1, <1>2, <1>3 DEF ImportViaApi, PointOf, CallTypes, Replies
  <2>2. op'.at = "bootstrap" => registered' = "yes"
    BY <1>11, <1>2 DEF ImportViaApi, ImportSucceeds, Imported
  <2>. QED  BY <1>11, <2>1, <2>2, Rest
            DEF ImportViaApi, ImportSucceeds, Imported, wslVars, WslTypes, CallTypes, Disks, StopPoints
<1>12. CASE Bootstrap
  <2>1. OpTyped' /\ op'.at = "rest" /\ reply' \in Replies /\ UNCHANGED meddled
    BY <1>12, <1>2 DEF Bootstrap, Replies
  <2>. QED  BY <1>12, <2>1, Rest
            DEF Bootstrap, Wakes, ComService, wslVars, WslTypes, CallTypes, StopPoints
<1>. QED  BY <1>4, <1>5, <1>6, <1>7, <1>8, <1>9, <1>10, <1>11, <1>12 DEF CreateSteps

LEMMA StartKeeps ==
    ASSUME MInv, StartSteps
    PROVE  MInv'
<1> USE DEF MInv
<1>1. op.call = "start" /\ op.call # "none"
  BY DEF OpTyped, PointOf, StartSteps, KillSleepers, LaunchKeepalive, ConfirmStarted, At
<1>2. OpTyped' /\ op'.at \in {"keepalive", "confirm", "rest"} /\ reply' \in Replies /\ UNCHANGED meddled
  <2>1. ASSUME NEW p \in {"keepalive", "confirm"}, Goto(p)
        PROVE  OpTyped' /\ op'.at = p /\ UNCHANGED <<reply, meddled>>
    BY <1>1, <2>1, Moved DEF PointOf
  <2>2. ASSUME NEW answer, Return(answer)
        PROVE  OpTyped' /\ op'.at = "rest" /\ reply' = answer /\ UNCHANGED meddled
    BY <2>2, AtRest DEF Return
  <2>. QED  BY <2>1, <2>2 DEF StartSteps, KillSleepers, LaunchKeepalive, ConfirmStarted, CallTypes, Replies
<1>3. WslTypes' /\ CallTypes' /\ UNCHANGED <<config, lines>>
  BY <1>2 DEF StartSteps, KillSleepers, LaunchKeepalive, ConfirmStarted, wslVars, WslTypes, CallTypes
<1>. QED  BY <1>2, <1>3, Rest DEF StopPoints

LEMMA StopKeeps ==
    ASSUME MInv, StopSteps
    PROVE  MInv'
<1> USE DEF MInv
<1>1. /\ op.call \in {"stop", "snapshot", "destroy", "restore"} /\ op.call # "none"
      /\ keepalive = "none"
  BY DEF OpTyped, PointOf, StopSteps, StopViaCom, StopViaWslExe, At, Owned, StopPoints
<1>2. ASSUME NEW answer \in Replies, AfterStop(answer)
      PROVE  OpTyped' /\ op'.at \in {"rest", "export", "destroy_com"} /\ reply' \in Replies
             /\ UNCHANGED meddled
  <2>1. CASE op.call = "stop"
    BY <1>2, <2>1, AtRest DEF AfterStop, Return
  <2>2. CASE op.call = "snapshot"
    BY <1>2, <2>2, Moved DEF AfterStop, PointOf, CallTypes
  <2>3. CASE op.call \in {"destroy", "restore"}
    BY <1>2, <2>3, Moved DEF AfterStop, PointOf, CallTypes
  <2>. QED  BY <1>1, <2>1, <2>2, <2>3
<1>3. Goto("stop_wsl") => OpTyped' /\ op'.at = "stop_wsl" /\ UNCHANGED <<reply, meddled>>
  BY <1>1, Moved DEF PointOf
<1>4. OpTyped' /\ op'.at \in {"rest", "export", "destroy_com", "stop_wsl"} /\ reply' \in Replies
      /\ UNCHANGED meddled
  BY <1>2, <1>3 DEF StopSteps, StopViaCom, StopViaWslExe, CallTypes, Replies
<1>5. /\ WslTypes' /\ UNCHANGED <<config, lines, keepalive>>
      /\ com' \in {"untried", "yes", "no"}
  BY DEF StopSteps, StopViaCom, StopViaWslExe, Terminated, ComService, wslVars, WslTypes, CallTypes
<1>6. CallTypes'
  BY <1>4, <1>5 DEF CallTypes
<1>. QED  BY <1>1, <1>4, <1>5, <1>6, Rest

LEMMA DestroyKeeps ==
    ASSUME MInv, DestroySteps
    PROVE  MInv'
<1> USE DEF MInv
<1>1. op.call \in {"destroy", "restore"} /\ op.call # "none"
      /\ (~RestoreImport => keepalive = "none")
  BY DEF OpTyped, PointOf, DestroySteps, DestroyViaCom, DestroyViaWslExe, RestoreImport, At, Owned, StopPoints
<1>2. ASSUME NEW answer \in Replies, AfterDestroy(answer)
      PROVE  OpTyped' /\ op'.at \in {"rest", "restore"} /\ reply' \in Replies /\ UNCHANGED meddled
  <2>1. CASE op.call = "restore" /\ answer = "ok"
    BY <1>2, <2>1, Moved DEF AfterDestroy, PointOf, CallTypes
  <2>2. CASE ~(op.call = "restore" /\ answer = "ok")
    BY <1>2, <2>2, AtRest DEF AfterDestroy, Return
  <2>. QED  BY <2>1, <2>2
<1>3. Goto("destroy_wsl") => OpTyped' /\ op'.at = "destroy_wsl" /\ UNCHANGED <<reply, meddled>>
  BY <1>1, Moved DEF PointOf
<1>4. ASSUME NEW answer, Return(answer)
      PROVE  OpTyped' /\ op'.at = "rest" /\ reply' = answer /\ UNCHANGED meddled
  BY <1>4, AtRest DEF Return
<1>5. /\ OpTyped' /\ reply' \in Replies /\ UNCHANGED meddled
      /\ op'.at \in {"rest", "restore"} \/ (op'.at = "destroy_wsl" /\ ~RestoreImport)
  <2>1. CASE DestroyViaCom
    BY <2>1, <1>2, <1>3 DEF DestroyViaCom, RestoreImport, At, CallTypes, Replies
  <2>2. CASE DestroyViaWslExe
    BY <2>2, <1>2 DEF DestroyViaWslExe, Replies
  <2>3. CASE RestoreImport
    BY <2>3, <1>4 DEF RestoreImport, Replies
  <2>. QED  BY <2>1, <2>2, <2>3 DEF DestroySteps
<1>6. /\ WslTypes' /\ UNCHANGED <<config, lines, keepalive>>
      /\ com' \in {"untried", "yes", "no"}
  BY DEF DestroySteps, DestroyViaCom, DestroyViaWslExe, RestoreImport, Unregistered, Restored,
         Imported, ComService, wslVars, WslTypes, CallTypes, Disks, NoDisk
<1>7. CallTypes'
  BY <1>5, <1>6 DEF CallTypes
<1>. QED  BY <1>1, <1>5, <1>6, <1>7, Rest DEF StopPoints

LEMMA SnapshotKeeps ==
    ASSUME MInv, SnapshotSteps
    PROVE  MInv'
<1> USE DEF MInv
<1>1. op.call = "snapshot" /\ op.call # "none"
  BY DEF OpTyped, PointOf, SnapshotSteps, Export, ExportTar, At
<1>2. OpTyped' /\ op'.at \in {"rest", "export_tar"} /\ reply' \in Replies /\ UNCHANGED meddled
  <2>1. Goto("export_tar") => OpTyped' /\ op'.at = "export_tar" /\ UNCHANGED <<reply, meddled>>
    BY <1>1, Moved DEF PointOf
  <2>2. ASSUME NEW answer, Return(answer)
        PROVE  OpTyped' /\ op'.at = "rest" /\ reply' = answer /\ UNCHANGED meddled
    BY <2>2, AtRest DEF Return
  <2>. QED  BY <2>1, <2>2 DEF SnapshotSteps, Export, ExportTar, CallTypes, Replies
<1>3. WslTypes' /\ CallTypes' /\ UNCHANGED <<config, lines>>
  BY <1>2 DEF SnapshotSteps, Export, ExportTar, Exported, wslVars, WslTypes, CallTypes
<1>. QED  BY <1>2, <1>3, Rest DEF StopPoints

LEMMA QueryKeeps ==
    ASSUME MInv, QuerySteps
    PROVE  MInv'
<1> USE DEF MInv
<1>1. op.call \in {"state", "run"} /\ op.call # "none"
  BY DEF OpTyped, PointOf, QuerySteps, StateViaCom, StateViaList, RunViaCom, RunViaApi, At
<1>2. OpTyped' /\ op'.at \in {"rest", "state_list", "run_api"} /\ reply' \in Replies /\ UNCHANGED meddled
  <2>1. At("state_com") /\ Goto("state_list")
          => OpTyped' /\ op'.at = "state_list" /\ UNCHANGED <<reply, meddled>>
    BY <1>1, Moved DEF PointOf, OpTyped, At
  <2>2. At("run_com") /\ Goto("run_api")
          => OpTyped' /\ op'.at = "run_api" /\ UNCHANGED <<reply, meddled>>
    BY <1>1, Moved DEF PointOf, OpTyped, At
  <2>3. ASSUME NEW answer, Return(answer)
        PROVE  OpTyped' /\ op'.at = "rest" /\ reply' = answer /\ UNCHANGED meddled
    BY <2>3, AtRest DEF Return
  <2>. QED  BY <2>1, <2>2, <2>3
            DEF QuerySteps, StateViaCom, StateViaList, RunViaCom, RunViaApi, CallTypes, Replies
<1>3. WslTypes' /\ CallTypes' /\ UNCHANGED <<config, lines>>
  BY <1>2 DEF QuerySteps, StateViaCom, StateViaList, RunViaCom, RunViaApi, Wakes, ComService, wslVars,
         WslTypes, CallTypes
<1>. QED  BY <1>2, <1>3, Rest DEF StopPoints

\* What happens to WSL on its own leaves the call and the file alone.
LEMMA EnvironmentLeaves ==
    ASSUME MInv, Environment
    PROVE  /\ UNCHANGED <<op, reply, config, lines, com>>
           /\ keepalive' = keepalive \/ (keepalive = "alive" /\ keepalive' = "exited")
           /\ registered = "yes" => registered' = "yes" \/ meddled'
           /\ meddled => meddled'
           /\ WslTypes' /\ meddled' \in BOOLEAN
<1> USE DEF MInv, WslTypes, CallTypes
<1>1. CASE DistroDies \/ OtherWakes \/ GuestWrites \/ InstallEnds \/ KeepaliveEnds
  BY <1>1 DEF DistroDies, Terminated, OtherWakes, Wakes, GuestWrites, InstallEnds, KeepaliveEnds,
         managerVars, Disks
<1>2. CASE StrayEnds
  <2>1. PICK command \in stray :
          /\ stray' = stray \ {command}
          /\ \/ UNCHANGED <<registered, distro, disk, snapshot, config, orphans, meddled>>
             \/ /\ Unregistered \/ Imported("fresh") \/ Restored \/ Terminated \/ Exported
                /\ meddled' = TRUE
    BY <1>2, Zenon DEF StrayEnds
  <2>2. UNCHANGED <<com, keepalive, lines, op, reply>>
    BY <1>2 DEF StrayEnds
  <2>3. registered' \in {"no", "stuck", "yes"} /\ distro' \in {"stopped", "running"} /\ disk' \in Disks
        /\ snapshot' \in Disks /\ orphans' \in BOOLEAN /\ UNCHANGED config
    BY <2>1 DEF Unregistered, Imported, Restored, Terminated, Exported, Disks, NoDisk
  <2>4. stray' \subseteq Commands
    BY <2>1
  <2>. QED  BY <2>1, <2>2, <2>3, <2>4
<1>. QED  BY <1>1, <1>2 DEF Environment

LEMMA EnvironmentKeeps ==
    ASSUME MInv, Environment \/ ManagerDies \/ ManagerExits
    PROVE  MInv'
<1> USE DEF MInv
<1>1. CASE Environment
  <2>1. OpTyped' /\ WslTypes' /\ CallTypes' /\ Owned' /\ Written'
    BY <1>1, EnvironmentLeaves DEF OpTyped, OpTypes, CallTypes, Owned, Written
  <2>. QED  BY <2>1
<1>2. CASE ManagerDies
  <2>1. OpTyped' /\ op'.at = "rest"
    BY <1>2, AtRest DEF ManagerDies
  <2>2. stray' \subseteq Commands
    BY <1>2 DEF ManagerDies, Strays, UnderWay, WslTypes, Commands
  <2>. QED  BY <1>2, <2>1, <2>2, Rest DEF ManagerDies, WslTypes, CallTypes, Replies, StopPoints
<1>3. CASE ManagerExits
  <2>1. OpTyped' /\ op'.at = "rest"
    BY <1>3, AtRest DEF ManagerExits
  <2>. QED  BY <1>3, <2>1, Rest DEF ManagerExits, wslVars, WslTypes, CallTypes, Replies, StopPoints
<1>. QED  BY <1>1, <1>2, <1>3

LEMMA ManagerKeeps ==
    ASSUME MInv, ManagerActs
    PROVE  MInv'
BY BeginKeeps, CreateKeeps, StartKeeps, StopKeeps, DestroyKeeps, SnapshotKeeps, QueryKeeps,
   EnvironmentKeeps DEF ManagerActs, ManagerSteps

-----------------------------------------------------------------------------
(* The theorems about the manager.                                         *)

LEMMA ManagerNextActs == MInv /\ ManagerNext => ManagerActs
BY DEF ManagerNext, Client, ManagerActs

LEMMA ManagerInvNext == MInv /\ [ManagerNext]_vmVars => MInv'
BY ManagerNextActs, ManagerKeeps, MInvStutters

LEMMA ManagerInvariant == ManagerSpec => []MInv
<1>. QED  BY ManagerInvInit, ManagerInvNext, PTL DEF ManagerSpec

\* The manager's variables keep their types, for any number of attempts.
THEOREM ManagerTypeCorrect == ManagerSpec => []ManagerTypeOK
<1>. QED  BY ManagerInvariant, ManagerInvImplies, PTL

\* However often a distribution is created, and whatever the user's file holds,
\* no line is written that differs from the one read but a kernel line of [wsl2].
THEOREM LinesAreKept == ManagerSpec => []OtherLinesKept
<1>. QED  BY ManagerInvariant, ManagerInvImplies, PTL

\* A step to another point is not the end of its call.
LEMMA NotDone == ASSUME OpTyped, NEW p, Goto(p), p # "rest" PROVE op' # Idle
BY DEF OpTyped, OpTypes, Goto, Idle

\* What an Ok says, by the group of steps that gives it.
LEMMA OkSteps ==
    ASSUME MInv, ManagerSteps, op' = Idle, reply' = "ok"
    PROVE  /\ op.call = "create" /\ ~meddled => registered' = "yes"
           /\ op.call = "stop"     => distro' = "stopped" /\ keepalive' = "none"
           /\ op.call = "destroy"  => registered' = "no" /\ keepalive' = "none"
           /\ op.call = "snapshot" => registered' = "yes" /\ snapshot' = disk'
           /\ op.call = "restore"  => registered' = "yes" /\ disk' = snapshot
<1> USE DEF MInv
<1>1. ASSUME NEW p, Goto(p), p # "rest" PROVE FALSE
  BY <1>1, NotDone
<1>2. CASE CreateSteps
  <2>1. op.call = "create"
    BY <1>2 DEF CreateSteps, UnregisterStuck, DeleteStuck, ReadConfig, WriteConfig, ImportViaWslExe,
         ImportBusy, ImportViaCom, ImportViaApi, Bootstrap, OpTyped, PointOf, At
  <2>2. op # Idle
    BY <2>1 DEF Idle
  <2>3. ~ImportBusy
    <3>1. op \in OpTypes /\ op.call # "none"
      BY <2>1 DEF OpTyped
    <3>2. op' # [op EXCEPT !.try = @ + 1]
      BY <3>1, <2>1 DEF OpTypes, Idle
    <3>. QED  BY <3>2, <1>1 DEF ImportBusy
  <2>4. ~WriteConfig
    BY <1>1, <2>2 DEF WriteConfig
  <2>5. Bootstrap
    BY <1>1, <1>2, <2>3, <2>4 DEF CreateSteps, UnregisterStuck, DeleteStuck, ReadConfig, ImportViaWslExe,
         ImportViaCom, ImportViaApi, Return
  <2>6. ~meddled => registered' = "yes"
    BY <2>5 DEF Bootstrap, Owned, At, Wakes, wslVars
  <2>. QED  BY <2>1, <2>6
<1>3. CASE StartSteps
  <2>1. op.call = "start"
    BY <1>3 DEF StartSteps, KillSleepers, LaunchKeepalive, ConfirmStarted, OpTyped, PointOf, At
  <2>. QED  BY <2>1
<1>4. CASE StopSteps
  <2>1. op.call \in {"stop", "snapshot", "destroy", "restore"} /\ keepalive = "none"
    BY <1>4 DEF OpTyped, PointOf, StopSteps, StopViaCom, StopViaWslExe, At, Owned, StopPoints
  <2>2. op.call = "stop"
    BY <1>1, <1>4, <2>1 DEF StopSteps, StopViaCom, StopViaWslExe, AfterStop
  <2>. QED  BY <1>1, <1>4, <2>1, <2>2
            DEF StopSteps, StopViaCom, StopViaWslExe, AfterStop, Return, Terminated
<1>5. CASE DestroyViaCom \/ DestroyViaWslExe
  <2>1. op.call \in {"destroy", "restore"} /\ keepalive = "none"
    BY <1>5 DEF OpTyped, PointOf, DestroyViaCom, DestroyViaWslExe, At, Owned, StopPoints
  <2>2. op.call = "destroy" /\ registered' = "no" /\ keepalive' = "none"
    BY <1>1, <1>5, <2>1 DEF DestroyViaCom, DestroyViaWslExe, AfterDestroy, Return, Unregistered
  <2>. QED  BY <2>2
<1>6. CASE RestoreImport
  <2>1. op.call = "restore"
    BY <1>6 DEF OpTyped, PointOf, RestoreImport, At
  <2>. QED  BY <1>6, <2>1 DEF RestoreImport, Restored, Imported, Return
<1>7. CASE SnapshotSteps
  <2>1. op.call = "snapshot"
    BY <1>7 DEF OpTyped, PointOf, SnapshotSteps, Export, ExportTar, At
  <2>. QED  BY <1>1, <1>7, <2>1 DEF SnapshotSteps, Export, ExportTar, Exported, Return
<1>8. CASE QuerySteps
  BY <1>8, <1>1
     DEF QuerySteps, StateViaCom, StateViaList, RunViaCom, RunViaApi, Return
<1>. QED  BY <1>2, <1>3, <1>4, <1>5, <1>6, <1>7, <1>8 DEF ManagerSteps, DestroySteps

LEMMA OkStep == MInv /\ [ManagerNext]_vmVars =>
    [ /\ Succeeds("create") /\ ~meddled => registered' = "yes"
      /\ Succeeds("stop")     => distro' = "stopped" /\ keepalive' = "none"
      /\ Succeeds("destroy")  => registered' = "no" /\ keepalive' = "none"
      /\ Succeeds("snapshot") => registered' = "yes" /\ snapshot' = disk'
      /\ Succeeds("restore")  => registered' = "yes" /\ disk' = snapshot ]_vmVars
<1> SUFFICES ASSUME MInv, ManagerNext, op.call # "none", op' = Idle, reply' = "ok"
             PROVE  ManagerSteps
  BY OkSteps DEF Succeeds
<1>1. op # Idle
  BY DEF Idle
<1>2. ~Environment
  BY <1>1, EnvironmentLeaves
<1>. QED  BY <1>1, <1>2 DEF ManagerNext, Client, ManagerDies

\* Whichever fallback made a call succeed, an Ok is true, for any number of
\* attempts and whatever happens between the commands.
THEOREM OkIsTrue == ManagerSpec => OkMeansDone
<1>. QED  BY ManagerInvariant, OkStep, PTL DEF ManagerSpec, OkMeansDone

LEMMA DiskStep == MInv /\ [ManagerNext]_vmVars =>
    [ disk # NoDisk /\ disk' = NoDisk =>
        op.call \in {"destroy", "restore"} \/ Unregistering ]_vmVars
<1> SUFFICES ASSUME MInv, ManagerNext, disk # NoDisk, disk' = NoDisk
             PROVE  op.call \in {"destroy", "restore"} \/ Unregistering
  OBVIOUS
<1> USE DEF MInv
<1>1. ASSUME Imported("fresh") \/ Restored PROVE FALSE
  BY <1>1 DEF Imported, Restored, NoDisk
<1>2. CASE Client
  BY <1>2 DEF Client, CreateBegin, StartBegin, StopBegin, DestroyBegin, RestoreBegin,
         SnapshotBegin, StateBegin, RunBegin, ListDistros, ManagerExits, wslVars
<1>3. CASE CreateSteps
  BY <1>1, <1>3 DEF CreateSteps, UnregisterStuck, DeleteStuck, ReadConfig, WriteConfig, ImportViaWslExe,
         ImportBusy, ImportViaCom, ImportViaApi, ImportSucceeds, Bootstrap, Wakes, wslVars, Unregistering
<1>4. CASE StartSteps \/ StopSteps \/ SnapshotSteps \/ QuerySteps
  BY <1>4 DEF StartSteps, KillSleepers, LaunchKeepalive, ConfirmStarted, StopSteps, StopViaCom,
         StopViaWslExe, Terminated, SnapshotSteps, Export, ExportTar, Exported, QuerySteps,
         StateViaCom, StateViaList, RunViaCom, RunViaApi, Wakes, wslVars
<1>5. CASE DestroySteps
  BY <1>5 DEF OpTyped, PointOf, DestroySteps, DestroyViaCom, DestroyViaWslExe, RestoreImport, At
<1>6. CASE StrayEnds
  <2>1. PICK command \in stray :
             CASE command = "unregister" -> Unregistered
               [] command = "import"     -> Imported("fresh")
               [] command = "restore"    -> Restored
               [] command = "terminate"  -> Terminated
               [] OTHER                  -> Exported
    BY <1>6 DEF StrayEnds
  <2>2. command = "unregister"
    BY <1>1, <2>1 DEF Terminated, Exported
  <2>. QED  BY <2>1, <2>2 DEF Unregistering
<1>7. CASE (Environment /\ ~StrayEnds) \/ ManagerDies
  BY <1>7 DEF Environment, DistroDies, Terminated, OtherWakes, Wakes, KeepaliveEnds, GuestWrites,
         InstallEnds, ManagerDies, NoDisk
<1>. QED  BY <1>2, <1>3, <1>4, <1>5, <1>6, <1>7 DEF ManagerNext, ManagerSteps

\* A disk goes only with a destroy, a restore, or a wsl --unregister that runs.
THEOREM DisksSurvive == ManagerSpec => DiskSurvives
<1>. QED  BY ManagerInvariant, DiskStep, PTL DEF ManagerSpec, DiskSurvives

-----------------------------------------------------------------------------
(* The two supervisors.                                                    *)

\* Where vmm.exe is not in a call of the manager.
Outside == {"dead", "init", "ready", "idle"}

AppTypes ==
    /\ vmm \in {"dead", "init", "init_state", "init_start", "init_claw", "ready", "idle",
                "check", "restart", "claw", "stopping"}
    /\ shutdown \in BOOLEAN
    /\ known \in {"not_registered", "stopped", "running"}
    /\ restart_attempts \in 0 .. MAX_RESTART_ATTEMPTS

LauncherTypes ==
    /\ main \in {"idle", "failed", "up", "signal", "join", "break", "wait", "close", "down"}
    /\ should_monitor \in BOOLEAN
    /\ stop_event \in {"none", "clear", "set"}
    /\ process_handle \in {"none", "held"}
    /\ jobbed \in BOOLEAN
    /\ monitor \in {"none", "top", "wait", "exited", "count", "delay", "launch", "done"}
    /\ rapid_restart_count \in 0 .. max_rapid_restarts
    /\ fast \in 0 .. max_rapid_restarts

\* vmm.exe asks for the state and gets one, and is in one call at a time.
AppKnows ==
    /\ vmm \in Outside => op = Idle
    /\ vmm \in {"init_state", "check"} =>
          \/ op = Idle /\ reply \in {"not_registered", "stopped", "running"}
          \/ op.call = "state"
    /\ vmm = "dead" => keepalive = "none"

\* Who holds the process, and where the main thread and the monitor can be.
Held ==
    /\ VmmHasHandle
    /\ monitor = "exited" => vmm = "dead"
    /\ monitor \in {"count", "delay", "launch"} => process_handle = "none"
    /\ monitor = "none" <=> main \in {"idle", "failed"}
    /\ main \in {"idle", "failed"} => vmm = "dead" /\ process_handle = "none"
    /\ main \in {"break", "wait", "close", "down"} => monitor = "done"
    /\ main \in {"close", "down"} => vmm = "dead" /\ process_handle = "none"
    /\ main = "down" /\ jobbed => ~orphans

\* The two counts agree, and the limit is met before the next launch.
Limited ==
    /\ rapid_restart_count = fast
    /\ monitor # "done" => fast < max_rapid_restarts

SInv == MInv /\ AppTypes /\ LauncherTypes /\ AppKnows /\ Held /\ Limited

LEMMA SInvInit == Init => SInv
<1> SUFFICES ASSUME Init PROVE SInv
  OBVIOUS
<1>1. MInv
  BY ManagerInvInit DEF Init
<1>2. AppTypes /\ LauncherTypes
  <2>1. 0 \in 0 .. MAX_RESTART_ATTEMPTS /\ 0 \in 0 .. max_rapid_restarts
    BY SupervisorAssumption
  <2>. QED  BY <2>1 DEF Init, AppTypes, LauncherTypes
<1>3. AppKnows /\ Held /\ Limited
  BY SupervisorAssumption DEF Init, ManagerInit, AppKnows, Held, Limited, VmmHasHandle, Outside
<1>. QED  BY <1>1, <1>2, <1>3 DEF SInv

LEMMA SInvImplies == SInv => TypeOK /\ VmmHasHandle /\ StopLeavesNothing
<1> SUFFICES ASSUME SInv PROVE TypeOK /\ VmmHasHandle /\ StopLeavesNothing
  OBVIOUS
<1>1. TypeOK
  BY ManagerInvImplies DEF SInv, AppTypes, LauncherTypes, TypeOK
<1>2. VmmHasHandle /\ StopLeavesNothing
  BY DEF SInv, Held, AppKnows, StopLeavesNothing
<1>. QED  BY <1>1, <1>2

\* A step of the monitor does not touch what vmm.exe has.
LEMMA MonitorKeeps ==
    ASSUME SInv, MonitorSteps
    PROVE  SInv'
<1> USE DEF SInv, MonitorUnchanged, MonitorGoes
<1>1. UNCHANGED <<vmVars, main, should_monitor, stop_event, shutdown, known, restart_attempts>>
  BY DEF MonitorSteps, MonitorTop, MonitorWakes, MonitorReaps, MonitorCounts, MonitorDelays, MonitorLaunches
<1>2. MInv'
  BY <1>1, MInvStutters
<1>3. AppTypes' /\ AppKnows' /\ Held' /\ (vmm' = vmm \/ MonitorLaunches)
  <2>1. CASE MonitorTop \/ MonitorWakes \/ MonitorReaps \/ MonitorCounts \/ MonitorDelays
    BY <1>1, <2>1 DEF MonitorTop, MonitorWakes, MonitorReaps, MonitorCounts, MonitorDelays,
       AppTypes, AppKnows, Held, VmmHasHandle, LauncherTypes, vmVars, wslVars, managerVars
  <2>2. CASE MonitorLaunches
    BY <1>1, <2>2 DEF MonitorLaunches, Launched, AppTypes, AppKnows, Held, VmmHasHandle, Outside,
       LauncherTypes, vmVars, wslVars, managerVars
  <2>. QED  BY <2>1, <2>2 DEF MonitorSteps
<1>4. LauncherTypes' /\ Limited'
  <2>1. CASE MonitorCounts
    BY <1>1, <2>1, SupervisorAssumption DEF MonitorCounts, LauncherTypes, Limited
  <2>2. CASE MonitorTop \/ MonitorWakes \/ MonitorReaps \/ MonitorDelays \/ MonitorLaunches
    BY <1>1, <2>2 DEF MonitorTop, MonitorWakes, MonitorReaps, MonitorDelays, MonitorLaunches,
       Launched, LauncherTypes, Limited
  <2>. QED  BY <2>1, <2>2 DEF MonitorSteps
<1>. QED  BY <1>2, <1>3, <1>4

\* The manager works only in a call, and a question for the state is answered.
LEMMA WorkIsInCall ==
    ASSUME MInv, ManagerSteps
    PROVE  /\ op # Idle
           /\ op.call = "state" =>
                op'.call = "state" \/ (op' = Idle /\ reply' \in {"running", "stopped"})
<1> USE DEF MInv
<1>1. op # Idle
  <2>1. op.at # "rest"
    BY DEF ManagerSteps, CreateSteps, UnregisterStuck, DeleteStuck, ReadConfig, WriteConfig,
         ImportViaWslExe, ImportBusy, ImportViaCom, ImportViaApi, Bootstrap, StartSteps, KillSleepers, LaunchKeepalive,
         ConfirmStarted, StopSteps, StopViaCom, StopViaWslExe, DestroySteps, DestroyViaCom,
         DestroyViaWslExe, RestoreImport, SnapshotSteps, Export, ExportTar, QuerySteps, StateViaCom,
         StateViaList, RunViaCom, RunViaApi, At
  <2>. QED  BY <2>1 DEF Idle
<1>2. ASSUME op.call = "state"
      PROVE  op'.call = "state" \/ (op' = Idle /\ reply' \in {"running", "stopped"})
  <2>1. op.at \in {"state_com", "state_list"}
    BY <1>2 DEF OpTyped, PointOf
  <2>2. StateViaCom \/ StateViaList
    BY <2>1
       DEF ManagerSteps, CreateSteps, UnregisterStuck, DeleteStuck, ReadConfig, WriteConfig,
         ImportViaWslExe, ImportBusy, ImportViaCom, ImportViaApi, Bootstrap, StartSteps, KillSleepers, LaunchKeepalive,
         ConfirmStarted, StopSteps, StopViaCom, StopViaWslExe, DestroySteps, DestroyViaCom,
         DestroyViaWslExe, RestoreImport, SnapshotSteps, Export, ExportTar, QuerySteps, RunViaCom,
         RunViaApi, At
  <2>3. Goto("state_list") => op'.call = "state"
    BY <1>2 DEF Goto, OpTyped, OpTypes
  <2>. QED  BY <2>2, <2>3 DEF StateViaCom, StateViaList, Return
<1>. QED  BY <1>1, <1>2

\* The calls vmm.exe begins.
LEMMA CallBegins ==
    ASSUME MInv, op = Idle
    PROVE  /\ StateBegin => MInv' /\ ((op' = Idle /\ reply' \in {"not_registered", "stopped", "running"})
                                   \/ op'.call = "state")
           /\ StartBegin \/ StopBegin \/ RunBegin => MInv'
<1>1. StateBegin => (op' = Idle /\ reply' \in {"not_registered", "stopped", "running"})
                    \/ op'.call = "state"
  BY DEF StateBegin, Answer, Begin
<1>. QED  BY <1>1, BeginKeeps

\* A step of vmm.exe while it lives leaves the launcher as it is.
LEMMA AppStep ==
    ASSUME SInv, vmm # "dead", UNCHANGED launcherVars, MInv', AppTypes', AppKnows'
    PROVE  SInv'
<1> USE DEF SInv, launcherVars
<1>1. main \notin {"idle", "failed", "close", "down"} /\ process_handle = "held"
      /\ monitor \notin {"exited", "count", "delay", "launch"}
  BY DEF Held, VmmHasHandle, LauncherTypes
<1>2. Held'
  BY <1>1 DEF Held, VmmHasHandle
<1>3. LauncherTypes' /\ Limited'
  BY DEF LauncherTypes, Limited
<1>. QED  BY <1>2, <1>3

\* vmm.exe ends, or is ended.
LEMMA AppGoneKeeps ==
    ASSUME SInv, NEW exits \in BOOLEAN, AppGone(exits)
    PROVE  MInv' /\ AppTypes' /\ AppKnows' /\ vmm' = "dead"
<1> USE DEF SInv
<1>1. ManagerExits \/ ManagerDies
  BY DEF AppGone
<1>2. MInv'
  BY <1>1, EnvironmentKeeps
<1>3. vmm' = "dead" /\ op' = Idle /\ keepalive' = "none"
  BY <1>1 DEF AppGone, ManagerExits, ManagerDies
<1>4. 0 \in 0 .. MAX_RESTART_ATTEMPTS
  BY SupervisorAssumption
<1>5. AppTypes'
  BY <1>3, <1>4 DEF AppGone, AppReset, AppTypes
<1>6. AppKnows'
  BY <1>3 DEF AppKnows
<1>. QED  BY <1>2, <1>3, <1>5, <1>6

LEMMA AppKeeps ==
    ASSUME SInv, AppSteps \/ AppDies
    PROVE  SInv'
<1> USE DEF SInv, AppUnchanged, Called, NoCall, Answered
<1>1. CASE InitAsks
  <2>1. op = Idle
    BY <1>1 DEF InitAsks, AppKnows, Outside
  <2>2. MInv' /\ AppTypes' /\ AppKnows'
    BY <1>1, <2>1, CallBegins DEF InitAsks, AppTypes, AppKnows, Outside
  <2>. QED  BY <1>1, <2>2, AppStep DEF InitAsks
<1>2. CASE InitKnows
  <2>1. op = Idle /\ reply \in {"not_registered", "stopped", "running"}
    BY <1>2 DEF InitKnows, AppKnows, Idle
  <2>2. MInv'
    BY <1>2, <2>1, CallBegins, MInvStutters DEF InitKnows
  <2>3. AppTypes' /\ AppKnows'
    BY <1>2, <2>1 DEF InitKnows, AppTypes, AppKnows, Outside, vmVars, managerVars
  <2>. QED  BY <1>2, <2>2, <2>3, AppStep DEF InitKnows
<1>3. CASE InitStarted
  <2>1. MInv'
    BY <1>3, CallBegins, MInvStutters DEF InitStarted
  <2>2. AppTypes' /\ AppKnows'
    BY <1>3 DEF InitStarted, AppTypes, AppKnows, Outside, vmVars, managerVars
  <2>. QED  BY <1>3, <2>1, <2>2, AppStep DEF InitStarted
<1>4. CASE InitDone \/ RunStarts \/ ClawDone
  <2>1. MInv' /\ vmm # "dead" /\ op = Idle
    BY <1>4, MInvStutters DEF InitDone, RunStarts, ClawDone, AppKnows, Outside
  <2>2. AppTypes' /\ AppKnows'
    BY <1>4, <2>1 DEF InitDone, RunStarts, ClawDone, AppTypes, AppKnows, Outside, vmVars, managerVars
  <2>. QED  BY <1>4, <2>1, <2>2, AppStep DEF InitDone, RunStarts, ClawDone
<1>5. CASE CheckAsks
  <2>1. op = Idle
    BY <1>5 DEF CheckAsks, AppKnows, Outside
  <2>2. MInv' /\ AppTypes' /\ AppKnows'
    BY <1>5, <2>1, CallBegins DEF CheckAsks, AppTypes, AppKnows, Outside
  <2>. QED  BY <1>5, <2>2, AppStep DEF CheckAsks
<1>6. CASE CheckSame
  <2>1. MInv'
    BY <1>6, MInvStutters DEF CheckSame
  <2>2. AppTypes' /\ AppKnows'
    BY <1>6, SupervisorAssumption
       DEF CheckSame, AppTypes, AppKnows, Outside, vmVars, managerVars
  <2>. QED  BY <1>6, <2>1, <2>2, AppStep DEF CheckSame
<1>7. CASE CheckChanged
  <2>1. op = Idle /\ reply \in {"not_registered", "stopped", "running"}
    BY <1>7 DEF CheckChanged, AppKnows, Idle
  <2>2. MInv'
    BY <1>7, <2>1, CallBegins, MInvStutters DEF CheckChanged
  <2>3. AppTypes' /\ AppKnows'
    BY <1>7, <2>1, SupervisorAssumption
       DEF CheckChanged, AppTypes, AppKnows, Outside, vmVars, managerVars
  <2>. QED  BY <1>7, <2>2, <2>3, AppStep DEF CheckChanged
<1>8. CASE Restarted
  <2>1. MInv'
    BY <1>8, CallBegins, MInvStutters DEF Restarted
  <2>2. AppTypes' /\ AppKnows'
    BY <1>8 DEF Restarted, AppTypes, AppKnows, Outside, vmVars, managerVars
  <2>. QED  BY <1>8, <2>1, <2>2, AppStep DEF Restarted
<1>9. CASE ManagerWorks
  <2>1. MInv'
    BY <1>9, ManagerKeeps DEF ManagerWorks, ManagerActs
  <2>2. AppTypes' /\ AppKnows'
    BY <1>9, WorkIsInCall DEF ManagerWorks, AppTypes, AppKnows, appVars
  <2>. QED  BY <1>9, <2>1, <2>2, AppStep DEF ManagerWorks
<1>10. CASE ShutdownSeen /\ known = "running"
  <2>1. op = Idle
    BY <1>10 DEF ShutdownSeen, AppKnows, Outside
  <2>2. MInv' /\ AppTypes' /\ AppKnows'
    BY <1>10, <2>1, CallBegins DEF ShutdownSeen, AppTypes, AppKnows, Outside
  <2>. QED  BY <1>10, <2>2, AppStep DEF ShutdownSeen
<1>11. CASE (ShutdownSeen /\ known # "running") \/ AppExits \/ AppDies
  <2>1. vmm # "dead" /\ (AppGone(TRUE) \/ AppGone(FALSE)) /\ UNCHANGED launcherVars
    BY <1>11 DEF ShutdownSeen, AppExits, AppDies
  <2>2. MInv' /\ AppTypes' /\ AppKnows'
    BY <2>1, AppGoneKeeps, Zenon
  <2>. QED  BY <2>1, <2>2, AppStep
<1>. QED  BY <1>1, <1>2, <1>3, <1>4, <1>5, <1>6, <1>7, <1>8, <1>9, <1>10, <1>11 DEF AppSteps

\* The main thread, at rest, in start() and in stop().
LEMMA MainKeeps ==
    ASSUME SInv, LauncherStarts \/ LauncherFails \/ LauncherStops \/ StopperSteps
    PROVE  SInv'
<1> USE DEF SInv, MainGoes
<1>1. CASE LauncherStarts
  <2>1. MInv'
    BY <1>1, MInvStutters DEF LauncherStarts
  <2>2. vmm = "dead" /\ op = Idle /\ monitor = "none"
    BY <1>1 DEF LauncherStarts, Held, AppKnows, Outside
  <2>3. AppTypes' /\ LauncherTypes' /\ Limited'
    BY <1>1, <2>2 DEF LauncherStarts, Launched, AppTypes, LauncherTypes, Limited
  <2>4. AppKnows' /\ Held'
    BY <1>1, <2>2 DEF LauncherStarts, Launched, AppKnows, Held, VmmHasHandle, Outside, vmVars, managerVars
  <2>. QED  BY <2>1, <2>3, <2>4
<1>2. CASE LauncherFails \/ LauncherStops \/ StopSignals \/ StopJoins
  <2>1. UNCHANGED <<vmVars, appVars, process_handle, monitor, rapid_restart_count, fast>>
    BY <1>2 DEF LauncherFails, LauncherStops, StopSignals, StopJoins
  <2>2. MInv'
    BY <2>1, MInvStutters
  <2>3. AppTypes' /\ AppKnows' /\ Limited'
    BY <2>1 DEF AppTypes, AppKnows, Limited, vmVars, managerVars, appVars
  <2>4. LauncherTypes' /\ Held'
    BY <1>2, <2>1 DEF LauncherFails, LauncherStops, StopSignals, StopJoins, LauncherTypes, Held,
       VmmHasHandle, vmVars, wslVars, appVars
  <2>. QED  BY <2>2, <2>3, <2>4
<1>3. CASE StopBreaks
  <2>1. monitor = "done" /\ UNCHANGED <<should_monitor, stop_event, jobbed, monitor,
                                       rapid_restart_count, fast, process_handle>>
    BY <1>3 DEF StopBreaks, StopUnchanged, Held
  <2>2. MInv' /\ AppTypes' /\ AppKnows'
    <3>1. CASE UNCHANGED <<vmVars, appVars>>
      BY <3>1, MInvStutters DEF AppTypes, AppKnows, vmVars, managerVars, appVars
    <3>2. CASE shutdown' = TRUE /\ UNCHANGED <<vmVars, vmm, known, restart_attempts>>
      BY <3>2, MInvStutters DEF AppTypes, AppKnows, vmVars, managerVars
    <3>3. CASE AppGone(FALSE)
      BY <3>3, AppGoneKeeps, Zenon
    <3>. QED  BY <1>3, <3>1, <3>2, <3>3 DEF StopBreaks
  <2>3. main' \in {"close", "wait"} /\ (main' = "close" => process_handle = "none" /\ UNCHANGED vmm)
        /\ (main' = "wait" => process_handle = "held")
    BY <1>3 DEF StopBreaks, appVars
  <2>4. Held' /\ LauncherTypes' /\ Limited'
    BY <2>1, <2>3 DEF Held, VmmHasHandle, LauncherTypes, Limited
  <2>. QED  BY <2>2, <2>4
<1>4. CASE StopTerminates
  <2>1. MInv' /\ AppTypes' /\ AppKnows' /\ vmm' = "dead"
    BY <1>4, AppGoneKeeps, Zenon DEF StopTerminates
  <2>2. Held' /\ LauncherTypes' /\ Limited'
    BY <1>4, <2>1 DEF StopTerminates, StopUnchanged, Held, VmmHasHandle, LauncherTypes, Limited
  <2>. QED  BY <2>1, <2>2
<1>5. CASE StopReaps
  <2>1. MInv'
    BY <1>5, MInvStutters DEF StopReaps
  <2>2. AppTypes' /\ AppKnows'
    BY <1>5 DEF StopReaps, AppTypes, AppKnows, vmVars, managerVars, appVars
  <2>3. Held' /\ LauncherTypes' /\ Limited'
    BY <1>5 DEF StopReaps, StopUnchanged, appVars, Held, VmmHasHandle, LauncherTypes, Limited
  <2>. QED  BY <2>1, <2>2, <2>3
<1>6. CASE StopCloses
  <2>1. /\ main = "close" /\ main' = "down" /\ stop_event' = "none"
        /\ orphans' \in {FALSE, orphans} /\ (jobbed => ~orphans') /\ stray' \in {{}, stray}
        /\ UNCHANGED <<registered, distro, disk, snapshot, config, com, keepalive, lines, op, reply,
                       meddled, should_monitor, process_handle, jobbed, monitor,
                       rapid_restart_count, fast, vmm, shutdown, known, restart_attempts>>
    BY <1>6 DEF StopCloses, managerVars, appVars
  <2>2. MInv'
    <3>1. WslTypes' /\ CallTypes' /\ OpTyped' /\ Owned'
      BY <2>1 DEF MInv, WslTypes, CallTypes, OpTyped, OpTypes, Owned
    <3>2. Written'
      BY <2>1 DEF MInv, Written
    <3>. QED  BY <3>1, <3>2 DEF MInv
  <2>3. AppTypes' /\ AppKnows'
    BY <2>1 DEF AppTypes, AppKnows
  <2>4. Held' /\ LauncherTypes' /\ Limited'
    BY <2>1 DEF Held, VmmHasHandle, LauncherTypes, Limited
  <2>. QED  BY <2>2, <2>3, <2>4
<1>. QED  BY <1>1, <1>2, <1>3, <1>4, <1>5, <1>6 DEF StopperSteps

\* WSL on its own.  Nothing is left for it to break when the launcher is down.
LEMMA WslKeeps ==
    ASSUME SInv, WslActs
    PROVE  SInv'
<1> USE DEF SInv
<1>1. MInv'
  BY EnvironmentKeeps DEF WslActs, Environment
<1>2. /\ UNCHANGED <<op, reply, launcherVars, appVars>>
      /\ keepalive = "none" => keepalive' = "none"
  BY EnvironmentLeaves DEF WslActs, Environment
<1>3. ~orphans => ~orphans'
  <2>1. CASE StrayEnds
    BY <2>1 DEF StrayEnds, Unregistered, Restored, Imported, Terminated, Exported
  <2>. QED  BY <2>1 DEF WslActs, DistroDies, Terminated, OtherWakes, Wakes, KeepaliveEnds
<1>4. AppTypes' /\ AppKnows' /\ Held' /\ LauncherTypes' /\ Limited'
  BY <1>2, <1>3 DEF AppTypes, AppKnows, Held, VmmHasHandle, LauncherTypes, Limited, launcherVars, appVars
<1>. QED  BY <1>1, <1>4

LEMMA SInvNext == SInv /\ [Next]_vars => SInv'
<1> SUFFICES ASSUME SInv, [Next]_vars PROVE SInv'
  OBVIOUS
<1>1. CASE Next
  BY <1>1, MainKeeps, MonitorKeeps, AppKeeps, WslKeeps DEF Next
<1>2. CASE UNCHANGED vars
  <2>1. MInv'
    BY <1>2, MInvStutters DEF SInv, vars
  <2>2. AppTypes' /\ AppKnows' /\ Held' /\ LauncherTypes' /\ Limited'
    BY <1>2 DEF SInv, AppTypes, AppKnows, Held, VmmHasHandle, LauncherTypes, Limited, vars, vmVars,
       wslVars, managerVars, launcherVars, appVars
  <2>. QED  BY <2>1, <2>2 DEF SInv
<1>. QED  BY <1>1, <1>2

LEMMA SupervisorInvariant == Spec => []SInv
<1>. QED  BY SInvInit, SInvNext, PTL DEF Spec

\* The variables keep their types, for any limits.
THEOREM SupervisorTypeCorrect == Spec => []TypeOK
<1>. QED  BY SupervisorInvariant, SInvImplies, PTL

\* The launcher never loses the handle of a vmm.exe that runs.
THEOREM RunningVmmIsHeld == Spec => []VmmHasHandle
<1>. QED  BY SupervisorInvariant, SInvImplies, PTL

\* Once stop() has returned nothing of the launcher is left, keepalives included
\* if the job holds them.
THEOREM NothingIsLeft == Spec => []StopLeavesNothing
<1>. QED  BY SupervisorInvariant, SInvImplies, PTL

LEMMA RestartStep == SInv /\ [Next]_vars =>
    [ monitor = "launch" /\ vmm' = "init" => fast < max_rapid_restarts ]_vars
BY DEF SInv, Limited

\* The rapid restarts in a row stay below the limit, whatever it is.
THEOREM RapidRestartsEnd == Spec => RestartsLimited
<1>. QED  BY SupervisorInvariant, RestartStep, PTL DEF Spec, RestartsLimited

-----------------------------------------------------------------------------
(* The manager under the two supervisors.                                  *)

\* The job object is closed: the one thing that happens to what a manager has
\* left which the manager by itself knows nothing of.
JobCloses ==
    /\ orphans' \in {FALSE, orphans} /\ stray' \in {{}, stray}
    /\ UNCHANGED <<registered, distro, disk, snapshot, config, managerVars>>

\* vmm.exe makes one call at a time, and only calls that the manager offers.
LEMMA ManagerStep ==
    ASSUME SInv, [Next]_vars
    PROVE  [ManagerNext \/ JobCloses]_vmVars
<1> USE DEF SInv
<1>1. ASSUME op = Idle, StateBegin \/ StartBegin \/ StopBegin \/ RunBegin PROVE ManagerNext
  BY <1>1 DEF ManagerNext, Client
<1>2. ASSUME NEW exits \in BOOLEAN, AppGone(exits) PROVE ManagerNext
  BY <1>2 DEF AppGone, ManagerNext, Client, ManagerExits
<1>3. CASE LauncherStarts \/ LauncherFails \/ LauncherStops
  BY <1>3 DEF LauncherStarts, LauncherFails, LauncherStops
<1>4. CASE StopperSteps
  BY <1>2, <1>4 DEF StopperSteps, StopSignals, StopJoins, StopBreaks, StopTerminates, StopReaps,
         StopCloses, JobCloses
<1>5. CASE MonitorSteps
  BY <1>5 DEF MonitorSteps, MonitorTop, MonitorWakes, MonitorReaps, MonitorCounts, MonitorDelays,
         MonitorLaunches, MonitorUnchanged
<1>6. CASE AppSteps
  <2>1. vmm \in {"init", "idle"} => op = Idle
    BY DEF AppKnows, Outside
  <2>2. CASE InitAsks \/ InitKnows \/ InitStarted \/ InitDone \/ RunStarts
    BY <1>1, <2>1, <2>2 DEF InitAsks, InitKnows, InitStarted, InitDone, RunStarts, Called, NoCall,
         Answered
  <2>3. CASE CheckAsks \/ CheckSame \/ CheckChanged \/ Restarted \/ ClawDone
    BY <1>1, <2>1, <2>3 DEF CheckAsks, CheckSame, CheckChanged, Restarted, ClawDone, Called, NoCall,
         Answered
  <2>4. CASE ShutdownSeen \/ AppExits
    BY <1>1, <1>2, <2>1, <2>4 DEF ShutdownSeen, AppExits, Called
  <2>5. CASE ManagerWorks
    BY <2>5 DEF ManagerWorks, ManagerNext
  <2>. QED  BY <1>6, <2>2, <2>3, <2>4, <2>5 DEF AppSteps
<1>7. CASE AppDies
  BY <1>2, <1>7 DEF AppDies
<1>8. CASE WslActs
  BY <1>8 DEF WslActs, ManagerNext, Environment
<1>9. CASE UNCHANGED vars
  BY <1>9 DEF vars
<1>. QED  BY <1>3, <1>4, <1>5, <1>6, <1>7, <1>8, <1>9 DEF Next

\* What the supervisors do to the manager is what its specification allows, and
\* to close the job: what is proved of the manager's calls holds under them.
THEOREM SupervisorsUseManager == Spec => ManagerInit /\ [][ManagerNext \/ JobCloses]_vmVars
<1>1. Init => ManagerInit
  BY DEF Init
<1>. QED  BY <1>1, ManagerStep, SupervisorInvariant, PTL DEF Spec

\* An Ok on which the watchdog goes on is true.
THEOREM SupervisedOkIsTrue == Spec => OkMeansDone
<1> DEFINE Done ==
      /\ Succeeds("create") /\ ~meddled => registered' = "yes"
      /\ Succeeds("stop")     => distro' = "stopped" /\ keepalive' = "none"
      /\ Succeeds("destroy")  => registered' = "no" /\ keepalive' = "none"
      /\ Succeeds("snapshot") => registered' = "yes" /\ snapshot' = disk'
      /\ Succeeds("restore")  => registered' = "yes" /\ disk' = snapshot
<1>1. ASSUME SInv, [Next]_vars PROVE [Done]_vmVars
  <2>1. CASE [ManagerNext]_vmVars
    BY <1>1, <2>1, OkStep DEF SInv
  <2>2. CASE JobCloses
    BY <2>2 DEF JobCloses, Succeeds, managerVars, Idle
  <2>. QED  BY <1>1, <2>1, <2>2, ManagerStep
<1>. QED  BY <1>1, SupervisorInvariant, PTL DEF Spec, OkMeansDone

\* The calls of vmm.exe, and the one command that they may leave behind.
Harmless ==
    /\ op.call \in {"none", "start", "stop", "state", "run"}
    /\ stray \subseteq {"terminate"}

\* Such a call neither registers a distribution nor takes its disk.
LEMMA HarmlessWork ==
    ASSUME MInv, Harmless, ManagerSteps
    PROVE  Harmless' /\ UNCHANGED <<registered, disk, snapshot, config>>
<1> USE DEF MInv
<1>1. op \in OpTypes /\ PointOf(op.call, op.at)
  BY DEF OpTyped
<1>2. StartSteps \/ (op.call = "stop" /\ StopSteps) \/ QuerySteps
  BY <1>1 DEF Harmless, PointOf, ManagerSteps, CreateSteps, UnregisterStuck, DeleteStuck, ReadConfig,
         WriteConfig, ImportViaWslExe, ImportBusy, ImportViaCom, ImportViaApi, Bootstrap, StopSteps,
         StopViaCom, StopViaWslExe, DestroySteps, DestroyViaCom, DestroyViaWslExe, RestoreImport,
         SnapshotSteps, Export, ExportTar, At
<1>3. UNCHANGED <<registered, disk, snapshot, config, stray>>
  BY <1>2 DEF StartSteps, KillSleepers, LaunchKeepalive, ConfirmStarted, StopSteps, StopViaCom,
         StopViaWslExe, Terminated, Wakes, QuerySteps, StateViaCom, StateViaList, RunViaCom, RunViaApi,
         wslVars
<1>4. ASSUME NEW q, Goto(q) PROVE op'.call = op.call
  BY <1>1, <1>4 DEF Goto, OpTypes
<1>5. ASSUME NEW answer, Return(answer) PROVE op'.call = "none"
  BY <1>5 DEF Return, Idle
<1>6. op'.call \in {op.call, "none"}
  BY <1>2, <1>4, <1>5 DEF StartSteps, KillSleepers, LaunchKeepalive, ConfirmStarted, StopSteps, StopViaCom,
         StopViaWslExe, AfterStop, QuerySteps, StateViaCom, StateViaList, RunViaCom, RunViaApi
<1>. QED  BY <1>3, <1>6 DEF Harmless

LEMMA HarmlessNext ==
    ASSUME SInv, Harmless, [Next]_vars
    PROVE  Harmless' /\ UNCHANGED <<registered, disk, snapshot, config>>
<1> USE DEF SInv
<1>1. ASSUME StateBegin \/ StartBegin \/ StopBegin \/ RunBegin
      PROVE  Harmless' /\ UNCHANGED <<registered, disk, snapshot, config>>
  BY <1>1 DEF StateBegin, StartBegin, StopBegin, RunBegin, Begin, Answer, Harmless, wslVars
<1>2. ASSUME UNCHANGED vmVars PROVE Harmless' /\ UNCHANGED <<registered, disk, snapshot, config>>
  BY <1>2 DEF vmVars, wslVars, managerVars, Harmless
<1>3. ASSUME NEW exits \in BOOLEAN, AppGone(exits)
      PROVE  Harmless' /\ UNCHANGED <<registered, disk, snapshot, config>>
  <2>1. UnderWay(op.at) \subseteq {"terminate"}
    BY DEF MInv, OpTyped, PointOf, Harmless, UnderWay
  <2>2. op' = Idle /\ stray' \in {stray, stray \cup UnderWay(op.at)}
        /\ UNCHANGED <<registered, disk, snapshot, config>>
    BY <1>3 DEF AppGone, ManagerExits, ManagerDies, Strays, wslVars
  <2>. QED  BY <2>1, <2>2 DEF Harmless, Idle
<1>4. CASE LauncherStarts \/ LauncherFails \/ LauncherStops
  BY <1>2, <1>4 DEF LauncherStarts, LauncherFails, LauncherStops
<1>5. CASE StopperSteps
  BY <1>2, <1>3, <1>5 DEF StopperSteps, StopSignals, StopJoins, StopBreaks, StopTerminates, StopReaps,
         StopCloses, managerVars, Harmless
<1>6. CASE MonitorSteps
  BY <1>2, <1>6 DEF MonitorSteps, MonitorTop, MonitorWakes, MonitorReaps, MonitorCounts, MonitorDelays,
         MonitorLaunches, MonitorUnchanged
<1>7. CASE AppSteps
  <2>1. CASE InitAsks \/ InitKnows \/ InitStarted \/ InitDone \/ RunStarts
    BY <1>1, <1>2, <2>1 DEF InitAsks, InitKnows, InitStarted, InitDone, RunStarts, Called, NoCall
  <2>2. CASE CheckAsks \/ CheckSame \/ CheckChanged \/ Restarted \/ ClawDone
    BY <1>1, <1>2, <2>2 DEF CheckAsks, CheckSame, CheckChanged, Restarted, ClawDone, Called, NoCall
  <2>3. CASE ShutdownSeen \/ AppExits
    BY <1>1, <1>3, <2>3 DEF ShutdownSeen, AppExits, Called
  <2>4. CASE ManagerWorks
    BY <2>4, HarmlessWork DEF ManagerWorks
  <2>. QED  BY <1>7, <2>1, <2>2, <2>3, <2>4 DEF AppSteps
<1>8. CASE AppDies
  BY <1>3, <1>8 DEF AppDies
<1>9. CASE WslActs
  <2>1. CASE StrayEnds
    <3>1. PICK command \in stray :
             /\ stray' = stray \ {command}
             /\ \/ UNCHANGED <<registered, distro, disk, snapshot, config, orphans, meddled>>
                \/ CASE command = "unregister" -> Unregistered
                     [] command = "import"     -> Imported("fresh")
                     [] command = "restore"    -> Restored
                     [] command = "terminate"  -> Terminated
                     [] OTHER                  -> Exported
      BY <2>1 DEF StrayEnds
    <3>2. command = "terminate" /\ UNCHANGED op
      BY <2>1 DEF Harmless, StrayEnds
    <3>. QED  BY <3>1, <3>2 DEF Terminated, Harmless
  <2>2. CASE DistroDies \/ OtherWakes \/ KeepaliveEnds
    BY <2>2 DEF DistroDies, Terminated, OtherWakes, Wakes, KeepaliveEnds, managerVars, Harmless
  <2>. QED  BY <1>9, <2>1, <2>2 DEF WslActs
<1>10. CASE UNCHANGED vars
  BY <1>2, <1>10 DEF vars
<1>. QED  BY <1>4, <1>5, <1>6, <1>7, <1>8, <1>9, <1>10 DEF Next

\* Whatever dies or is restarted, the two supervisors never register or remove a
\* distribution and never touch its disk, a snapshot or the user's .wslconfig.
DisksAreSpared == [][ UNCHANGED <<registered, disk, snapshot, config>> ]_vars

THEOREM SupervisorsSpareDisks == Spec => DisksAreSpared
<1>1. Init => Harmless
  BY DEF Init, ManagerInit, Harmless, Idle
<1>2. SInv /\ Harmless /\ [Next]_vars => Harmless' /\ UNCHANGED <<registered, disk, snapshot, config>>
  BY HarmlessNext
<1>3. SInv /\ Harmless /\ [Next]_vars => [ UNCHANGED <<registered, disk, snapshot, config>> ]_vars
  BY <1>2
<1>. QED  BY <1>1, <1>2, <1>3, SupervisorInvariant, PTL DEF Spec, DisksAreSpared
=============================================================================
