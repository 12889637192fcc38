------------------------- MODULE CapabilityService -------------------------
(***************************************************************************)
(* The daemon's request path: connections (gRPC, the VM gateway, the pipe  *)
(* server's workers) begin and end tasks and call capabilities through     *)
(* CapabilityService::callCapability (core/capability_service.cc), which   *)
(* consults the security chain, the task registry's authorisation cache    *)
(* and UIService::askConfirm.  Connections run concurrently; each handles  *)
(* one request at a time.  The registry is TaskRegistry; askConfirm is its *)
(* contract ConfirmGate, which UIService is shown to implement; the        *)
(* chain's merged verdict on an operation is a constant of the rules that  *)
(* are loaded (SecurityChain computes it).                                 *)
(***************************************************************************)
EXTENDS TaskRegistry, FiniteSets

CONSTANTS
    Clients,       \* connections
    PreVerdict,    \* runPreHook() by fingerprint
    PostVerdict,   \* runPostHook() by fingerprint
    Loaded,        \* fingerprints whose capability module is loaded
    UiInjected,    \* setUIService() was called
    TimeoutMode,   \* see ConfirmGate
    NULL           \* a null TaskContext*, a variable without a value

ASSUME VerdictAssumption ==
    /\ PreVerdict \in [Fingerprints -> {"Pass", "NeedConfirm", "Deny"}]
    /\ PostVerdict \in [Fingerprints -> {"Pass", "NeedConfirm", "Deny"}]

ASSUME ServiceAssumption ==
    /\ IsFiniteSet(Clients)
    /\ Loaded \subseteq Fingerprints
    /\ UiInjected \in BOOLEAN
    /\ NULL \notin TaskIds /\ NULL \notin Fingerprints

VARIABLES
    initialized,   \* initialized_
    open, heard, verdict,   \* askConfirm(), see ConfirmGate
    pc,            \* where each connection is in callCapability
    task, fp,      \* its arguments
    task_ctx,      \* its TaskContext*, as the id of the task pointed to
    source,        \* op_log_source
    logs,          \* op_log lines pushed by the current or last call
    trusted,       \* history: (task, fingerprint) pairs the user chose to trust
    logged         \* history: success lines pushed, by task

gateVars == <<open, heard, verdict>>
callVars == <<pc, task, fp, task_ctx, source, logs>>
vars == <<registryVars, initialized, gateVars, callVars, trusted, logged>>

Gate == INSTANCE ConfirmGate WITH Askers <- Clients

Points == {"idle", "prehook", "check", "ask", "asking", "decide", "execute",
           "posthook", "count", "log"}

Init ==
    /\ RegistryInit
    /\ Gate!Init
    /\ initialized = TRUE
    /\ pc = [c \in Clients |-> "idle"]
    /\ task = [c \in Clients |-> NoTask]
    /\ fp = [c \in Clients |-> NULL]
    /\ task_ctx = [c \in Clients |-> NULL]
    /\ source = [c \in Clients |-> "none"]
    /\ logs = [c \in Clients |-> 0]
    /\ trusted = {}
    /\ logged = [t \in TaskIds |-> 0]

-----------------------------------------------------------------------------
(* Requests that touch only the registry (and push a UI event).            *)

ClientBeginsTask(c) ==
    /\ pc[c] = "idle"
    /\ \E parent \in TaskIds \cup {NoTask}, d \in Descriptions : BeginTask(parent, d)
    /\ UNCHANGED <<initialized, gateVars, callVars, trusted, logged>>

\* Any connection may end any task it knows of, while others work on it.
ClientEndsTask(c) ==
    /\ pc[c] = "idle"
    /\ \E t \in 1 .. next_id - 1 : EndTask(t)
    /\ UNCHANGED <<initialized, gateVars, callVars, trusted, logged>>

-----------------------------------------------------------------------------
(* callCapability().                                                       *)

Goto(c, point) == pc' = [pc EXCEPT ![c] = point]

\* callCapability returns: its locals are gone.
Return(c) ==
    /\ Goto(c, "idle")
    /\ task' = [task EXCEPT ![c] = NoTask]
    /\ fp' = [fp EXCEPT ![c] = NULL]
    /\ task_ctx' = [task_ctx EXCEPT ![c] = NULL]
    /\ source' = [source EXCEPT ![c] = "none"]

\* pushOpLog: nothing without a UI service or a task id.
PushOpLog(c) ==
    logs' = IF UiInjected /\ task[c] # NoTask THEN [logs EXCEPT ![c] = @ + 1] ELSE logs

\* NOT_INITIALIZED.
CallRefused(c) ==
    /\ pc[c] = "idle" /\ ~initialized
    /\ logs' = [logs EXCEPT ![c] = 0]
    /\ UNCHANGED <<registryVars, initialized, gateVars, pc, task, fp, task_ctx,
                   source, trusted, logged>>

\* The arguments arrive; findTask() returns a pointer into the registry.
Call(c, t, f) ==
    /\ pc[c] = "idle" /\ initialized
    /\ task' = [task EXCEPT ![c] = t]
    /\ fp' = [fp EXCEPT ![c] = f]
    /\ task_ctx' = [task_ctx EXCEPT ![c] = IF t \in Live THEN t ELSE NULL]
    /\ source' = [source EXCEPT ![c] = "auto_allow"]
    /\ logs' = [logs EXCEPT ![c] = 0]
    /\ Goto(c, "prehook")
    /\ UNCHANGED <<registryVars, initialized, gateVars, trusted, logged>>

StepUnchanged == <<initialized, task, fp, task_ctx>>

PreHookDenies(c) ==
    /\ pc[c] = "prehook" /\ PreVerdict[fp[c]] = "Deny"
    /\ PushOpLog(c)
    /\ Return(c)
    /\ UNCHANGED <<initialized, registryVars, gateVars, trusted, logged>>

PreHookPasses(c) ==
    /\ pc[c] = "prehook" /\ PreVerdict[fp[c]] # "Deny"
    /\ Goto(c, IF PreVerdict[fp[c]] = "NeedConfirm" THEN "check" ELSE "execute")
    /\ UNCHANGED <<StepUnchanged, registryVars, gateVars, source, logs, trusted, logged>>

\* checkAuthorization() finds the fingerprint in the task's cache.
CacheHit(c) ==
    /\ pc[c] = "check" /\ CheckAuthorization(task[c], fp[c])
    /\ source' = [source EXCEPT ![c] = "fingerprint_cache"]
    /\ Goto(c, "execute")
    /\ UNCHANGED <<StepUnchanged, registryVars, gateVars, logs, trusted, logged>>

\* Not cached: ask the user, or CONFIRM_REQUIRED without a UI service.
CacheMiss(c) ==
    /\ pc[c] = "check" /\ ~CheckAuthorization(task[c], fp[c])
    /\ IF UiInjected THEN Goto(c, "ask") /\ UNCHANGED <<task, fp, task_ctx, source>>
       ELSE Return(c)
    /\ UNCHANGED <<initialized, registryVars, gateVars, logs, trusted, logged>>

AskUnchanged == <<StepUnchanged, registryVars, source, logs, logged>>

AskConfirm(c) ==
    /\ pc[c] = "ask"
    /\ \/ Gate!Ask(c) /\ Goto(c, "asking")
       \/ Gate!Refuse(c) /\ Goto(c, "decide")
    /\ UNCHANGED <<AskUnchanged, trusted>>

UserSays(c, v) ==
    /\ Gate!Hear(c, v)
    /\ UNCHANGED <<AskUnchanged, pc, trusted>>

ConfirmReturns(c, v) ==
    /\ pc[c] = "asking"
    /\ Gate!Return(c, v)
    /\ trusted' = IF v.trust /\ task[c] # NoTask THEN trusted \cup {<<task[c], fp[c]>>}
                  ELSE trusted
    /\ Goto(c, "decide")
    /\ UNCHANGED AskUnchanged

\* trust_fingerprint is cached, whatever the answer was; then the answer counts.
Decide(c) ==
    /\ pc[c] = "decide"
    /\ IF verdict[c].trust /\ task[c] # NoTask
       THEN CacheAuthorization(task[c], fp[c]) ELSE UNCHANGED registryVars
    /\ IF verdict[c].confirmed
       THEN /\ source' = [source EXCEPT ![c] = "user_confirm"]
            /\ Goto(c, "execute")
            /\ UNCHANGED <<task, fp, task_ctx, logs>>
       ELSE PushOpLog(c) /\ Return(c)
    /\ UNCHANGED <<initialized, gateVars, trusted, logged>>

\* CAPABILITY_NOT_FOUND, or execute() reports a failure: returned as it is.
ExecuteFails(c) ==
    /\ pc[c] = "execute"
    /\ Return(c)
    /\ UNCHANGED <<initialized, registryVars, gateVars, logs, trusted, logged>>

ExecuteSucceeds(c) ==
    /\ pc[c] = "execute" /\ fp[c] \in Loaded
    /\ Goto(c, "posthook")
    /\ UNCHANGED <<StepUnchanged, registryVars, gateVars, source, logs, trusted, logged>>

\* Faulty variant of PostHookDenies: a vetoed response is counted.
PostHookDeniesCounted(c) ==
    /\ pc[c] = "posthook" /\ PostVerdict[fp[c]] = "Deny"
    /\ IncrementOpCount(task[c])
    /\ PushOpLog(c)
    /\ Return(c)
    /\ UNCHANGED <<initialized, gateVars, trusted, logged>>

PostHookDenies(c) ==
    /\ pc[c] = "posthook" /\ PostVerdict[fp[c]] = "Deny"
    /\ PushOpLog(c)
    /\ Return(c)
    /\ UNCHANGED <<initialized, registryVars, gateVars, trusted, logged>>

\* A post-hook NeedConfirm counts as a pass.
PostHookPasses(c) ==
    /\ pc[c] = "posthook" /\ PostVerdict[fp[c]] # "Deny"
    /\ Goto(c, "count")
    /\ UNCHANGED <<StepUnchanged, registryVars, gateVars, source, logs, trusted, logged>>

Count(c) ==
    /\ pc[c] = "count"
    /\ IncrementOpCount(task[c])
    /\ Goto(c, "log")
    /\ UNCHANGED <<StepUnchanged, gateVars, source, logs, trusted, logged>>

LogSuccess(c) ==
    /\ pc[c] = "log"
    /\ PushOpLog(c)
    /\ logged' = IF task[c] \in Live THEN [logged EXCEPT ![task[c]] = (@ + 1) % OpModulus] ELSE logged
    /\ Return(c)
    /\ UNCHANGED <<initialized, registryVars, gateVars, trusted>>

-----------------------------------------------------------------------------
\* Daemon::stop() releases the service after every server has joined its
\* request threads.
Release ==
    /\ initialized
    /\ \A c \in Clients : pc[c] = "idle"
    /\ initialized' = FALSE
    /\ UNCHANGED <<registryVars, gateVars, callVars, trusted, logged>>

CallSteps(c) ==
    \/ PreHookDenies(c) \/ PreHookPasses(c) \/ CacheHit(c) \/ CacheMiss(c)
    \/ AskConfirm(c) \/ Decide(c) \/ ExecuteFails(c) \/ ExecuteSucceeds(c)
    \/ PostHookDenies(c) \/ PostHookPasses(c) \/ Count(c) \/ LogSuccess(c)
    \/ \E v \in Gate!Answers : UserSays(c, v) \/ ConfirmReturns(c, v)

Next ==
    \/ Release
    \/ \E c \in Clients :
          \/ ClientBeginsTask(c) \/ ClientEndsTask(c) \/ CallRefused(c)
          \/ \E t \in 0 .. next_id - 1, f \in Fingerprints : Call(c, t, f)
          \/ CallSteps(c)

Spec == Init /\ [][Next]_vars

-----------------------------------------------------------------------------
(* Properties.                                                             *)

TypeOK ==
    /\ RegistryTypeOK
    /\ initialized \in BOOLEAN
    /\ open \subseteq Clients
    /\ heard \in [Clients -> SUBSET Gate!Answers]
    /\ verdict \in [Clients -> Gate!Answers]
    /\ pc \in [Clients -> Points]
    /\ task \in [Clients -> TaskIds \cup {NoTask}]
    /\ fp \in [Clients -> Fingerprints \cup {NULL}]
    /\ task_ctx \in [Clients -> TaskIds \cup {NULL}]
    /\ source \in [Clients -> {"none", "auto_allow", "fingerprint_cache", "user_confirm"}]
    /\ logs \in [Clients -> 0 .. 1]
    /\ trusted \subseteq TaskIds \X Fingerprints
    /\ logged \in [TaskIds -> 0 .. OpModulus - 1]

Cleared == {"execute", "posthook", "count", "log"}

\* Nothing is executed without clearance: a denied operation never is, and one
\* that needs confirmation only if the user confirmed this very call (or
\* timeout_allow let it pass), or had chosen to trust this operation in this
\* same task.
ExecutedWithConsent ==
    \A c \in Clients : pc[c] \in Cleared =>
        /\ PreVerdict[fp[c]] # "Deny"
        /\ PreVerdict[fp[c]] = "NeedConfirm" =>
              \/ source[c] = "fingerprint_cache" /\ <<task[c], fp[c]>> \in trusted
              \/ source[c] = "user_confirm" /\ verdict[c].confirmed

\* An authorisation is never found under another task than the one it was given
\* in: what a live task's cache holds, its user chose to trust in that task.
TrustStaysInItsTask ==
    \A t \in Live : \A f \in tasks[t].authorizations : <<t, f>> \in trusted

\* Trust ends with the task: no step of any connection, not even of a call that
\* was in flight when the task ended, brings a task or its authorisations back.
EndedStaysEnded ==
    [][\A t \in 1 .. next_id - 1 : t \notin Live => t \notin Live']_vars

\* A call is let pass from the cache only while its task is alive.
CacheNeedsLiveTask ==
    [][\A c \in Clients :
          source[c] # "fingerprint_cache" /\ source'[c] = "fingerprint_cache"
              => task[c] \in Live]_vars

\* The registry's count and the UI's log agree: a live task has counted exactly
\* the operations logged as successful and those whose line is still to be
\* pushed; nothing denied, failed or refused is counted.
CountMatchesLog ==
    \A t \in Live :
        LET between == {c \in Clients : pc[c] = "log" /\ task[c] = t}
        IN  tasks[t].op_count = (logged[t] + Cardinality(between)) % OpModulus
=============================================================================
