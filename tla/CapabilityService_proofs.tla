---------------------- MODULE CapabilityService_proofs ----------------------
(***************************************************************************)
(* Proofs about the request path: for any number of connections, tasks,    *)
(* operations and rules, nothing is executed without clearance, trust      *)
(* stays in its task and ends with it, the trust anchor of a task tree     *)
(* stays what it was, and every successful operation is counted once.      *)
(***************************************************************************)
EXTENDS CapabilityService, SecurityChain, FiniteSetTheorems, WellFoundedInduction, TLAPS

-----------------------------------------------------------------------------
(* The task registry by itself, under any order of calls with any ids.      *)

\* What the four operations of the registry do to the set of live tasks; ids
\* are handed out once (generateTaskId).
LEMMA LiveAfterBegin ==
    ASSUME RegistryTypeOK, NEW parent, NEW d, BeginTask(parent, d)
    PROVE  /\ next_id \in TaskIds /\ next_id' = next_id + 1
           /\ Live' = Live \cup {next_id} /\ next_id \notin Live
           /\ \A t \in Live : tasks'[t] = tasks[t] /\ t \in Nat /\ t < next_id
           /\ tasks'[next_id] = [parent |-> parent,
                                 root |-> RootOf(next_id, parent),
                                 root_description |-> RootDescriptionOf(parent, d),
                                 op_count |-> 0,
                                 authorizations |-> {}]
<1>1. next_id \in TaskIds /\ next_id' = next_id + 1
  BY RegistryAssumption DEF RegistryTypeOK, BeginTask, TaskIds
<1>2. Live' = Live \cup {next_id}
  BY DEF BeginTask, Live
<1>3. \A t \in Live : t \in Nat /\ t < next_id
  BY <1>1 DEF RegistryTypeOK, TaskIds
<1>4. next_id \notin Live
  BY <1>1, <1>3 DEF TaskIds
<1>. QED  BY <1>1, <1>2, <1>3, <1>4 DEF BeginTask

LEMMA LiveAfterEnd ==
    ASSUME NEW id, EndTask(id)
    PROVE  /\ DOMAIN tasks' = Live \ {id}
           /\ \A t \in Live \ {id} : tasks'[t] = tasks[t]
           /\ next_id' = next_id
  BY DEF EndTask, Live, Restrict

\* A new entry is well formed whatever the parent is: unknown, ended or live.
LEMMA NewEntryTyped ==
    ASSUME RegistryTypeOK, next_id <= MaxTasks,
           NEW parent \in TaskIds \cup {NoTask}, NEW d \in Descriptions
    PROVE  [parent |-> parent, root |-> RootOf(next_id, parent),
            root_description |-> RootDescriptionOf(parent, d),
            op_count |-> 0, authorizations |-> {}] \in Entries
<1>1. next_id \in TaskIds
  BY RegistryAssumption DEF RegistryTypeOK, TaskIds
<1>2. 0 \in 0 .. OpModulus - 1
  BY RegistryAssumption
<1>3. RootOf(next_id, parent) \in TaskIds
  BY <1>1 DEF RootOf, RegistryTypeOK, Entries
<1>4. RootDescriptionOf(parent, d) \in Descriptions
  BY DEF RootDescriptionOf, RegistryTypeOK, Entries
<1>. QED  BY <1>2, <1>3, <1>4 DEF Entries

\* Every operation of the registry preserves its type; used here and for the
\* request path, which calls the same operations.
LEMMA BeginTaskTyped ==
    ASSUME RegistryTypeOK, NEW parent \in TaskIds \cup {NoTask},
           NEW d \in Descriptions, BeginTask(parent, d)
    PROVE  RegistryTypeOK'
<1>1. next_id \in TaskIds /\ next_id' = next_id + 1
      /\ Live' = Live \cup {next_id}
  BY LiveAfterBegin
<1>2. Live' \subseteq 1 .. next_id' - 1
  BY <1>1 DEF RegistryTypeOK, TaskIds
<1>3. tasks'[next_id] \in Entries
  BY LiveAfterBegin, NewEntryTyped DEF BeginTask
<1>4. \A t \in Live : tasks'[t] \in Entries
  BY LiveAfterBegin DEF RegistryTypeOK
<1>5. tasks' = [t \in Live' |-> tasks'[t]]
  BY <1>1 DEF BeginTask, Live
<1>. QED  BY <1>1, <1>2, <1>3, <1>4, <1>5, RegistryAssumption DEF RegistryTypeOK, TaskIds

LEMMA EndTaskTyped ==
    ASSUME RegistryTypeOK, NEW id, EndTask(id)
    PROVE  RegistryTypeOK'
<1>1. tasks' = [t \in Live \ {id} |-> tasks[t]] /\ next_id' = next_id
  BY DEF EndTask, Restrict
<1>2. Live' = Live \ {id}
  BY <1>1 DEF Live
<1>. QED  BY <1>1, <1>2 DEF RegistryTypeOK

LEMMA CacheAuthorizationTyped ==
    ASSUME RegistryTypeOK, NEW id, NEW f \in Fingerprints, CacheAuthorization(id, f)
    PROVE  RegistryTypeOK' /\ Live' = Live
<1>1. CASE id \notin Live
  BY <1>1 DEF CacheAuthorization, RegistryTypeOK, Live
<1>2. CASE id \in Live
  <2>1. tasks' = [t \in Live |->
                    IF t = id THEN [tasks[id] EXCEPT !.authorizations = @ \cup {f}]
                    ELSE tasks[t]]
    BY <1>2 DEF CacheAuthorization, RegistryTypeOK, Live
  <2>2. [tasks[id] EXCEPT !.authorizations = @ \cup {f}] \in Entries
    BY <1>2 DEF RegistryTypeOK, Entries
  <2>3. Live' = Live /\ next_id' = next_id
    BY <2>1 DEF Live, CacheAuthorization
  <2>. QED  BY <2>1, <2>2, <2>3 DEF RegistryTypeOK
<1>. QED  BY <1>1, <1>2

LEMMA IncrementOpCountTyped ==
    ASSUME RegistryTypeOK, NEW id, IncrementOpCount(id)
    PROVE  RegistryTypeOK' /\ Live' = Live
<1>1. CASE id \notin Live
  BY <1>1 DEF IncrementOpCount, RegistryTypeOK, Live
<1>2. CASE id \in Live
  <2>1. tasks' = [t \in Live |->
                    IF t = id THEN [tasks[id] EXCEPT !.op_count = (@ + 1) % OpModulus]
                    ELSE tasks[t]]
    BY <1>2 DEF IncrementOpCount, RegistryTypeOK, Live
  <2>2. (tasks[id].op_count + 1) % OpModulus \in 0 .. OpModulus - 1
    BY <1>2, RegistryAssumption DEF RegistryTypeOK, Entries
  <2>3. [tasks[id] EXCEPT !.op_count = (@ + 1) % OpModulus] \in Entries
    BY <1>2, <2>2 DEF RegistryTypeOK, Entries
  <2>4. Live' = Live /\ next_id' = next_id
    BY <2>1 DEF Live, IncrementOpCount
  <2>. QED  BY <2>1, <2>3, <2>4 DEF RegistryTypeOK
<1>. QED  BY <1>1, <1>2

LEMMA RegistryTypeInductive ==
    ASSUME RegistryTypeOK, [RegistryNext]_registryVars
    PROVE  RegistryTypeOK'
<1>1. ASSUME NEW parent \in TaskIds \cup {NoTask}, NEW d \in Descriptions,
             BeginTask(parent, d)
      PROVE  RegistryTypeOK'
  BY <1>1, BeginTaskTyped
<1>2. ASSUME NEW t \in TaskIds, EndTask(t)
      PROVE  RegistryTypeOK'
  BY <1>2, EndTaskTyped
<1>3. ASSUME NEW t \in TaskIds, NEW f \in Fingerprints, CacheAuthorization(t, f)
      PROVE  RegistryTypeOK'
  BY <1>3, CacheAuthorizationTyped
<1>4. ASSUME NEW t \in TaskIds, IncrementOpCount(t)
      PROVE  RegistryTypeOK'
  BY <1>4, IncrementOpCountTyped
<1>5. CASE UNCHANGED registryVars
  BY <1>5 DEF registryVars, RegistryTypeOK, Live
<1>. QED  BY <1>1, <1>2, <1>3, <1>4, <1>5 DEF RegistryNext

\* Ids, entries and counters are well formed in every state of the registry,
\* whatever ids its callers pass; in particular a live id was handed out.
THEOREM RegistryTypeCorrect == RegistrySpec => []RegistryTypeOK
<1>1. RegistryInit => RegistryTypeOK
  BY RegistryAssumption DEF RegistryInit, RegistryTypeOK, Live
<1>. QED  BY <1>1, RegistryTypeInductive, PTL DEF RegistrySpec

-----------------------------------------------------------------------------
\* A step that takes no entry's lineage away and adds none keeps the anchors.
LEMMA AnchorsKept ==
    ASSUME RegistryTypeOK, RootAnchored, Live' \subseteq Live,
           \A t \in Live' : /\ tasks'[t].parent = tasks[t].parent
                            /\ tasks'[t].root = tasks[t].root
                            /\ tasks'[t].root_description = tasks[t].root_description
    PROVE  RootAnchored'
  BY DEF RootAnchored

LEMMA RootAnchoredInductive ==
    ASSUME RegistryTypeOK, RootAnchored, [RegistryNext]_registryVars
    PROVE  RootAnchored'
<1>1. ASSUME NEW parent \in TaskIds \cup {NoTask}, NEW d \in Descriptions,
             BeginTask(parent, d)
      PROVE  RootAnchored'
  <2>1. Live' = Live \cup {next_id} /\ next_id \notin Live
    BY <1>1, LiveAfterBegin
  <2>2. \A t \in Live : tasks'[t] = tasks[t] /\ t \in Nat /\ t < next_id
    BY <1>1, LiveAfterBegin
  <2>3. /\ tasks'[next_id].parent = parent
        /\ tasks'[next_id].root = RootOf(next_id, parent)
        /\ tasks'[next_id].root_description = RootDescriptionOf(parent, d)
    <3> DEFINE root == RootOf(next_id, parent)
               root_description == RootDescriptionOf(parent, d)
    <3>1. tasks'[next_id] = [parent |-> parent, root |-> root,
                             root_description |-> root_description,
                             op_count |-> 0, authorizations |-> {}]
      BY <1>1, LiveAfterBegin
    <3> HIDE DEF root, root_description
    <3>2. /\ tasks'[next_id].parent = parent
          /\ tasks'[next_id].root = root
          /\ tasks'[next_id].root_description = root_description
      BY <3>1
    <3>. QED  BY <3>2 DEF root, root_description
  <2>4. \A t \in Live : /\ t \in Nat /\ t < next_id
                        /\ tasks[t].root \in Nat /\ tasks[t].root <= t
                        /\ tasks[t].root # next_id
    BY <2>2 DEF RootAnchored, RegistryTypeOK, Entries, TaskIds
  <2>5. /\ parent \in Live => /\ tasks'[next_id].root = tasks[parent].root
                              /\ tasks'[next_id].root_description
                                    = tasks[parent].root_description
        /\ parent \notin Live => tasks'[next_id].root = next_id
    BY <2>3 DEF RootOf, RootDescriptionOf
  <2>6. next_id \in Nat
    BY DEF RegistryTypeOK
  <2>7. ASSUME NEW t \in Live'
        PROVE  /\ tasks'[t].root <= t
               /\ tasks'[t].root \in Live' =>
                     tasks'[tasks'[t].root].root = tasks'[t].root
               /\ tasks'[t].parent \in Live' /\ tasks'[t].parent < t =>
                     tasks'[tasks'[t].parent].root = tasks'[t].root
    <3>1. CASE t \in Live
      <4>1. tasks[t].parent < t => tasks[t].parent # next_id
        BY <2>4, <2>6, <3>1
      <4>. QED  BY <2>1, <2>2, <2>4, <3>1, <4>1 DEF RootAnchored
    <3>2. CASE t = next_id /\ parent \in Live
      <4>1. tasks[parent].root <= t /\ tasks[parent].root # next_id /\ parent < t
        BY <2>4, <2>6, <3>2
      <4>2. tasks'[t].root \in Live' => tasks'[tasks'[t].root].root = tasks'[t].root
        BY <2>1, <2>2, <2>5, <3>2, <4>1 DEF RootAnchored
      <4>. QED  BY <2>2, <2>3, <2>5, <3>2, <4>1, <4>2
    <3>3. CASE t = next_id /\ parent \notin Live
      <4>1. ~(tasks'[t].parent \in Live' /\ tasks'[t].parent < t)
        BY <2>1, <2>3, <2>6, <3>3
      <4>. QED  BY <2>5, <2>6, <3>3, <4>1
    <3>. QED  BY <2>1, <3>1, <3>2, <3>3
  <2>8. ASSUME NEW t \in Live', NEW u \in Live', tasks'[u].root = tasks'[t].root
        PROVE  tasks'[u].root_description = tasks'[t].root_description
    <3>1. CASE t \in Live /\ u \in Live
      BY <2>2, <2>8, <3>1 DEF RootAnchored
    <3>2. CASE t = next_id /\ u = next_id
      BY <3>2
    <3>3. CASE parent \in Live /\ (t = next_id \/ u = next_id)
      BY <2>1, <2>2, <2>5, <2>8, <3>3 DEF RootAnchored
    <3>4. CASE parent \notin Live /\ (t = next_id \/ u = next_id)
      BY <2>1, <2>2, <2>4, <2>5, <2>8, <3>4
    <3>. QED  BY <2>1, <3>1, <3>2, <3>3, <3>4
  <2>. QED  BY <2>7, <2>8 DEF RootAnchored
<1>2. ASSUME NEW t \in TaskIds, EndTask(t)
      PROVE  RootAnchored'
  <2>1. Live' = Live \ {t} /\ \A u \in Live' : tasks'[u] = tasks[u]
    BY <1>2, LiveAfterEnd DEF Live
  <2>. QED  BY <2>1, AnchorsKept
<1>3. ASSUME NEW t \in TaskIds, NEW f \in Fingerprints, CacheAuthorization(t, f)
      PROVE  RootAnchored'
  <2>1. Live' = Live
    BY <1>3, CacheAuthorizationTyped
  <2>2. \A u \in Live' : /\ tasks'[u].parent = tasks[u].parent
                         /\ tasks'[u].root = tasks[u].root
                         /\ tasks'[u].root_description = tasks[u].root_description
    BY <1>3, <2>1 DEF CacheAuthorization, RegistryTypeOK, Entries, Live
  <2>. QED  BY <2>1, <2>2, AnchorsKept
<1>4. ASSUME NEW t \in TaskIds, IncrementOpCount(t)
      PROVE  RootAnchored'
  <2>1. Live' = Live
    BY <1>4, IncrementOpCountTyped
  <2>2. \A u \in Live' : /\ tasks'[u].parent = tasks[u].parent
                         /\ tasks'[u].root = tasks[u].root
                         /\ tasks'[u].root_description = tasks[u].root_description
    BY <1>4, <2>1 DEF IncrementOpCount, RegistryTypeOK, Entries, Live
  <2>. QED  BY <2>1, <2>2, AnchorsKept
<1>5. CASE UNCHANGED registryVars
  BY <1>5 DEF registryVars, RootAnchored, Live
<1>. QED  BY <1>1, <1>2, <1>3, <1>4, <1>5 DEF RegistryNext

\* beginTask's promise that root_task_id and root_description cannot be
\* overridden by a sub-task, for every tree of tasks and every order in which
\* its members end.
THEOREM RootAnchoredCorrect == RegistrySpec => []RootAnchored
<1>1. RegistryInit => RootAnchored
  BY DEF RegistryInit, RootAnchored, Live
<1>. QED  BY <1>1, RegistryTypeCorrect, RootAnchoredInductive, PTL DEF RegistrySpec

-----------------------------------------------------------------------------
(* The request path.                                                       *)

\* What connects a call's program point with its locals: the part of the
\* inductive invariant that the safety properties do not state.
CallOK(c) ==
    /\ pc[c] # "idle" => fp[c] \in Fingerprints /\ logs[c] = 0
    /\ pc[c] \in {"check", "ask", "asking", "decide"} =>
          PreVerdict[fp[c]] = "NeedConfirm"
    /\ pc[c] \in {"prehook", "check", "ask", "asking", "decide"} =>
          source[c] = "auto_allow"
    /\ pc[c] = "decide" /\ verdict[c].trust /\ task[c] # NoTask =>
          <<task[c], fp[c]>> \in trusted

CallConsistent == \A c \in Clients : CallOK(c)

\* ExecutedWithConsent, for one call.
Consent(c) ==
    pc[c] \in Cleared =>
        /\ PreVerdict[fp[c]] # "Deny"
        /\ PreVerdict[fp[c]] = "NeedConfirm" =>
              \/ source[c] = "fingerprint_cache" /\ <<task[c], fp[c]>> \in trusted
              \/ source[c] = "user_confirm" /\ verdict[c].confirmed

IInv == TypeOK /\ CallConsistent /\ ExecutedWithConsent /\ TrustStaysInItsTask

LEMMA InitIInv == Init => IInv
<1> SUFFICES ASSUME Init PROVE IInv
  OBVIOUS
<1>1. RegistryTypeOK
  BY RegistryAssumption DEF Init, RegistryInit, RegistryTypeOK, Live
<1>2. verdict \in [Clients -> Gate!Answers] /\ heard \in [Clients -> SUBSET Gate!Answers]
  BY DEF Init, Gate!Init, Gate!Answers, Gate!Deny
<1>3. TypeOK
  BY <1>1, <1>2, RegistryAssumption DEF Init, Gate!Init, TypeOK, Points
<1>4. CallConsistent /\ ExecutedWithConsent /\ TrustStaysInItsTask
  BY DEF Init, RegistryInit, CallConsistent, CallOK, ExecutedWithConsent, Cleared,
         TrustStaysInItsTask, Live
<1>. QED  BY <1>3, <1>4 DEF IInv

-----------------------------------------------------------------------------
(* What the helpers of callCapability change.                              *)

\* A step of a call that leaves the registry alone keeps it typed.
LEMMA RegistryKept ==
    ASSUME RegistryTypeOK, UNCHANGED registryVars
    PROVE  RegistryTypeOK' /\ Live' = Live
  BY DEF RegistryTypeOK, registryVars, Live

\* At most one op_log line per call: pushOpLog is reached with none pushed.
LEMMA PushEffect ==
    ASSUME TypeOK, NEW c \in Clients, logs[c] = 0, PushOpLog(c)
    PROVE  logs' \in [Clients -> 0 .. 1] /\ \A b \in Clients \ {c} : logs'[b] = logs[b]
  BY DEF PushOpLog, TypeOK

LEMMA ReturnEffect ==
    ASSUME TypeOK, NEW c \in Clients, Return(c)
    PROVE  /\ pc' \in [Clients -> Points] /\ pc'[c] = "idle"
           /\ task' \in [Clients -> TaskIds \cup {NoTask}]
           /\ fp' \in [Clients -> Fingerprints \cup {NULL}]
           /\ task_ctx' \in [Clients -> TaskIds \cup {NULL}]
           /\ source' \in [Clients -> {"none", "auto_allow", "fingerprint_cache", "user_confirm"}]
           /\ source'[c] = "none"
           /\ \A b \in Clients \ {c} : /\ pc'[b] = pc[b] /\ task'[b] = task[b]
                                       /\ fp'[b] = fp[b] /\ source'[b] = source[b]
  BY DEF Return, Goto, TypeOK, Points

\* A step of connection c concerns the invariant of c's call only.
LEMMA OnlyOneCall ==
    ASSUME CallConsistent, ExecutedWithConsent, trusted \subseteq trusted',
           NEW c \in Clients, CallOK(c)', Consent(c)',
           \A b \in Clients \ {c} : /\ pc'[b] = pc[b] /\ task'[b] = task[b]
                                    /\ fp'[b] = fp[b] /\ source'[b] = source[b]
                                    /\ verdict'[b] = verdict[b] /\ logs'[b] = logs[b]
    PROVE  CallConsistent' /\ ExecutedWithConsent'
<1>1. \A b \in Clients : CallOK(b)'
  BY DEF CallConsistent, CallOK
<1>2. \A b \in Clients : Consent(b)'
  BY DEF ExecutedWithConsent, Consent
<1>. QED  BY <1>1, <1>2 DEF CallConsistent, ExecutedWithConsent, Consent

\* The same with the registry left alone: what remains to be shown of a step of c.
LEMMA CallStep ==
    ASSUME IInv, NEW c \in Clients, UNCHANGED tasks, trusted \subseteq trusted',
           TypeOK', CallOK(c)', Consent(c)',
           \A b \in Clients \ {c} : /\ pc'[b] = pc[b] /\ task'[b] = task[b]
                                    /\ fp'[b] = fp[b] /\ source'[b] = source[b]
                                    /\ verdict'[b] = verdict[b] /\ logs'[b] = logs[b]
    PROVE  IInv'
<1>1. CallConsistent' /\ ExecutedWithConsent'
  BY OnlyOneCall DEF IInv
<1>2. TrustStaysInItsTask'
  BY DEF IInv, TrustStaysInItsTask, Live
<1>. QED  BY <1>1, <1>2 DEF IInv

\* What the invariant says of a call in progress.
LEMMA InCall ==
    ASSUME IInv, NEW c \in Clients, pc[c] # "idle"
    PROVE  /\ CallOK(c) /\ Consent(c) /\ logs[c] = 0
           /\ fp[c] \in Fingerprints /\ task[c] \in TaskIds \cup {NoTask}
  BY DEF IInv, CallConsistent, CallOK, ExecutedWithConsent, Consent, TypeOK

\* The cache of a registry that only lost entries, or none, is as trusted as it was.
LEMMA TrustKept ==
    ASSUME TrustStaysInItsTask, Live' \subseteq Live, trusted \subseteq trusted',
           \A t \in Live' : tasks'[t].authorizations \subseteq tasks[t].authorizations
    PROVE  TrustStaysInItsTask'
  BY DEF TrustStaysInItsTask

-----------------------------------------------------------------------------
(* The steps of callCapability that leave the registry alone.              *)

LEMMA PreHookDeniesOK ==
    ASSUME IInv, NEW c \in Clients, PreHookDenies(c) PROVE IInv'
<1>1. /\ TypeOK /\ CallOK(c) /\ Consent(c) /\ logs[c] = 0 /\ fp[c] \in Fingerprints
      /\ RegistryTypeOK' /\ UNCHANGED tasks /\ trusted' = trusted
  BY InCall, RegistryKept DEF IInv, TypeOK, PreHookDenies, registryVars
<1>2. TypeOK'
  BY <1>1, PushEffect, ReturnEffect, RegistryAssumption DEF TypeOK, Points, PreHookDenies, gateVars
<1>3. CallOK(c)' /\ Consent(c)'
  BY <1>1, PushEffect, ReturnEffect DEF TypeOK, CallOK, Consent, Cleared, PreHookDenies, gateVars
<1>4. \A b \in Clients \ {c} : /\ pc'[b] = pc[b] /\ task'[b] = task[b]
                                /\ fp'[b] = fp[b] /\ source'[b] = source[b]
                                /\ verdict'[b] = verdict[b] /\ logs'[b] = logs[b]
  BY <1>1, PushEffect, ReturnEffect DEF TypeOK, PreHookDenies, gateVars
<1>. QED  BY <1>1, <1>2, <1>3, <1>4, CallStep

LEMMA PreHookPassesOK ==
    ASSUME IInv, NEW c \in Clients, PreHookPasses(c) PROVE IInv'
<1>1. /\ TypeOK /\ CallOK(c) /\ Consent(c) /\ logs[c] = 0 /\ fp[c] \in Fingerprints
      /\ RegistryTypeOK' /\ UNCHANGED tasks /\ trusted' = trusted
  BY InCall, RegistryKept DEF IInv, TypeOK, PreHookPasses, StepUnchanged, Goto, registryVars
<1>2. TypeOK'
  BY <1>1, RegistryAssumption DEF TypeOK, Points, PreHookPasses, StepUnchanged, Goto, gateVars
<1>3. CallOK(c)' /\ Consent(c)'
  BY <1>1 DEF TypeOK, CallOK, Consent, Cleared, PreHookPasses, StepUnchanged, Goto, gateVars
<1>4. \A b \in Clients \ {c} : /\ pc'[b] = pc[b] /\ task'[b] = task[b]
                                /\ fp'[b] = fp[b] /\ source'[b] = source[b]
                                /\ verdict'[b] = verdict[b] /\ logs'[b] = logs[b]
  BY <1>1 DEF TypeOK, PreHookPasses, StepUnchanged, Goto, gateVars
<1>. QED  BY <1>1, <1>2, <1>3, <1>4, CallStep

LEMMA CacheHitOK ==
    ASSUME IInv, NEW c \in Clients, CacheHit(c) PROVE IInv'
<1>1. /\ TypeOK /\ CallOK(c) /\ Consent(c) /\ logs[c] = 0 /\ fp[c] \in Fingerprints
      /\ RegistryTypeOK' /\ UNCHANGED tasks /\ trusted' = trusted
  BY InCall, RegistryKept DEF IInv, TypeOK, CacheHit, StepUnchanged, Goto, registryVars
<1>2. TypeOK'
  BY <1>1, RegistryAssumption DEF TypeOK, Points, CacheHit, StepUnchanged, Goto, gateVars
<1>3. CallOK(c)' /\ Consent(c)'
  BY <1>1 DEF TypeOK, CallOK, Consent, Cleared, CacheHit, StepUnchanged, Goto, gateVars, CheckAuthorization, IInv, TrustStaysInItsTask
<1>4. \A b \in Clients \ {c} : /\ pc'[b] = pc[b] /\ task'[b] = task[b]
                                /\ fp'[b] = fp[b] /\ source'[b] = source[b]
                                /\ verdict'[b] = verdict[b] /\ logs'[b] = logs[b]
  BY <1>1 DEF TypeOK, CacheHit, StepUnchanged, Goto, gateVars
<1>. QED  BY <1>1, <1>2, <1>3, <1>4, CallStep

LEMMA CacheMissOK ==
    ASSUME IInv, NEW c \in Clients, CacheMiss(c) PROVE IInv'
<1>1. /\ TypeOK /\ CallOK(c) /\ Consent(c) /\ logs[c] = 0 /\ fp[c] \in Fingerprints
      /\ RegistryTypeOK' /\ UNCHANGED tasks /\ trusted' = trusted
  BY InCall, RegistryKept DEF IInv, TypeOK, CacheMiss, Goto, registryVars
<1>2. TypeOK'
  BY <1>1, ReturnEffect, RegistryAssumption DEF TypeOK, Points, CacheMiss, Goto, gateVars
<1>3. CallOK(c)' /\ Consent(c)'
  BY <1>1, ReturnEffect DEF TypeOK, CallOK, Consent, Cleared, CacheMiss, Goto, gateVars
<1>4. \A b \in Clients \ {c} : /\ pc'[b] = pc[b] /\ task'[b] = task[b]
                                /\ fp'[b] = fp[b] /\ source'[b] = source[b]
                                /\ verdict'[b] = verdict[b] /\ logs'[b] = logs[b]
  BY <1>1, ReturnEffect DEF TypeOK, CacheMiss, Goto, gateVars
<1>. QED  BY <1>1, <1>2, <1>3, <1>4, CallStep

LEMMA ExecuteFailsOK ==
    ASSUME IInv, NEW c \in Clients, ExecuteFails(c) PROVE IInv'
<1>1. /\ TypeOK /\ CallOK(c) /\ Consent(c) /\ logs[c] = 0 /\ fp[c] \in Fingerprints
      /\ RegistryTypeOK' /\ UNCHANGED tasks /\ trusted' = trusted
  BY InCall, RegistryKept DEF IInv, TypeOK, ExecuteFails, registryVars
<1>2. TypeOK'
  BY <1>1, ReturnEffect, RegistryAssumption DEF TypeOK, Points, ExecuteFails, gateVars
<1>3. CallOK(c)' /\ Consent(c)'
  BY <1>1, ReturnEffect DEF TypeOK, CallOK, Consent, Cleared, ExecuteFails, gateVars
<1>4. \A b \in Clients \ {c} : /\ pc'[b] = pc[b] /\ task'[b] = task[b]
                                /\ fp'[b] = fp[b] /\ source'[b] = source[b]
                                /\ verdict'[b] = verdict[b] /\ logs'[b] = logs[b]
  BY <1>1, ReturnEffect DEF TypeOK, ExecuteFails, gateVars
<1>. QED  BY <1>1, <1>2, <1>3, <1>4, CallStep

LEMMA ExecuteSucceedsOK ==
    ASSUME IInv, NEW c \in Clients, ExecuteSucceeds(c) PROVE IInv'
<1>1. /\ TypeOK /\ CallOK(c) /\ Consent(c) /\ logs[c] = 0 /\ fp[c] \in Fingerprints
      /\ RegistryTypeOK' /\ UNCHANGED tasks /\ trusted' = trusted
  BY InCall, RegistryKept DEF IInv, TypeOK, ExecuteSucceeds, StepUnchanged, Goto, registryVars
<1>2. TypeOK'
  BY <1>1, RegistryAssumption DEF TypeOK, Points, ExecuteSucceeds, StepUnchanged, Goto, gateVars
<1>3. CallOK(c)' /\ Consent(c)'
  BY <1>1 DEF TypeOK, CallOK, Consent, Cleared, ExecuteSucceeds, StepUnchanged, Goto, gateVars
<1>4. \A b \in Clients \ {c} : /\ pc'[b] = pc[b] /\ task'[b] = task[b]
                                /\ fp'[b] = fp[b] /\ source'[b] = source[b]
                                /\ verdict'[b] = verdict[b] /\ logs'[b] = logs[b]
  BY <1>1 DEF TypeOK, ExecuteSucceeds, StepUnchanged, Goto, gateVars
<1>. QED  BY <1>1, <1>2, <1>3, <1>4, CallStep

LEMMA PostHookDeniesOK ==
    ASSUME IInv, NEW c \in Clients, PostHookDenies(c) PROVE IInv'
<1>1. /\ TypeOK /\ CallOK(c) /\ Consent(c) /\ logs[c] = 0 /\ fp[c] \in Fingerprints
      /\ RegistryTypeOK' /\ UNCHANGED tasks /\ trusted' = trusted
  BY InCall, RegistryKept DEF IInv, TypeOK, PostHookDenies, registryVars
<1>2. TypeOK'
  BY <1>1, PushEffect, ReturnEffect, RegistryAssumption DEF TypeOK, Points, PostHookDenies, gateVars
<1>3. CallOK(c)' /\ Consent(c)'
  BY <1>1, PushEffect, ReturnEffect DEF TypeOK, CallOK, Consent, Cleared, PostHookDenies, gateVars
<1>4. \A b \in Clients \ {c} : /\ pc'[b] = pc[b] /\ task'[b] = task[b]
                                /\ fp'[b] = fp[b] /\ source'[b] = source[b]
                                /\ verdict'[b] = verdict[b] /\ logs'[b] = logs[b]
  BY <1>1, PushEffect, ReturnEffect DEF TypeOK, PostHookDenies, gateVars
<1>. QED  BY <1>1, <1>2, <1>3, <1>4, CallStep

LEMMA PostHookPassesOK ==
    ASSUME IInv, NEW c \in Clients, PostHookPasses(c) PROVE IInv'
<1>1. /\ TypeOK /\ CallOK(c) /\ Consent(c) /\ logs[c] = 0 /\ fp[c] \in Fingerprints
      /\ RegistryTypeOK' /\ UNCHANGED tasks /\ trusted' = trusted
  BY InCall, RegistryKept DEF IInv, TypeOK, PostHookPasses, StepUnchanged, Goto, registryVars
<1>2. TypeOK'
  BY <1>1, RegistryAssumption DEF TypeOK, Points, PostHookPasses, StepUnchanged, Goto, gateVars
<1>3. CallOK(c)' /\ Consent(c)'
  BY <1>1 DEF TypeOK, CallOK, Consent, Cleared, PostHookPasses, StepUnchanged, Goto, gateVars
<1>4. \A b \in Clients \ {c} : /\ pc'[b] = pc[b] /\ task'[b] = task[b]
                                /\ fp'[b] = fp[b] /\ source'[b] = source[b]
                                /\ verdict'[b] = verdict[b] /\ logs'[b] = logs[b]
  BY <1>1 DEF TypeOK, PostHookPasses, StepUnchanged, Goto, gateVars
<1>. QED  BY <1>1, <1>2, <1>3, <1>4, CallStep

LEMMA LogSuccessOK ==
    ASSUME IInv, NEW c \in Clients, LogSuccess(c) PROVE IInv'
<1>1. /\ TypeOK /\ CallOK(c) /\ Consent(c) /\ logs[c] = 0 /\ fp[c] \in Fingerprints
      /\ RegistryTypeOK' /\ UNCHANGED tasks /\ trusted' = trusted
  BY InCall, RegistryKept DEF IInv, TypeOK, LogSuccess, registryVars
<1>2. logged' \in [TaskIds -> 0 .. OpModulus - 1]
  <2>1. \A n \in 0 .. OpModulus - 1 : (n + 1) % OpModulus \in 0 .. OpModulus - 1
    BY RegistryAssumption
  <2>. QED  BY <1>1, <2>1 DEF LogSuccess, TypeOK
<1>3. TypeOK'
  BY <1>2, <1>1, PushEffect, ReturnEffect DEF TypeOK, LogSuccess, gateVars
<1>4. CallOK(c)' /\ Consent(c)'
  BY <1>1, PushEffect, ReturnEffect DEF TypeOK, CallOK, Consent, Cleared, LogSuccess, gateVars
<1>5. \A b \in Clients \ {c} : /\ pc'[b] = pc[b] /\ task'[b] = task[b]
                                /\ fp'[b] = fp[b] /\ source'[b] = source[b]
                                /\ verdict'[b] = verdict[b] /\ logs'[b] = logs[b]
  BY <1>1, PushEffect, ReturnEffect DEF TypeOK, LogSuccess, gateVars
<1>. QED  BY <1>1, <1>3, <1>4, <1>5, CallStep

LEMMA CallAccepted ==
    ASSUME IInv, NEW c \in Clients, NEW t \in 0 .. next_id - 1,
           NEW f \in Fingerprints, Call(c, t, f)
    PROVE  IInv'
<1>1. /\ TypeOK /\ t \in TaskIds \cup {NoTask} /\ Live \subseteq TaskIds
      /\ RegistryTypeOK' /\ UNCHANGED tasks /\ trusted' = trusted
  BY RegistryKept, RegistryAssumption
     DEF IInv, TypeOK, RegistryTypeOK, Call, registryVars, TaskIds, NoTask
<1>2. TypeOK'
  BY <1>1 DEF TypeOK, Points, Call, Goto, gateVars
<1>3. CallOK(c)' /\ Consent(c)'
  BY <1>1 DEF TypeOK, CallOK, Consent, Cleared, Call, Goto
<1>4. \A b \in Clients \ {c} : /\ pc'[b] = pc[b] /\ task'[b] = task[b]
                                /\ fp'[b] = fp[b] /\ source'[b] = source[b]
                                /\ verdict'[b] = verdict[b] /\ logs'[b] = logs[b]
  BY <1>1 DEF TypeOK, Call, Goto, gateVars
<1>. QED  BY <1>1, <1>2, <1>3, <1>4, CallStep

LEMMA CallRefusedOK ==
    ASSUME IInv, NEW c \in Clients, CallRefused(c) PROVE IInv'
<1>1. TypeOK /\ RegistryTypeOK' /\ UNCHANGED tasks /\ trusted' = trusted
  BY RegistryKept DEF IInv, TypeOK, CallRefused, registryVars
<1>2. TypeOK'
  BY <1>1 DEF TypeOK, CallRefused, gateVars
<1>3. CallOK(c)' /\ Consent(c)'
  BY DEF CallOK, Consent, Cleared, CallRefused
<1>4. \A b \in Clients \ {c} : /\ pc'[b] = pc[b] /\ task'[b] = task[b]
                                /\ fp'[b] = fp[b] /\ source'[b] = source[b]
                                /\ verdict'[b] = verdict[b] /\ logs'[b] = logs[b]
  BY <1>1 DEF TypeOK, CallRefused, gateVars
<1>. QED  BY <1>1, <1>2, <1>3, <1>4, CallStep

-----------------------------------------------------------------------------
(* The confirmation: askConfirm and its result.                            *)

LEMMA AskConfirmOK ==
    ASSUME IInv, NEW c \in Clients, AskConfirm(c) PROVE IInv'
<1>1. /\ TypeOK /\ CallOK(c) /\ logs[c] = 0 /\ fp[c] \in Fingerprints /\ pc[c] = "ask"
      /\ RegistryTypeOK' /\ UNCHANGED tasks /\ trusted' = trusted
  BY InCall, RegistryKept DEF IInv, TypeOK, AskConfirm, AskUnchanged, registryVars
<1>2. /\ open' \subseteq Clients /\ heard' = heard
      /\ verdict' \in [Clients -> Gate!Answers]
      /\ \A b \in Clients \ {c} : verdict'[b] = verdict[b]
      /\ pc'[c] = "decide" => ~verdict'[c].trust
  BY <1>1 DEF AskConfirm, Gate!Ask, Gate!Refuse, Gate!Answers, Gate!Deny, TypeOK, Goto
<1>3. TypeOK'
  BY <1>1, <1>2 DEF TypeOK, Points, AskConfirm, AskUnchanged, StepUnchanged, Goto
<1>4. CallOK(c)' /\ Consent(c)'
  BY <1>1, <1>2 DEF TypeOK, CallOK, Consent, Cleared, AskConfirm, AskUnchanged,
                    StepUnchanged, Goto
<1>5. \A b \in Clients \ {c} : /\ pc'[b] = pc[b] /\ task'[b] = task[b]
                                /\ fp'[b] = fp[b] /\ source'[b] = source[b]
                                /\ verdict'[b] = verdict[b] /\ logs'[b] = logs[b]
  BY <1>1, <1>2 DEF TypeOK, AskConfirm, AskUnchanged, StepUnchanged, Goto
<1>. QED  BY <1>1, <1>3, <1>4, <1>5, CallStep

LEMMA UserSaysOK ==
    ASSUME IInv, NEW c \in Clients, NEW v \in Gate!Answers, UserSays(c, v) PROVE IInv'
<1>1. TypeOK /\ RegistryTypeOK' /\ UNCHANGED tasks /\ trusted' = trusted
  BY RegistryKept DEF IInv, TypeOK, UserSays, AskUnchanged, registryVars
<1>2. open' = open /\ verdict' = verdict /\ heard' \in [Clients -> SUBSET Gate!Answers]
  BY <1>1 DEF UserSays, Gate!Hear, TypeOK
<1>3. TypeOK'
  BY <1>1, <1>2 DEF TypeOK, UserSays, AskUnchanged, StepUnchanged
<1>4. CallOK(c) /\ Consent(c)
  BY DEF IInv, CallConsistent, ExecutedWithConsent, Consent
<1>5. CallOK(c)' /\ Consent(c)'
  BY <1>1, <1>2, <1>4 DEF CallOK, Consent, UserSays, AskUnchanged, StepUnchanged
<1>. QED  BY <1>1, <1>2, <1>3, <1>5, CallStep DEF UserSays, AskUnchanged, StepUnchanged

LEMMA ConfirmReturnsOK ==
    ASSUME IInv, NEW c \in Clients, NEW v \in Gate!Answers, ConfirmReturns(c, v) PROVE IInv'
<1>1. /\ TypeOK /\ CallOK(c) /\ logs[c] = 0 /\ fp[c] \in Fingerprints /\ pc[c] = "asking"
      /\ task[c] \in TaskIds \cup {NoTask}
      /\ RegistryTypeOK' /\ UNCHANGED tasks
  BY InCall, RegistryKept DEF IInv, TypeOK, ConfirmReturns, AskUnchanged, registryVars
<1>2. /\ open' \subseteq Clients
      /\ heard' \in [Clients -> SUBSET Gate!Answers]
      /\ verdict' \in [Clients -> Gate!Answers] /\ verdict'[c] = v
      /\ \A b \in Clients \ {c} : verdict'[b] = verdict[b]
  BY <1>1 DEF ConfirmReturns, Gate!Return, TypeOK
<1>3. /\ trusted \subseteq trusted' /\ trusted' \subseteq TaskIds \X Fingerprints
      /\ v.trust /\ task[c] # NoTask => <<task[c], fp[c]>> \in trusted'
  BY <1>1 DEF ConfirmReturns, TypeOK
<1>4. TypeOK'
  BY <1>1, <1>2, <1>3 DEF TypeOK, Points, ConfirmReturns, AskUnchanged, StepUnchanged, Goto
<1>5. CallOK(c)' /\ Consent(c)'
  BY <1>1, <1>2, <1>3 DEF TypeOK, CallOK, Consent, Cleared, ConfirmReturns, AskUnchanged,
                          StepUnchanged, Goto
<1>6. \A b \in Clients \ {c} : /\ pc'[b] = pc[b] /\ task'[b] = task[b]
                                /\ fp'[b] = fp[b] /\ source'[b] = source[b]
                                /\ verdict'[b] = verdict[b] /\ logs'[b] = logs[b]
  BY <1>1, <1>2 DEF TypeOK, ConfirmReturns, AskUnchanged, StepUnchanged, Goto
<1>. QED  BY <1>1, <1>3, <1>4, <1>5, <1>6, CallStep

\* Trust is cached under the task of the very call the user answered.
LEMMA DecideOK ==
    ASSUME IInv, NEW c \in Clients, Decide(c) PROVE IInv'
<1>1. /\ TypeOK /\ CallOK(c) /\ logs[c] = 0 /\ fp[c] \in Fingerprints /\ pc[c] = "decide"
      /\ task[c] \in TaskIds \cup {NoTask} /\ trusted' = trusted
      /\ UNCHANGED <<initialized, gateVars, logged>>
  BY InCall DEF IInv, TypeOK, Decide
<1>2. RegistryTypeOK' /\ Live' = Live
  BY <1>1, RegistryKept, CacheAuthorizationTyped DEF Decide, TypeOK
<1>3. TrustStaysInItsTask'
  <2>1. CASE ~(verdict[c].trust /\ task[c] # NoTask)
    BY <2>1, <1>1, <1>2, TrustKept DEF Decide, IInv, registryVars
  <2>2. CASE verdict[c].trust /\ task[c] # NoTask
    <3>1. <<task[c], fp[c]>> \in trusted
      BY <1>1, <2>2 DEF CallOK
    <3>2. \A t \in Live : tasks'[t].authorizations
             \subseteq tasks[t].authorizations \cup (IF t = task[c] THEN {fp[c]} ELSE {})
      BY <1>1, <2>2 DEF Decide, CacheAuthorization, TypeOK, RegistryTypeOK, Entries
    <3>. QED  BY <1>1, <1>2, <3>1, <3>2 DEF IInv, TrustStaysInItsTask
  <2>. QED  BY <2>1, <2>2
<1>4. CASE verdict[c].confirmed
  <2>1. /\ source' = [source EXCEPT ![c] = "user_confirm"]
        /\ pc' = [pc EXCEPT ![c] = "execute"]
        /\ UNCHANGED <<task, fp, task_ctx, logs>>
    BY <1>4 DEF Decide, Goto
  <2>2. TypeOK'
    BY <1>1, <1>2, <2>1 DEF TypeOK, Points, gateVars
  <2>3. CallOK(c)' /\ Consent(c)'
    BY <1>1, <1>4, <2>1 DEF TypeOK, CallOK, Consent, Cleared, gateVars
  <2>4. CallConsistent' /\ ExecutedWithConsent'
    BY <1>1, <2>1, <2>3, OnlyOneCall DEF IInv, TypeOK, gateVars
  <2>. QED  BY <1>3, <2>2, <2>4 DEF IInv
<1>5. CASE ~verdict[c].confirmed
  <2>1. PushOpLog(c) /\ Return(c)
    BY <1>5 DEF Decide
  <2>2. TypeOK'
    BY <1>1, <1>2, <2>1, PushEffect, ReturnEffect DEF TypeOK, gateVars
  <2>3. CallOK(c)' /\ Consent(c)'
    BY <1>1, <2>1, ReturnEffect DEF CallOK, Consent, Cleared
  <2>4. CallConsistent' /\ ExecutedWithConsent'
    BY <1>1, <2>1, <2>3, PushEffect, ReturnEffect, OnlyOneCall DEF IInv, gateVars
  <2>. QED  BY <1>3, <2>2, <2>4 DEF IInv
<1>. QED  BY <1>4, <1>5

LEMMA CountOK ==
    ASSUME IInv, NEW c \in Clients, Count(c) PROVE IInv'
<1>1. /\ TypeOK /\ CallOK(c) /\ Consent(c) /\ logs[c] = 0 /\ fp[c] \in Fingerprints
      /\ pc[c] = "count" /\ trusted' = trusted
  BY InCall DEF IInv, Count
<1>2. RegistryTypeOK' /\ Live' = Live
  BY <1>1, IncrementOpCountTyped DEF Count, TypeOK
<1>3. TypeOK'
  BY <1>1, <1>2 DEF TypeOK, Points, Count, StepUnchanged, Goto, gateVars
<1>4. CallOK(c)' /\ Consent(c)'
  BY <1>1 DEF TypeOK, CallOK, Consent, Cleared, Count, StepUnchanged, Goto, gateVars
<1>5. CallConsistent' /\ ExecutedWithConsent'
  BY <1>1, <1>4, OnlyOneCall DEF IInv, TypeOK, Count, StepUnchanged, Goto, gateVars
<1>6. \A t \in Live : tasks'[t].authorizations = tasks[t].authorizations
  BY <1>1 DEF Count, IncrementOpCount, TypeOK, RegistryTypeOK, Entries
<1>7. TrustStaysInItsTask'
  BY <1>1, <1>2, <1>6, TrustKept DEF IInv
<1>. QED  BY <1>3, <1>5, <1>7 DEF IInv

-----------------------------------------------------------------------------
(* Requests that end or begin a task while calls are in progress.          *)

LEMMA ClientBeginsTaskOK ==
    ASSUME IInv, NEW c \in Clients, ClientBeginsTask(c) PROVE IInv'
<1>1. PICK parent \in TaskIds \cup {NoTask}, d \in Descriptions : BeginTask(parent, d)
  BY DEF ClientBeginsTask
<1>2. UNCHANGED <<initialized, gateVars, callVars, trusted, logged>>
  BY DEF ClientBeginsTask
<1>3. TypeOK'
  BY <1>1, <1>2, BeginTaskTyped DEF IInv, TypeOK, gateVars, callVars
<1>4. CallConsistent' /\ ExecutedWithConsent'
  BY <1>2 DEF IInv, CallConsistent, CallOK, ExecutedWithConsent, gateVars, callVars
<1>5. RegistryTypeOK
  BY DEF IInv, TypeOK
<1>6. Live' = Live \cup {next_id} /\ \A t \in Live : tasks'[t] = tasks[t]
  BY <1>1, <1>5, LiveAfterBegin
<1>7. tasks'[next_id].authorizations = {}
  BY <1>1 DEF BeginTask
<1>8. TrustStaysInItsTask'
  BY <1>2, <1>6, <1>7 DEF IInv, TrustStaysInItsTask
<1>. QED  BY <1>3, <1>4, <1>8 DEF IInv

LEMMA ClientEndsTaskOK ==
    ASSUME IInv, NEW c \in Clients, ClientEndsTask(c) PROVE IInv'
<1>1. PICK t \in 1 .. next_id - 1 : EndTask(t)
  BY DEF ClientEndsTask
<1>2. UNCHANGED <<initialized, gateVars, callVars, trusted, logged>>
  BY DEF ClientEndsTask
<1>3. TypeOK'
  BY <1>1, <1>2, EndTaskTyped DEF IInv, TypeOK, gateVars, callVars
<1>4. CallConsistent' /\ ExecutedWithConsent'
  BY <1>2 DEF IInv, CallConsistent, CallOK, ExecutedWithConsent, gateVars, callVars
<1>5. Live' \subseteq Live /\ \A u \in Live' : tasks'[u] = tasks[u]
  BY <1>1, LiveAfterEnd DEF Live
<1>6. TrustStaysInItsTask'
  BY <1>2, <1>5, TrustKept DEF IInv
<1>. QED  BY <1>3, <1>4, <1>6 DEF IInv

LEMMA Unchanged ==
    ASSUME IInv, UNCHANGED <<registryVars, gateVars, callVars, trusted, logged>>,
           initialized' \in BOOLEAN
    PROVE  IInv'
<1>1. TypeOK'
  BY RegistryKept DEF IInv, TypeOK, gateVars, callVars
<1>2. CallConsistent' /\ ExecutedWithConsent' /\ TrustStaysInItsTask'
  BY DEF IInv, CallConsistent, CallOK, ExecutedWithConsent, TrustStaysInItsTask,
         Live, registryVars, gateVars, callVars
<1>. QED  BY <1>1, <1>2 DEF IInv

-----------------------------------------------------------------------------
LEMMA IInvInductive ==
    ASSUME IInv, [Next]_vars PROVE IInv'
<1>1. ASSUME NEW c \in Clients, CallSteps(c) PROVE IInv'
  BY <1>1, PreHookDeniesOK, PreHookPassesOK, CacheHitOK, CacheMissOK, AskConfirmOK,
     DecideOK, ExecuteFailsOK, ExecuteSucceedsOK, PostHookDeniesOK, PostHookPassesOK,
     CountOK, LogSuccessOK, UserSaysOK, ConfirmReturnsOK DEF CallSteps
<1>2. ASSUME NEW c \in Clients,
             \/ ClientBeginsTask(c) \/ ClientEndsTask(c) \/ CallRefused(c)
             \/ \E t \in 0 .. next_id - 1, f \in Fingerprints : Call(c, t, f)
      PROVE  IInv'
  BY <1>2, ClientBeginsTaskOK, ClientEndsTaskOK, CallRefusedOK, CallAccepted
<1>3. CASE Release \/ UNCHANGED vars
  <2>1. UNCHANGED <<registryVars, gateVars, callVars, trusted, logged>>
        /\ initialized' \in BOOLEAN
    BY <1>3 DEF Release, vars, IInv, TypeOK
  <2>. QED  BY <2>1, Unchanged
<1>. QED  BY <1>1, <1>2, <1>3 DEF Next

LEMMA Invariance == Spec => []IInv
  BY InitIInv, IInvInductive, PTL DEF Spec

\* The service's variables have their types in every reachable state, and a
\* call pushes at most one line to the UI's log.
THEOREM TypeCorrect == Spec => []TypeOK
<1>1. IInv => TypeOK
  BY DEF IInv
<1>. QED  BY <1>1, Invariance, PTL

\* callCapability executes nothing that the chain denied, and nothing it wants
\* confirmed without the user's yes to this call or trust in this task.
THEOREM ConsentCorrect == Spec => []ExecutedWithConsent
<1>1. IInv => ExecutedWithConsent
  BY DEF IInv
<1>. QED  BY <1>1, Invariance, PTL

\* The authorisation cache holds nothing its task's user did not choose.
THEOREM TrustCorrect == Spec => []TrustStaysInItsTask
<1>1. IInv => TrustStaysInItsTask
  BY DEF IInv
<1>. QED  BY <1>1, Invariance, PTL

-----------------------------------------------------------------------------
\* The registry's entries after any step: none comes back.
LEMMA NoResurrection ==
    ASSUME IInv, Next, NEW t \in 1 .. next_id - 1, t \notin Live
    PROVE  t \notin Live'
<1>1. RegistryTypeOK
  BY DEF IInv, TypeOK
<1>2. ASSUME NEW c \in Clients, ClientBeginsTask(c) PROVE t \notin Live'
  <2>1. PICK parent \in TaskIds \cup {NoTask}, d \in Descriptions : BeginTask(parent, d)
    BY <1>2 DEF ClientBeginsTask
  <2>2. Live' = Live \cup {next_id}
    BY <2>1 DEF BeginTask, Live
  <2>3. t # next_id
    BY <1>1 DEF RegistryTypeOK
  <2>. QED  BY <2>2, <2>3
<1>3. ASSUME NEW c \in Clients, ClientEndsTask(c) PROVE t \notin Live'
  BY <1>3, LiveAfterEnd DEF ClientEndsTask, Live
<1>4. ASSUME NEW c \in Clients, Decide(c) PROVE t \notin Live'
  <2>1. Live' = Live
    BY <1>1, <1>4, InCall, RegistryKept, CacheAuthorizationTyped DEF Decide
  <2>. QED  BY <2>1
<1>5. ASSUME NEW c \in Clients, Count(c) PROVE t \notin Live'
  BY <1>1, <1>5, IncrementOpCountTyped DEF Count
<1>6. ASSUME UNCHANGED registryVars PROVE t \notin Live'
  BY <1>6 DEF registryVars, Live
<1>7. CASE Release
  BY <1>6, <1>7 DEF Release
<1>8. ASSUME NEW c \in Clients,
             \/ CallRefused(c)
             \/ \E u \in 0 .. next_id - 1, f \in Fingerprints : Call(c, u, f)
      PROVE  t \notin Live'
  BY <1>6, <1>8 DEF CallRefused, Call
<1>9. ASSUME NEW c \in Clients, CallSteps(c) PROVE t \notin Live'
  BY <1>4, <1>5, <1>6, <1>9
     DEF CallSteps, PreHookDenies, PreHookPasses, CacheHit, CacheMiss, AskConfirm,
         ExecuteFails, ExecuteSucceeds, PostHookDenies, PostHookPasses, LogSuccess,
         UserSays, ConfirmReturns, AskUnchanged
<1>. QED  BY <1>2, <1>3, <1>7, <1>8, <1>9 DEF Next

\* Trust dies with the task: no call that was in flight when a task ended
\* revives it, whatever the order of cacheAuthorization, incrementOpCount and
\* endTask.
THEOREM EndedStaysEndedCorrect == Spec => EndedStaysEnded
<1>1. IInv /\ [Next]_vars =>
        [\A t \in 1 .. next_id - 1 : t \notin Live => t \notin Live']_vars
  BY NoResurrection
<1>. QED  BY <1>1, Invariance, PTL DEF Spec, EndedStaysEnded

\* Only checkAuthorization, on a live task, opens the way around the dialog.
THEOREM CacheNeedsLiveTaskCorrect == Spec => CacheNeedsLiveTask
<1> DEFINE FromCache(c) == source[c] # "fingerprint_cache" /\ source'[c] = "fingerprint_cache"
<1>1. ASSUME IInv, Next, NEW b \in Clients, FromCache(b)
      PROVE  task[b] \in Live
  <2>1. source \in [Clients -> {"none", "auto_allow", "fingerprint_cache", "user_confirm"}]
    BY <1>1 DEF IInv, TypeOK
  <2>2. ASSUME NEW c \in Clients, CacheHit(c) PROVE task[b] \in Live
    BY <1>1, <2>1, <2>2 DEF CacheHit, CheckAuthorization
  <2>3. ASSUME NEW c \in Clients, UNCHANGED source \/ Return(c) PROVE FALSE
    BY <1>1, <2>1, <2>3 DEF Return
  <2>4. ASSUME NEW c \in Clients, Decide(c) PROVE FALSE
    BY <1>1, <2>1, <2>3, <2>4 DEF Decide
  <2>5. ASSUME NEW c \in Clients, CallSteps(c) PROVE task[b] \in Live
    BY <2>2, <2>3, <2>4, <2>5
       DEF CallSteps, PreHookDenies, PreHookPasses, CacheMiss, AskConfirm, ExecuteFails,
           ExecuteSucceeds, PostHookDenies, PostHookPasses, Count, LogSuccess, UserSays,
           ConfirmReturns, AskUnchanged
  <2>6. CASE Release
    BY <1>1, <2>6 DEF Release, callVars
  <2>7. ASSUME NEW c \in Clients,
               \/ ClientBeginsTask(c) \/ ClientEndsTask(c) \/ CallRefused(c)
               \/ \E u \in 0 .. next_id - 1, f \in Fingerprints : Call(c, u, f)
        PROVE  FALSE
    BY <1>1, <2>1, <2>7
       DEF ClientBeginsTask, ClientEndsTask, CallRefused, Call, callVars
  <2>. QED  BY <1>1, <2>5, <2>6, <2>7 DEF Next
<1>2. IInv /\ [Next]_vars => [\A c \in Clients : FromCache(c) => task[c] \in Live]_vars
  BY <1>1
<1>. QED  BY <1>2, Invariance, PTL DEF Spec, CacheNeedsLiveTask

-----------------------------------------------------------------------------
(* Counting modulo 2^32.                                                   *)

LEMMA Division ==
    ASSUME NEW m \in Nat \ {0}, NEW a \in Nat
    PROVE  a = m * (a \div m) + (a % m) /\ a % m \in 0 .. m - 1 /\ a \div m \in Nat
OBVIOUS

LEMMA QuotientNotLess ==
    ASSUME NEW m \in Nat \ {0}, NEW q \in Nat, NEW p \in Nat,
           NEW r \in 0 .. m - 1, NEW s \in 0 .. m - 1, m * q + r = m * p + s
    PROVE  ~(q < p)
<1> SUFFICES ASSUME q < p PROVE FALSE
  OBVIOUS
<1>1. PICK d \in Nat : p = q + 1 + d
  <2>1. p - q - 1 \in Nat /\ p = q + 1 + (p - q - 1)
    OBVIOUS
  <2>. QED  BY <2>1
<1>2. m * p = m * q + m + m * d
  BY <1>1
<1>3. m * d \in Nat /\ m * q \in Nat
  OBVIOUS
<1>. QED  BY <1>2, <1>3

\* A sum of which one part was reduced before is reduced to the same.
LEMMA ReducedSum ==
    ASSUME NEW m \in Nat \ {0}, NEW a \in Nat, NEW b \in Nat
    PROVE  ((a % m) + b) % m = (a + b) % m
<1> DEFINE r == a % m
           q == a \div m
<1>1. a = m * q + r /\ r \in 0 .. m - 1 /\ q \in Nat
  BY Division
<1>2. r + b \in Nat /\ a + b \in Nat
  BY <1>1
<1> DEFINE s == (r + b) % m
           p == (r + b) \div m
           u == (a + b) % m
           v == (a + b) \div m
<1> HIDE DEF r
<1>3. r + b = m * p + s /\ s \in 0 .. m - 1 /\ p \in Nat
  BY <1>2, Division
<1>4. a + b = m * v + u /\ u \in 0 .. m - 1 /\ v \in Nat
  BY <1>2, Division
<1> HIDE DEF q, p, s, u, v
<1>5. m * v + u = m * (q + p) + s /\ q + p \in Nat
  BY <1>1, <1>3, <1>4
<1>6. v = q + p
  <2> DEFINE w == q + p
  <2>1. w \in Nat /\ m * v + u = m * w + s /\ m * w + s = m * v + u
    BY <1>5
  <2> HIDE DEF w
  <2>2. ~(v < w) /\ ~(w < v)
    BY <1>3, <1>4, <2>1, QuotientNotLess
  <2>3. v = w
    BY <1>4, <2>1, <2>2
  <2>. QED  BY <2>3 DEF w
<1>7. u = s
  BY <1>3, <1>4, <1>5, <1>6
<1>. QED  BY <1>7 DEF u, s, r

-----------------------------------------------------------------------------
(* The registry's count and the UI's log.                                  *)

Between(t) == {c \in Clients : pc[c] = "log" /\ task[c] = t}
Counted(t) == tasks[t].op_count = (logged[t] + Cardinality(Between(t))) % OpModulus

\* Nobody works under a task that is yet to begin, so a new one starts with
\* neither a count nor a line.
NoneAhead ==
    /\ \A c \in Clients : task[c] < next_id
    /\ \A t \in TaskIds : t >= next_id => logged[t] = 0

CountInv == CountMatchesLog /\ NoneAhead

LEMMA CountMatches == CountMatchesLog <=> \A t \in Live : Counted(t)
BY DEF CountMatchesLog, Counted, Between

LEMMA BetweenFinite ==
    ASSUME NEW t
    PROVE  /\ IsFiniteSet(Between(t)) /\ Cardinality(Between(t)) \in Nat
           /\ IsFiniteSet(Between(t)') /\ Cardinality(Between(t)') \in Nat
<1>1. Between(t) \in SUBSET Clients /\ Between(t)' \in SUBSET Clients
  BY DEF Between
<1>. QED  BY <1>1, ServiceAssumption, FS_Subset, FS_CardinalityType

LEMMA CountInit == Init => CountInv
BY RegistryAssumption
   DEF Init, RegistryInit, CountInv, CountMatchesLog, NoneAhead, Live, NoTask, TaskIds

\* A step that counts nothing, logs nothing and leaves the calls in between
\* where they are; tasks may end.
LEMMA NothingCounted ==
    ASSUME CountInv, Live' \subseteq Live, logged' = logged, next_id' = next_id,
           \A t \in Live' : tasks'[t].op_count = tasks[t].op_count,
           \A c \in Clients : (pc'[c] = "log") <=> (pc[c] = "log"),
           \A c \in Clients : pc[c] = "log" => task'[c] = task[c],
           \A c \in Clients : task'[c] < next_id
    PROVE  CountInv'
<1>1. ASSUME NEW t PROVE Between(t)' = Between(t)
  BY DEF Between
<1>2. \A t \in Live' : Counted(t)'
  BY <1>1, CountMatches DEF CountInv, Counted
<1>3. NoneAhead'
  BY DEF CountInv, NoneAhead
<1>4. CountMatchesLog'
  BY <1>2 DEF CountMatchesLog, Counted, Between
<1>. QED  BY <1>3, <1>4 DEF CountInv

\* A call of connection c that neither counts nor logs in this step.
LEMMA CallUncounted ==
    ASSUME TypeOK, CountInv, NEW c \in Clients, pc[c] # "log", pc'[c] # "log",
           Live' \subseteq Live, logged' = logged, next_id' = next_id,
           \A t \in Live' : tasks'[t].op_count = tasks[t].op_count,
           \A b \in Clients \ {c} : pc'[b] = pc[b] /\ task'[b] = task[b],
           task'[c] < next_id
    PROVE  CountInv'
<1>1. \A b \in Clients : task'[b] < next_id
  BY DEF CountInv, NoneAhead
<1>2. \A b \in Clients : (pc'[b] = "log") <=> (pc[b] = "log")
  OBVIOUS
<1>3. \A b \in Clients : pc[b] = "log" => task'[b] = task[b]
  OBVIOUS
<1>. QED  BY <1>1, <1>2, <1>3, NothingCounted

LEMMA RegistryCountsKept ==
    ASSUME UNCHANGED registryVars
    PROVE  Live' = Live /\ next_id' = next_id /\ \A t \in Live' : tasks'[t].op_count = tasks[t].op_count
BY DEF registryVars, Live

\* incrementOpCount: one more in the registry, one more line to come.
LEMMA CountCounts ==
    ASSUME IInv, CountInv, NEW c \in Clients, Count(c)
    PROVE  CountInv'
<1>1. /\ TypeOK /\ pc[c] = "count" /\ pc' = [pc EXCEPT ![c] = "log"]
      /\ task' = task /\ logged' = logged /\ IncrementOpCount(task[c])
  BY DEF IInv, Count, Goto, StepUnchanged
<1>2. Live' = Live /\ next_id' = next_id
  BY <1>1, IncrementOpCountTyped DEF TypeOK, IncrementOpCount
<1>3. ASSUME NEW t, t = task[c] PROVE Between(t)' = Between(t) \cup {c} /\ c \notin Between(t)
  BY <1>1, <1>3 DEF Between, TypeOK
<1>4. ASSUME NEW t, t # task[c] PROVE Between(t)' = Between(t)
  BY <1>1, <1>4 DEF Between, TypeOK
<1>5. ASSUME NEW t \in Live PROVE Counted(t)'
  <2>1. Counted(t)
    BY CountMatches DEF CountInv
  <2>2. CASE t # task[c]
    <3>1. tasks'[t].op_count = tasks[t].op_count
      BY <1>1, <2>2 DEF IncrementOpCount, TypeOK, RegistryTypeOK, Live
    <3>. QED  BY <1>1, <1>4, <2>1, <2>2, <3>1 DEF Counted
  <2>3. CASE t = task[c]
    <3> DEFINE k == Cardinality(Between(t))
    <3>1. Cardinality(Between(t)') = k + 1 /\ k \in Nat
      <4> DEFINE A == Between(t)
                 B == Between(t)'
      <4>1. IsFiniteSet(A) /\ B = A \cup {c} /\ c \notin A /\ Cardinality(A) \in Nat
        BY <1>3, <2>3, BetweenFinite
      <4> HIDE DEF A, B
      <4>2. Cardinality(B) = Cardinality(A) + 1
        BY <4>1, FS_AddElement
      <4>. QED  BY <4>1, <4>2 DEF A, B
    <3>2. tasks'[t].op_count = (tasks[t].op_count + 1) % OpModulus
      BY <1>1, <2>3 DEF IncrementOpCount, TypeOK, RegistryTypeOK, Entries, Live
    <3>3. logged[t] \in Nat /\ OpModulus \in Nat \ {0}
      BY <1>1, <2>3, RegistryAssumption DEF TypeOK, RegistryTypeOK, TaskIds
    <3> HIDE DEF k
    <3>4. (((logged[t] + k) % OpModulus) + 1) % OpModulus = (logged[t] + (k + 1)) % OpModulus
      <4>1. logged[t] + k \in Nat /\ (logged[t] + k) + 1 = logged[t] + (k + 1)
        BY <3>1, <3>3
      <4>. QED  BY <4>1, <3>3, ReducedSum
    <3>. QED  BY <1>1, <2>1, <3>1, <3>2, <3>4 DEF Counted, k
  <2>. QED  BY <2>2, <2>3
<1>6. CountMatchesLog'
  BY <1>2, <1>5 DEF CountMatchesLog, Counted, Between
<1>. QED  BY <1>1, <1>2, <1>6 DEF CountInv, NoneAhead

\* The line of a call whose task has ended meanwhile counts for nobody.
LEMMA LogSuccessLogs ==
    ASSUME IInv, CountInv, NEW c \in Clients, LogSuccess(c)
    PROVE  CountInv'
<1>1. /\ TypeOK /\ pc[c] = "log" /\ UNCHANGED registryVars
      /\ pc' = [pc EXCEPT ![c] = "idle"] /\ task' = [task EXCEPT ![c] = NoTask]
      /\ logged' = IF task[c] \in Live THEN [logged EXCEPT ![task[c]] = (@ + 1) % OpModulus]
                   ELSE logged
  BY DEF IInv, LogSuccess, Return, Goto
<1>2. Live' = Live /\ next_id' = next_id /\ tasks' = tasks
  BY <1>1 DEF registryVars, Live
<1>3. NoneAhead'
  <2>1. \A b \in Clients : task'[b] < next_id
    BY <1>1 DEF TypeOK, RegistryTypeOK, CountInv, NoneAhead, NoTask
  <2>2. \A t \in TaskIds : t >= next_id => t \notin Live
    BY <1>1 DEF TypeOK, RegistryTypeOK, TaskIds
  <2>3. \A t \in TaskIds : t >= next_id => logged'[t] = logged[t]
    BY <1>1, <2>2 DEF TypeOK
  <2>. QED  BY <1>2, <2>1, <2>3 DEF CountInv, NoneAhead
<1>4. ASSUME NEW t \in Live PROVE Counted(t)'
  <2>1. Counted(t) /\ t \in TaskIds /\ t # NoTask
    BY <1>1, CountMatches, RegistryAssumption DEF CountInv, TypeOK, RegistryTypeOK, TaskIds, NoTask
  <2>2. CASE t # task[c]
    <3>1. Between(t)' = Between(t)
      BY <1>1, <2>1, <2>2 DEF Between, TypeOK
    <3>2. logged'[t] = logged[t]
      BY <1>1, <2>1, <2>2 DEF TypeOK
    <3>. QED  BY <1>2, <2>1, <3>1, <3>2 DEF Counted
  <2>3. CASE t = task[c]
    <3> DEFINE k == Cardinality(Between(t)')
    <3>1. Between(t)' = Between(t) \ {c} /\ c \in Between(t)
      BY <1>1, <2>1, <2>3 DEF Between, TypeOK
    <3>2. Cardinality(Between(t)) = k + 1 /\ k \in Nat
      <4> DEFINE A == Between(t)
                 B == Between(t)'
      <4>1. /\ IsFiniteSet(A) /\ B = A \ {c} /\ c \in A
            /\ Cardinality(A) \in Nat /\ Cardinality(B) \in Nat
        BY <3>1, BetweenFinite
      <4> HIDE DEF A, B
      <4>2. Cardinality(B) = Cardinality(A) - 1
        BY <4>1, FS_RemoveElement
      <4>. QED  BY <4>1, <4>2 DEF A, B
    <3>3. logged'[t] = (logged[t] + 1) % OpModulus
      BY <1>1, <2>1, <2>3 DEF TypeOK
    <3>4. logged[t] \in Nat /\ OpModulus \in Nat \ {0}
      BY <1>1, <2>1, RegistryAssumption DEF TypeOK
    <3> HIDE DEF k
    <3>5. (((logged[t] + 1) % OpModulus) + k) % OpModulus = (logged[t] + (k + 1)) % OpModulus
      <4>1. logged[t] + 1 \in Nat /\ (logged[t] + 1) + k = logged[t] + (k + 1)
        BY <3>2, <3>4
      <4> DEFINE l == logged[t] + 1
      <4> HIDE DEF l
      <4>2. l \in Nat /\ k \in Nat /\ OpModulus \in Nat \ {0}
        BY <4>1, <3>2, <3>4 DEF l
      <4>3. ((l % OpModulus) + k) % OpModulus = (l + k) % OpModulus
        BY <4>2, ReducedSum
      <4>. QED  BY <4>1, <4>3 DEF l
    <3>. QED  BY <1>2, <2>1, <3>2, <3>3, <3>5 DEF Counted, k
  <2>. QED  BY <2>2, <2>3
<1>5. CountMatchesLog'
  BY <1>2, <1>4 DEF CountMatchesLog, Counted, Between
<1>. QED  BY <1>3, <1>5 DEF CountInv

\* A task begins at zero: its id was never used before.
LEMMA BeginCounts ==
    ASSUME IInv, CountInv, NEW c \in Clients, ClientBeginsTask(c)
    PROVE  CountInv'
<1>1. PICK parent \in TaskIds \cup {NoTask}, d \in Descriptions : BeginTask(parent, d)
  BY DEF ClientBeginsTask
<1>2. TypeOK /\ RegistryTypeOK /\ UNCHANGED <<pc, task, logged>>
  BY DEF IInv, TypeOK, ClientBeginsTask, callVars
<1>3. /\ next_id \in TaskIds /\ next_id' = next_id + 1
      /\ Live' = Live \cup {next_id} /\ next_id \notin Live
      /\ \A t \in Live : tasks'[t] = tasks[t]
  BY <1>1, <1>2, LiveAfterBegin
<1>4. tasks'[next_id].op_count = 0
  BY <1>1 DEF BeginTask
<1>5. ASSUME NEW t PROVE Between(t)' = Between(t)
  BY <1>2 DEF Between
<1>6. \A t \in Live : Counted(t)'
  BY <1>2, <1>3, <1>5, CountMatches DEF CountInv, Counted
<1>7. ASSUME NEW t, t = next_id PROVE Counted(t)'
  <2>1. t \in TaskIds /\ t >= next_id /\ t # NoTask
    BY <1>3, <1>7 DEF TaskIds, NoTask
  <2>2. Between(t) = {}
    BY <1>2, <1>7, <2>1 DEF Between, CountInv, NoneAhead, TypeOK, RegistryTypeOK
  <2>3. logged[t] = 0 /\ tasks'[t].op_count = 0
    BY <1>4, <1>7, <2>1 DEF CountInv, NoneAhead
  <2>4. 0 = (0 + Cardinality({})) % OpModulus
    BY FS_EmptySet, RegistryAssumption
  <2>. QED  BY <1>2, <1>5, <2>2, <2>3, <2>4 DEF Counted
<1>8. NoneAhead'
  <2>1. \A b \in Clients : task[b] \in Nat /\ task[b] < next_id
    BY <1>2 DEF CountInv, NoneAhead, TypeOK, TaskIds, NoTask
  <2>2. next_id \in Nat /\ next_id' = next_id + 1
    BY <1>3 DEF TaskIds
  <2>3. \A b \in Clients : task'[b] < next_id'
    BY <1>2, <2>1, <2>2
  <2>4. \A t \in TaskIds : t >= next_id' => t >= next_id
    BY <2>2 DEF TaskIds
  <2>5. \A t \in TaskIds : t >= next_id' => logged'[t] = 0
    BY <1>2, <2>4 DEF CountInv, NoneAhead
  <2>. QED  BY <2>3, <2>5 DEF NoneAhead
<1>9. CountMatchesLog'
  BY <1>3, <1>6, <1>7 DEF CountMatchesLog, Counted, Between
<1>. QED  BY <1>8, <1>9 DEF CountInv

LEMMA EndCounts ==
    ASSUME IInv, CountInv, NEW c \in Clients, ClientEndsTask(c)
    PROVE  CountInv'
<1>1. PICK t \in 1 .. next_id - 1 : EndTask(t)
  BY DEF ClientEndsTask
<1>2. /\ Live' \subseteq Live /\ next_id' = next_id
      /\ \A u \in Live' : tasks'[u].op_count = tasks[u].op_count
  BY <1>1, LiveAfterEnd DEF Live
<1>3. UNCHANGED <<pc, task, logged>> /\ \A b \in Clients : task[b] < next_id
  BY DEF ClientEndsTask, callVars, CountInv, NoneAhead
<1>. QED  BY <1>2, <1>3, NothingCounted

\* An authorisation is no operation.
LEMMA DecideCounts ==
    ASSUME IInv, CountInv, NEW c \in Clients, Decide(c)
    PROVE  CountInv'
<1>1. TypeOK /\ pc[c] = "decide" /\ fp[c] \in Fingerprints /\ logged' = logged
  BY InCall DEF IInv, Decide
<1>2. /\ Live' = Live /\ next_id' = next_id
      /\ \A t \in Live' : tasks'[t].op_count = tasks[t].op_count
  <2>1. CASE UNCHANGED registryVars
    BY <2>1, RegistryCountsKept
  <2>2. CASE CacheAuthorization(task[c], fp[c])
    <3>1. Live' = Live
      BY <1>1, <2>2, CacheAuthorizationTyped DEF TypeOK
    <3>. QED  BY <1>1, <2>2, <3>1 DEF CacheAuthorization, TypeOK, RegistryTypeOK, Entries, Live
  <2>. QED  BY <2>1, <2>2 DEF Decide
<1>3. /\ pc'[c] \in {"execute", "idle"} /\ task'[c] \in {task[c], NoTask}
      /\ \A b \in Clients \ {c} : pc'[b] = pc[b] /\ task'[b] = task[b]
  BY <1>1 DEF Decide, Return, Goto, TypeOK
<1>4. task'[c] < next_id
  BY <1>1, <1>3 DEF CountInv, NoneAhead, NoTask, TypeOK, RegistryTypeOK
<1>. QED  BY <1>1, <1>2, <1>3, <1>4, CallUncounted

\* The steps of a call between the first check and the last.
LEMMA OthersCount ==
    ASSUME IInv, CountInv, NEW c \in Clients,
           \/ PreHookDenies(c) \/ PreHookPasses(c) \/ CacheHit(c) \/ CacheMiss(c)
           \/ AskConfirm(c) \/ ExecuteFails(c) \/ ExecuteSucceeds(c)
           \/ PostHookDenies(c) \/ PostHookPasses(c)
           \/ \E v \in Gate!Answers : ConfirmReturns(c, v)
    PROVE  CountInv'
<1>1. /\ TypeOK /\ UNCHANGED registryVars /\ logged' = logged /\ pc[c] # "log"
  BY DEF IInv, PreHookDenies, PreHookPasses, CacheHit, CacheMiss, AskConfirm, ExecuteFails,
         ExecuteSucceeds, PostHookDenies, PostHookPasses, ConfirmReturns, AskUnchanged
<1>2. \/ Return(c)
      \/ task' = task /\ \E point \in Points \ {"log"} : Goto(c, point)
  <2>1. CASE PreHookDenies(c) \/ ExecuteFails(c) \/ PostHookDenies(c)
    BY <2>1 DEF PreHookDenies, ExecuteFails, PostHookDenies
  <2>2. CASE PreHookPasses(c) \/ CacheHit(c) \/ ExecuteSucceeds(c) \/ PostHookPasses(c)
    BY <2>2 DEF PreHookPasses, CacheHit, ExecuteSucceeds, PostHookPasses, StepUnchanged, Points
  <2>3. CASE CacheMiss(c)
    BY <2>3 DEF CacheMiss, Points
  <2>4. CASE AskConfirm(c) \/ \E v \in Gate!Answers : ConfirmReturns(c, v)
    BY <2>4 DEF AskConfirm, ConfirmReturns, AskUnchanged, StepUnchanged, Points
  <2>. QED  BY <2>1, <2>2, <2>3, <2>4
<1>3. /\ pc'[c] # "log" /\ task'[c] \in {task[c], NoTask}
      /\ \A b \in Clients \ {c} : pc'[b] = pc[b] /\ task'[b] = task[b]
  BY <1>1, <1>2 DEF Return, Goto, TypeOK, Points
<1>4. task'[c] < next_id
  BY <1>1, <1>3 DEF CountInv, NoneAhead, NoTask, TypeOK, RegistryTypeOK
<1>. QED  BY <1>1, <1>3, <1>4, RegistryCountsKept, CallUncounted

LEMMA CallCounts ==
    ASSUME IInv, CountInv, NEW c \in Clients, NEW t \in 0 .. next_id - 1,
           NEW f \in Fingerprints, Call(c, t, f)
    PROVE  CountInv'
<1>1. /\ TypeOK /\ UNCHANGED registryVars /\ logged' = logged /\ pc[c] = "idle"
      /\ pc' = [pc EXCEPT ![c] = "prehook"] /\ task' = [task EXCEPT ![c] = t]
  BY DEF IInv, Call, Goto
<1>2. /\ pc'[c] = "prehook" /\ task'[c] < next_id
      /\ \A b \in Clients \ {c} : pc'[b] = pc[b] /\ task'[b] = task[b]
  BY <1>1 DEF TypeOK, RegistryTypeOK
<1>. QED  BY <1>1, <1>2, RegistryCountsKept, CallUncounted

LEMMA IdleCounts ==
    ASSUME CountInv, UNCHANGED <<registryVars, pc, task, logged>>
    PROVE  CountInv'
<1>1. \A c \in Clients : task[c] < next_id
  BY DEF CountInv, NoneAhead
<1>. QED  BY <1>1, RegistryCountsKept, NothingCounted

LEMMA CountInductive ==
    ASSUME IInv, CountInv, [Next]_vars
    PROVE  CountInv'
<1>1. ASSUME NEW c \in Clients, CallSteps(c) PROVE CountInv'
  <2>1. ASSUME NEW v \in Gate!Answers, UserSays(c, v) PROVE CountInv'
    BY <2>1, IdleCounts DEF UserSays, AskUnchanged, StepUnchanged
  <2>. QED  BY <1>1, <2>1, CountCounts, LogSuccessLogs, DecideCounts, OthersCount DEF CallSteps
<1>2. ASSUME NEW c \in Clients, CallRefused(c) PROVE CountInv'
  BY <1>2, IdleCounts DEF CallRefused
<1>3. ASSUME NEW c \in Clients, ClientBeginsTask(c) \/ ClientEndsTask(c) PROVE CountInv'
  BY <1>3, BeginCounts, EndCounts
<1>4. CASE Release \/ UNCHANGED vars
  BY <1>4, IdleCounts DEF Release, vars, callVars
<1>. QED  BY <1>1, <1>2, <1>3, <1>4, CallCounts DEF Next

\* A live task has counted exactly the operations that were logged as successful
\* and those whose line is still to be pushed, for any number of connections and
\* tasks, whichever tasks end meanwhile and however often the counter wraps.
THEOREM CountMatchesLogCorrect == Spec => []CountMatchesLog
<1>1. CountInv => CountMatchesLog
  BY DEF CountInv
<1>. QED  BY <1>1, CountInit, CountInductive, Invariance, PTL DEF Spec

-----------------------------------------------------------------------------
(* The request path uses the registry and askConfirm as they are specified. *)

\* The registry's part of every step is a step of the registry by itself.
LEMMA RegistryStep ==
    ASSUME IInv, [Next]_vars
    PROVE  [RegistryNext]_registryVars
<1>1. TypeOK /\ RegistryTypeOK
  BY DEF IInv, TypeOK
<1>2. ASSUME NEW c \in Clients, ClientBeginsTask(c) PROVE RegistryNext
  BY <1>2 DEF ClientBeginsTask, RegistryNext
<1>3. ASSUME NEW c \in Clients, ClientEndsTask(c) PROVE RegistryNext
  <2>1. 1 .. next_id - 1 \subseteq TaskIds
    BY <1>1, RegistryAssumption DEF RegistryTypeOK, TaskIds
  <2>. QED  BY <1>3, <2>1 DEF ClientEndsTask, RegistryNext
<1>4. ASSUME NEW c \in Clients, Decide(c) PROVE [RegistryNext]_registryVars
  <2>1. CASE UNCHANGED registryVars
    BY <2>1
  <2>2. CASE task[c] # NoTask /\ CacheAuthorization(task[c], fp[c])
    <3>1. task[c] \in TaskIds /\ fp[c] \in Fingerprints
      BY <1>1, <1>4, <2>2, InCall DEF TypeOK, Decide
    <3>. QED  BY <2>2, <3>1 DEF RegistryNext
  <2>. QED  BY <1>4, <2>1, <2>2 DEF Decide
<1>5. ASSUME NEW c \in Clients, Count(c) PROVE [RegistryNext]_registryVars
  <2>1. CASE task[c] \in TaskIds
    BY <1>5, <2>1 DEF Count, RegistryNext
  <2>2. CASE task[c] = NoTask
    BY <1>1, <1>5, <2>2 DEF Count, IncrementOpCount, RegistryTypeOK, NoTask, registryVars
  <2>. QED  BY <1>1, <2>1, <2>2 DEF TypeOK
<1>6. ASSUME NEW c \in Clients, CallSteps(c) PROVE [RegistryNext]_registryVars
  BY <1>4, <1>5, <1>6
     DEF CallSteps, PreHookDenies, PreHookPasses, CacheHit, CacheMiss, AskConfirm,
         ExecuteFails, ExecuteSucceeds, PostHookDenies, PostHookPasses, LogSuccess,
         UserSays, ConfirmReturns, AskUnchanged
<1>7. ASSUME NEW c \in Clients,
             \/ CallRefused(c)
             \/ \E u \in 0 .. next_id - 1, f \in Fingerprints : Call(c, u, f)
      PROVE  UNCHANGED registryVars
  BY <1>7 DEF CallRefused, Call
<1>8. CASE Release \/ UNCHANGED vars
  BY <1>8 DEF Release, vars
<1>. QED  BY <1>2, <1>3, <1>6, <1>7, <1>8 DEF Next

\* Connections and calls in any order do nothing to the registry that its own
\* specification does not allow, so that what is proved of it holds here.
THEOREM ServiceImplementsRegistry == Spec => RegistrySpec
<1>1. Init => RegistryInit
  BY DEF Init
<1>. QED  BY <1>1, RegistryStep, Invariance, PTL DEF Spec, RegistrySpec

\* In the daemon, too, a sub-task cannot replace the trust anchor of its tree.
THEOREM ServiceKeepsAnchors == Spec => []RootAnchored
<1>. QED  BY ServiceImplementsRegistry, RootAnchoredCorrect, PTL

LEMMA GateStep ==
    ASSUME IInv, [Next]_vars
    PROVE  [Gate!Next]_(Gate!gateVars)
<1> USE DEF Gate!gateVars, gateVars
<1>1. ASSUME NEW c \in Clients, AskConfirm(c) PROVE Gate!Next
  BY <1>1 DEF AskConfirm, Gate!Next
<1>2. ASSUME NEW c \in Clients, NEW v \in Gate!Answers, UserSays(c, v) \/ ConfirmReturns(c, v)
      PROVE  Gate!Next
  BY <1>2 DEF UserSays, ConfirmReturns, Gate!Next
<1>3. ASSUME NEW c \in Clients, CallSteps(c) PROVE [Gate!Next]_(Gate!gateVars)
  BY <1>1, <1>2, <1>3
     DEF CallSteps, PreHookDenies, PreHookPasses, CacheHit, CacheMiss, Decide, ExecuteFails,
         ExecuteSucceeds, PostHookDenies, PostHookPasses, Count, LogSuccess
<1>4. ASSUME NEW c \in Clients,
             \/ ClientBeginsTask(c) \/ ClientEndsTask(c) \/ CallRefused(c)
             \/ \E u \in 0 .. next_id - 1, f \in Fingerprints : Call(c, u, f)
      PROVE  UNCHANGED Gate!gateVars
  BY <1>4 DEF ClientBeginsTask, ClientEndsTask, CallRefused, Call
<1>5. CASE Release \/ UNCHANGED vars
  BY <1>5 DEF Release, vars
<1>. QED  BY <1>3, <1>4, <1>5 DEF Next

\* callCapability calls askConfirm as its contract allows: the contract that the
\* UI service is proved to keep (UIService_proofs) is the one that is used here.
THEOREM ServiceUsesGate == Spec => Gate!Spec
<1>1. Init => Gate!Init
  BY DEF Init
<1>. QED  BY <1>1, GateStep, Invariance, PTL DEF Spec, Gate!Spec

-----------------------------------------------------------------------------
(* The security chain: which verdict the request path is given, for any     *)
(* number of modules and any verdicts of theirs.                            *)

\* Induction on the natural numbers, from their well-foundedness.
LEMMA InductionInNat ==
    ASSUME NEW S, 0 \in S, \A n \in Nat : n \in S => n + 1 \in S
    PROVE  Nat \subseteq S
<1> DEFINE R == OpToRel(<, Nat)
           T == Nat \ S
<1>1. SUFFICES ASSUME T # {} PROVE FALSE
  OBVIOUS
<1>2. PICK x \in T : \A y \in T : ~ (<<y, x>> \in R)
  <2>1. IsWellFoundedOn(R, Nat)
    BY NatLessThanWellFounded
  <2>2. T \subseteq Nat
    OBVIOUS
  <2> QED
    BY <1>1, <2>1, <2>2, WFMin
<1> HIDE DEF R
<1>3. x # 0 /\ x \in Nat /\ x - 1 \in Nat
  BY <1>2
<1>4. <<x - 1, x>> \in R
  BY <1>3 DEF OpToRel, R
<1>5. x - 1 \in S
  BY <1>2, <1>3, <1>4
<1>6. (x - 1) + 1 \in S
  BY <1>3, <1>5
<1> QED
  BY <1>2, <1>3, <1>6

\* The hook is the loop its definition says: one module a turn.
LEMMA DriveStep ==
    ASSUME NEW chain, NEW act, Len(chain) \in Nat
    PROVE  Drive(chain, act) =
             [n \in 0 .. Len(chain) |->
                IF n = 0 THEN [action |-> "Pass", reason |-> "none", driven |-> <<>>]
                ELSE DriveOne(act, Drive(chain, act)[n - 1], chain[n])]
<1> DEFINE start == [action |-> "Pass", reason |-> "none", driven |-> <<>>]
<1> HIDE DEF start
<1> DEFINE Is(f, k) == f = [n \in 0 .. k |->
                              IF n = 0 THEN start ELSE DriveOne(act, f[n - 1], chain[n])]
           S == {k \in Nat : \E f : Is(f, k)}
<1>1. 0 \in S
  <2> DEFINE f == [n \in 0 .. 0 |-> start]
  <2>1. Is(f, 0)
    OBVIOUS
  <2> QED
    BY <2>1
<1>2. ASSUME NEW k \in Nat, k \in S
      PROVE  k + 1 \in S
  <2>1. PICK f : Is(f, k)
    BY <1>2
  <2> DEFINE g == [n \in 0 .. k + 1 |->
                     IF n <= k THEN f[n] ELSE DriveOne(act, f[k], chain[k + 1])]
  <2>2. \A n \in 0 .. k : g[n] = f[n]
    OBVIOUS
  <2>3. ASSUME NEW n \in 0 .. k + 1
        PROVE  g[n] = IF n = 0 THEN start ELSE DriveOne(act, g[n - 1], chain[n])
    <3>1. CASE n <= k
      BY <2>1, <2>2, <3>1
    <3>2. CASE n = k + 1
      BY <2>2, <3>2
    <3> QED
      BY <3>1, <3>2
  <2>4. Is(g, k + 1)
    BY <2>3
  <2> HIDE DEF g, Is
  <2> QED
    BY <2>4
<1> HIDE DEF S
<1>3. Len(chain) \in S
  BY <1>1, <1>2, InductionInNat
<1>4. \E f : Is(f, Len(chain))
  BY <1>3 DEF S
<1> QED
  BY <1>4 DEF Drive, start

\* A chain of modules, and the position of the first of them, among the first
\* n, whose verdict is v.
Chains(Modules) == Seq([priority : Int, module : Modules])
Says(chain, act, i, v) == act[chain[i].module] = v
FirstToSay(chain, act, n, i, v) ==
    i \in 1 .. n /\ Says(chain, act, i, v) /\ \A j \in 1 .. i - 1 : ~ Says(chain, act, j, v)
NobodySays(chain, act, n, v) == \A i \in 1 .. n : ~ Says(chain, act, i, v)
Named(chain, n) == [i \in 1 .. n |-> chain[i].module]

\* What the loop holds after n turns.  A module's Deny is final, names that
\* module and keeps the modules after it from being asked; short of that, the
\* first module that asks for a confirmation is named and all are driven.
Strictest(chain, act, n, acc) ==
    \/ \E i \in 1 .. n :
          /\ FirstToSay(chain, act, n, i, "Deny")
          /\ acc = [action |-> "Deny", reason |-> chain[i].module, driven |-> Named(chain, i)]
    \/ /\ NobodySays(chain, act, n, "Deny")
       /\ \E i \in 1 .. n :
             /\ FirstToSay(chain, act, n, i, "NeedConfirm")
             /\ acc = [action |-> "NeedConfirm", reason |-> chain[i].module,
                       driven |-> Named(chain, n)]
    \/ /\ NobodySays(chain, act, n, "Deny")
       /\ NobodySays(chain, act, n, "NeedConfirm")
       /\ acc = [action |-> "Pass", reason |-> "none", driven |-> Named(chain, n)]

LEMMA EntriesTyped ==
    ASSUME NEW Modules, NEW chain \in Chains(Modules), NEW i \in 1 .. Len(chain)
    PROVE  /\ chain[i] \in [priority : Int, module : Modules]
           /\ chain[i].priority \in Int /\ chain[i].module \in Modules
<1> DEFINE E == [priority : Int, module : Modules]
<1>1. chain \in Seq(E)
  BY DEF Chains
<1> HIDE DEF E
<1>2. chain[i] \in E
  BY <1>1
<1> QED
  BY <1>2 DEF E

LEMMA NamedGrows ==
    ASSUME NEW Modules, NEW chain \in Chains(Modules), NEW n \in 0 .. Len(chain) - 1
    PROVE  Append(Named(chain, n), chain[n + 1].module) = Named(chain, n + 1)
<1>1. \A i \in 1 .. Len(chain) : chain[i].module \in Modules
  BY EntriesTyped
<1>2. Len(chain) \in Nat
  BY DEF Chains
<1>3. Named(chain, n) \in Seq(Modules) /\ Len(Named(chain, n)) = n
  <2>1. Named(chain, n) \in [1 .. n -> Modules]
    BY <1>1, <1>2 DEF Named
  <2>2. n \in Nat
    BY <1>2
  <2> QED
    BY <2>1, <2>2
<1> QED
  BY <1>1, <1>2, <1>3 DEF Named

LEMMA StrictestStep ==
    ASSUME NEW Modules, NEW chain \in Chains(Modules), NEW act,
           NEW n \in 0 .. Len(chain) - 1, NEW acc, Strictest(chain, act, n, acc)
    PROVE  Strictest(chain, act, n + 1, DriveOne(act, acc, chain[n + 1]))
<1> DEFINE m == n + 1
           next == DriveOne(act, acc, chain[n + 1])
<1>1. n \in Nat /\ m \in 1 .. Len(chain) /\ m \in 1 .. m /\ m - 1 = n
  BY DEF Chains
<1>2. 1 .. m = (1 .. n) \cup {m}
  BY <1>1
<1>3. Append(Named(chain, n), chain[m].module) = Named(chain, m)
  BY NamedGrows
<1> HIDE DEF m
<1>4. ASSUME NEW v
      PROVE  /\ \A i : FirstToSay(chain, act, n, i, v) => FirstToSay(chain, act, m, i, v)
             /\ NobodySays(chain, act, n, v) /\ Says(chain, act, m, v)
                   => FirstToSay(chain, act, m, m, v)
             /\ NobodySays(chain, act, n, v) /\ ~ Says(chain, act, m, v)
                   => NobodySays(chain, act, m, v)
  BY <1>1, <1>2 DEF FirstToSay, NobodySays
<1>5. CASE \E i \in 1 .. n :
              /\ FirstToSay(chain, act, n, i, "Deny")
              /\ acc = [action |-> "Deny", reason |-> chain[i].module,
                        driven |-> Named(chain, i)]
  <2>1. DriveOne(act, acc, chain[m]) = acc
    BY <1>5 DEF DriveOne
  <2> QED
    BY <1>2, <1>4, <1>5, <2>1 DEF Strictest, m
<1>6. CASE /\ NobodySays(chain, act, n, "Deny")
           /\ acc.action # "Deny"
           /\ acc.driven = Named(chain, n)
           /\ Says(chain, act, m, "Deny")
  <2>1. DriveOne(act, acc, chain[m]) =
          [action |-> "Deny", reason |-> chain[m].module, driven |-> Named(chain, m)]
    BY <1>3, <1>6 DEF DriveOne, Says
  <2>2. FirstToSay(chain, act, m, m, "Deny")
    BY <1>4, <1>6
  <2> QED
    BY <1>1, <2>1, <2>2 DEF Strictest, m
<1>7. CASE /\ NobodySays(chain, act, n, "Deny")
           /\ \E i \in 1 .. n :
                 /\ FirstToSay(chain, act, n, i, "NeedConfirm")
                 /\ acc = [action |-> "NeedConfirm", reason |-> chain[i].module,
                           driven |-> Named(chain, n)]
           /\ ~ Says(chain, act, m, "Deny")
  <2>1. PICK i \in 1 .. n :
          /\ FirstToSay(chain, act, n, i, "NeedConfirm")
          /\ acc = [action |-> "NeedConfirm", reason |-> chain[i].module,
                    driven |-> Named(chain, n)]
    BY <1>7
  <2>2. DriveOne(act, acc, chain[m]) =
          [action |-> "NeedConfirm", reason |-> chain[i].module, driven |-> Named(chain, m)]
    BY <1>3, <1>7, <2>1 DEF DriveOne, Says
  <2>3. FirstToSay(chain, act, m, i, "NeedConfirm") /\ i \in 1 .. m
    BY <1>2, <1>4, <2>1
  <2>4. NobodySays(chain, act, m, "Deny")
    BY <1>4, <1>7
  <2> QED
    BY <2>2, <2>3, <2>4 DEF Strictest, m
<1>8. CASE /\ NobodySays(chain, act, n, "Deny")
           /\ NobodySays(chain, act, n, "NeedConfirm")
           /\ acc = [action |-> "Pass", reason |-> "none", driven |-> Named(chain, n)]
           /\ ~ Says(chain, act, m, "Deny")
  <2>1. NobodySays(chain, act, m, "Deny")
    BY <1>4, <1>8
  <2>2. CASE Says(chain, act, m, "NeedConfirm")
    <3>1. DriveOne(act, acc, chain[m]) =
            [action |-> "NeedConfirm", reason |-> chain[m].module, driven |-> Named(chain, m)]
      BY <1>3, <1>8, <2>2 DEF DriveOne, Says
    <3>2. FirstToSay(chain, act, m, m, "NeedConfirm")
      BY <1>4, <1>8, <2>2
    <3> QED
      BY <1>1, <2>1, <3>1, <3>2 DEF Strictest, m
  <2>3. CASE ~ Says(chain, act, m, "NeedConfirm")
    <3>1. DriveOne(act, acc, chain[m]) =
            [action |-> "Pass", reason |-> "none", driven |-> Named(chain, m)]
      BY <1>3, <1>8, <2>3 DEF DriveOne, Says
    <3>2. NobodySays(chain, act, m, "NeedConfirm")
      BY <1>4, <1>8, <2>3
    <3> QED
      BY <2>1, <3>1, <3>2 DEF Strictest, m
  <2> QED
    BY <2>2, <2>3
<1> QED
  BY <1>5, <1>6, <1>7, <1>8 DEF Strictest

\* The strictest verdict wins, whatever the number of modules, their order and
\* their verdicts: Deny if one denies (the first to deny gives the reason and
\* the modules after it are not asked), else NeedConfirm if one asks (the first
\* to ask gives the reason), else Pass (SecurityChain::runPreHook, runPostHook).
THEOREM StrictestWins ==
    ASSUME NEW Modules, NEW chain \in Chains(Modules), NEW act
    PROVE  Strictest(chain, act, Len(chain), RunHook(chain, act))
<1>1. Len(chain) \in Nat
  BY DEF Chains
<1>2. Drive(chain, act) =
        [n \in 0 .. Len(chain) |->
           IF n = 0 THEN [action |-> "Pass", reason |-> "none", driven |-> <<>>]
           ELSE DriveOne(act, Drive(chain, act)[n - 1], chain[n])]
  BY <1>1, DriveStep
<1> DEFINE acc == Drive(chain, act)
           S == {n \in Nat : n <= Len(chain) => Strictest(chain, act, n, acc[n])}
<1> HIDE DEF acc
<1>3. 0 \in S
  <2>1. acc[0] = [action |-> "Pass", reason |-> "none", driven |-> <<>>]
    BY <1>1, <1>2 DEF acc
  <2>2. Named(chain, 0) = <<>>
    BY DEF Named
  <2> QED
    BY <2>1, <2>2 DEF Strictest, NobodySays
<1>4. ASSUME NEW n \in Nat, n \in S
      PROVE  n + 1 \in S
  <2>1. SUFFICES ASSUME n + 1 <= Len(chain)
                 PROVE  Strictest(chain, act, n + 1, acc[n + 1])
    OBVIOUS
  <2>2. n \in 0 .. Len(chain) - 1 /\ n <= Len(chain)
    BY <1>1, <2>1
  <2>3. acc[n + 1] = DriveOne(act, acc[n], chain[n + 1])
    BY <1>1, <1>2, <2>1 DEF acc
  <2>4. Strictest(chain, act, n, acc[n])
    BY <1>4, <2>2
  <2> QED
    BY <2>2, <2>3, <2>4, StrictestStep
<1> HIDE DEF S
<1>5. Len(chain) \in S
  BY <1>1, <1>3, <1>4, InductionInNat
<1> QED
  BY <1>1, <1>5 DEF S, acc, RunHook

\* The hooks of any chain give one of the three verdicts the request path tells
\* apart, and Pass only if no module denies or asks.
THEOREM HooksGiveVerdict ==
    ASSUME NEW Modules, NEW chain \in Chains(Modules), NEW act
    PROVE  LET given == RunHook(chain, act).action IN
           /\ given \in {"Pass", "NeedConfirm", "Deny"}
           /\ given = "Pass" <=> /\ NobodySays(chain, act, Len(chain), "Deny")
                                  /\ NobodySays(chain, act, Len(chain), "NeedConfirm")
           /\ given = "Deny" <=> RunTaskBeginHook(chain, act) = "Deny"
<1> DEFINE got == RunHook(chain, act)
           N == Len(chain)
<1>1. Strictest(chain, act, N, got)
  BY StrictestWins
<1>2. DOMAIN chain = 1 .. N
  BY DEF Chains
<1> HIDE DEF got, N
<1>3. RunTaskBeginHook(chain, act) = "Deny" <=> ~ NobodySays(chain, act, N, "Deny")
  BY <1>2 DEF RunTaskBeginHook, NobodySays, Says
<1>4. CASE \E i \in 1 .. N : FirstToSay(chain, act, N, i, "Deny") /\ got.action = "Deny"
  BY <1>3, <1>4 DEF FirstToSay, NobodySays, got, N
<1>5. CASE /\ NobodySays(chain, act, N, "Deny") /\ got.action = "NeedConfirm"
           /\ \E i \in 1 .. N : FirstToSay(chain, act, N, i, "NeedConfirm")
  BY <1>3, <1>5 DEF FirstToSay, NobodySays, got, N
<1>6. CASE /\ NobodySays(chain, act, N, "Deny") /\ NobodySays(chain, act, N, "NeedConfirm")
           /\ got.action = "Pass"
  BY <1>3, <1>6 DEF got, N
<1> QED
  BY <1>1, <1>4, <1>5, <1>6 DEF Strictest

\* A set of natural numbers has a least one.
LEMMA LeastOfSet ==
    ASSUME NEW T, T \subseteq Nat, T # {}
    PROVE  \E x \in T : \A y \in T : x <= y
<1> DEFINE R == OpToRel(<, Nat)
<1>1. PICK x \in T : \A y \in T : ~ (<<y, x>> \in R)
  BY NatLessThanWellFounded, WFMin
<1> HIDE DEF R
<1>2. ASSUME NEW y \in T
      PROVE  x <= y
  <2>1. x \in Nat /\ y \in Nat
    OBVIOUS
  <2>2. CASE y < x
    <3>1. <<y, x>> \in R
      BY <2>1, <2>2 DEF OpToRel, R
    <3> QED
      BY <1>1, <3>1
  <2> QED
    BY <2>1, <2>2
<1> QED
  BY <1>2

\* lower_bound in a chain sorted by priority: the entries before the position
\* are the smaller ones.
Sorted(chain) ==
    \A i, j \in 1 .. Len(chain) : i < j => chain[i].priority <= chain[j].priority

LEMMA LowerBoundSplits ==
    ASSUME NEW Modules, NEW chain \in Chains(Modules), NEW p \in Int, Sorted(chain)
    PROVE  /\ LowerBound(chain, p) \in 1 .. Len(chain) + 1
           /\ \A i \in 1 .. Len(chain) :
                 IF i < LowerBound(chain, p) THEN chain[i].priority < p
                 ELSE chain[i].priority >= p
<1> DEFINE T == {i \in DOMAIN chain : chain[i].priority >= p}
<1>1. Len(chain) \in Nat /\ DOMAIN chain = 1 .. Len(chain)
  BY DEF Chains
<1>2. \A i \in 1 .. Len(chain) : chain[i].priority \in Int
  BY EntriesTyped
<1>3. CASE T = {}
  <2>1. LowerBound(chain, p) = Len(chain) + 1
    BY <1>3 DEF LowerBound
  <2>2. \A i \in 1 .. Len(chain) : chain[i].priority < p
    BY <1>1, <1>2, <1>3
  <2> QED
    BY <1>1, <2>1, <2>2
<1>4. CASE T # {}
  <2>1. \E x \in T : \A y \in T : x <= y
    <3>1. T \subseteq Nat
      BY <1>1
    <3> QED
      BY <1>4, <3>1, LeastOfSet
  <2>2. LowerBound(chain, p) = Min(T)
    BY <1>4 DEF LowerBound
  <2>3. Min(T) \in T /\ \A y \in T : Min(T) <= y
    BY <2>1 DEF Min
  <2>4. ASSUME NEW i \in 1 .. Len(chain), i < Min(T)
        PROVE  chain[i].priority < p
    <3>1. i \notin T
      <4>1. i \in Nat /\ Min(T) \in 1 .. Len(chain)
        BY <1>1, <2>3
      <4> HIDE DEF T
      <4> QED
        BY <1>1, <2>3, <2>4, <4>1
    <3>2. ~ (chain[i].priority >= p)
      BY <1>1, <3>1
    <3> QED
      BY <1>2, <3>2
  <2>5. ASSUME NEW i \in 1 .. Len(chain), ~ (i < Min(T))
        PROVE  chain[i].priority >= p
    <3>1. Min(T) \in 1 .. Len(chain) /\ chain[Min(T)].priority >= p
      BY <1>1, <2>3
    <3>2. chain[Min(T)].priority <= chain[i].priority
      BY <1>1, <1>2, <2>5, <3>1 DEF Sorted
    <3> QED
      BY <1>2, <3>1, <3>2
  <2>6. Min(T) \in 1 .. Len(chain)
    BY <1>1, <2>3
  <2> HIDE DEF T
  <2> QED
    BY <1>1, <2>2, <2>4, <2>5, <2>6
<1> QED
  BY <1>3, <1>4

\* Registering keeps the chain in order of priority, loses nobody, and puts the
\* newcomer before those of its own priority (SecurityChain::registerModule).
THEOREM RegistrationKeepsOrder ==
    ASSUME NEW Modules, NEW chain \in Chains(Modules), Sorted(chain),
           NEW m \in Modules, NEW p \in Int
    PROVE  LET after == RegisterModule(chain, m, p) IN
           /\ after \in Chains(Modules) /\ Sorted(after)
           /\ \E at \in 1 .. Len(chain) + 1 :
                 /\ after = [i \in 1 .. Len(chain) + 1 |->
                               IF i < at THEN chain[i]
                               ELSE IF i = at THEN [priority |-> p, module |-> m]
                               ELSE chain[i - 1]]
                 /\ \A i \in 1 .. Len(chain) : i < at <=> chain[i].priority < p
<1> DEFINE at == LowerBound(chain, p)
           entry == [priority |-> p, module |-> m]
           E == [priority : Int, module : Modules]
           after == RegisterModule(chain, m, p)
           N == Len(chain)
<1>1. /\ at \in 1 .. N + 1
      /\ \A i \in 1 .. N : IF i < at THEN chain[i].priority < p ELSE chain[i].priority >= p
  BY LowerBoundSplits
<1>2. N \in Nat /\ chain \in Seq(E) /\ entry \in E
  BY DEF Chains
<1>3. \A i \in 1 .. N : chain[i] \in E /\ chain[i].priority \in Int
  BY EntriesTyped
<1>4. after = SubSeq(chain, 1, at - 1) \o <<entry>> \o SubSeq(chain, at, N)
  BY DEF RegisterModule, InsertAt
<1> HIDE DEF at, entry, E, after, N
<1>5. after = [i \in 1 .. N + 1 |-> IF i < at THEN chain[i]
                                    ELSE IF i = at THEN entry ELSE chain[i - 1]]
  <2>1. /\ SubSeq(chain, 1, at - 1) \in Seq(E) /\ Len(SubSeq(chain, 1, at - 1)) = at - 1
        /\ \A i \in 1 .. at - 1 : SubSeq(chain, 1, at - 1)[i] = chain[i]
    BY <1>1, <1>2, <1>3 DEF N
  <2>2. /\ SubSeq(chain, at, N) \in Seq(E) /\ Len(SubSeq(chain, at, N)) = N + 1 - at
        /\ \A i \in 1 .. N + 1 - at : SubSeq(chain, at, N)[i] = chain[at + i - 1]
    BY <1>1, <1>2, <1>3 DEF N
  <2> DEFINE front == SubSeq(chain, 1, at - 1)
             back == SubSeq(chain, at, N)
             head == front \o <<entry>>
  <2> HIDE DEF front, back
  <2>3. /\ head \in Seq(E) /\ Len(head) = at
        /\ \A i \in 1 .. at : head[i] = IF i < at THEN chain[i] ELSE entry
    BY <1>1, <1>2, <2>1 DEF front
  <2> HIDE DEF head
  <2>4. /\ Len(head \o back) = N + 1 /\ head \o back \in Seq(E)
        /\ \A i \in 1 .. N + 1 : (head \o back)[i] =
              IF i <= at THEN head[i] ELSE back[i - at]
    BY <1>1, <1>2, <2>2, <2>3 DEF back
  <2>5. after = head \o back
    BY <1>4 DEF head, front, back
  <2>6. ASSUME NEW i \in 1 .. N + 1
        PROVE  after[i] = IF i < at THEN chain[i] ELSE IF i = at THEN entry ELSE chain[i - 1]
    <3>1. CASE i <= at
      BY <1>1, <1>2, <2>3, <2>4, <2>5, <3>1
    <3>2. CASE i > at
      <4>1. i - at \in 1 .. N + 1 - at /\ at + (i - at) - 1 = i - 1
        BY <1>1, <1>2, <3>2
      <4>2. back[i - at] = chain[i - 1]
        BY <2>2, <4>1 DEF back
      <4> QED
        BY <1>1, <1>2, <2>4, <2>5, <3>2, <4>2
    <3> QED
      BY <1>1, <1>2, <3>1, <3>2
  <2>7. after = [i \in 1 .. N + 1 |-> after[i]]
    <3>1. after \in Seq(E) /\ Len(after) = N + 1
      BY <2>4, <2>5
    <3> QED
      BY <1>2, <3>1
  <2> QED
    BY <2>6, <2>7
<1>6. ASSUME NEW i \in 1 .. N + 1
      PROVE  after[i] \in E
  BY <1>1, <1>2, <1>3, <1>5
<1>7. after \in Seq(E) /\ Len(after) = N + 1
  <2>1. after \in [1 .. N + 1 -> E]
    BY <1>5, <1>6
  <2> QED
    BY <1>2, <2>1
<1>8. ASSUME NEW i \in 1 .. N + 1, NEW j \in 1 .. N + 1, i < j
      PROVE  after[i].priority <= after[j].priority
  <2>1. /\ i < at => i \in 1 .. N
        /\ i > at => i - 1 \in 1 .. N
        /\ j < at => j \in 1 .. N
        /\ j > at => j - 1 \in 1 .. N
    BY <1>1, <1>2
  <2>2. entry.priority = p
    BY DEF entry
  <2>3. \A k, l \in 1 .. N : k < l => chain[k].priority <= chain[l].priority
    BY DEF Sorted, N
  <2>4. CASE j < at
    BY <1>1, <1>2, <1>5, <1>8, <2>1, <2>3, <2>4
  <2>5. CASE i < at /\ j = at
    BY <1>1, <1>2, <1>3, <1>5, <2>1, <2>2, <2>5
  <2>6. CASE i < at /\ j > at
    <3>1. chain[i].priority < p /\ chain[j - 1].priority >= p
      BY <1>1, <1>2, <2>1, <2>6
    <3> QED
      BY <1>1, <1>2, <1>3, <1>5, <2>1, <2>6, <3>1
  <2>7. CASE i = at /\ j > at
    <3>1. chain[j - 1].priority >= p
      BY <1>1, <1>2, <2>1, <2>7
    <3> QED
      BY <1>1, <1>2, <1>5, <2>1, <2>2, <2>7, <3>1
  <2>8. CASE i > at
    BY <1>1, <1>2, <1>5, <1>8, <2>1, <2>3, <2>8
  <2> QED
    BY <1>1, <1>2, <1>8, <2>4, <2>5, <2>6, <2>7, <2>8
<1>9. \A i \in 1 .. N : i < at <=> chain[i].priority < p
  BY <1>1, <1>3
<1>10. Sorted(after)
  BY <1>7, <1>8 DEF Sorted
<1>11. after \in Chains(Modules)
  BY <1>7 DEF Chains, E
<1> QED
  BY <1>1, <1>5, <1>9, <1>10, <1>11 DEF after, N, entry
=============================================================================
