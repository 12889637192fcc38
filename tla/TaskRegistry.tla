---------------------------- MODULE TaskRegistry ----------------------------
(***************************************************************************)
(* Tasks and their authorisation cache (daemon-service/core/               *)
(* task_registry.cc).  Every method holds rw_mutex_ for its whole body, so *)
(* each is one action or one state function.  A fingerprint list without   *)
(* duplicates is a set; "task-N" is N and the empty task id is NoTask.     *)
(***************************************************************************)
EXTENDS Naturals, Functions

CONSTANTS
    Fingerprints,   \* (capability, operation) pairs
    Descriptions,   \* root descriptions a caller passes for a top-level task
    MaxTasks,       \* bound: tasks begun
    OpModulus       \* op_count is unsigned: 2^32 in the code

ASSUME RegistryAssumption ==
    MaxTasks \in Nat \ {0} /\ OpModulus \in Nat \ {0}

VARIABLES
    tasks,     \* tasks_: the live entries, by task id
    next_id    \* next_id_

registryVars == <<tasks, next_id>>

NoTask == 0
TaskIds == 1 .. MaxTasks
Entries == [parent : TaskIds \cup {NoTask}, root : TaskIds,
            root_description : Descriptions, op_count : 0 .. OpModulus - 1,
            authorizations : SUBSET Fingerprints]

RegistryInit ==
    /\ tasks = <<>>
    /\ next_id = 1

Live == DOMAIN tasks

\* A sub-task takes over its live parent's trust anchor; a task without a
\* parent, or whose parent is gone, is its own root.
RootOf(id, parent) == IF parent \in Live THEN tasks[parent].root ELSE id

\* Faulty variant of RootDescriptionOf: a caller's own description goes first.
OwnDescription(parent, description) == description

RootDescriptionOf(parent, description) ==
    IF parent \in Live THEN tasks[parent].root_description ELSE description

BeginTask(parent, description) ==
    /\ next_id <= MaxTasks
    /\ next_id' = next_id + 1
    /\ tasks' = [t \in Live \cup {next_id} |->
                   IF t = next_id
                   THEN [parent |-> parent,
                         root |-> RootOf(next_id, parent),
                         root_description |-> RootDescriptionOf(parent, description),
                         op_count |-> 0,
                         authorizations |-> {}]
                   ELSE tasks[t]]

\* The entry goes, and with it the task's authorisations; an unknown id is a
\* warning.
EndTask(id) ==
    /\ tasks' = Restrict(tasks, Live \ {id})
    /\ UNCHANGED next_id

\* Faulty variant of CacheAuthorization: the task's root holds the fingerprint.
CacheUnderRoot(id, fp) ==
    /\ tasks' = IF id \in Live /\ tasks[id].root \in Live
                THEN [tasks EXCEPT ![tasks[id].root].authorizations = @ \cup {fp}] ELSE tasks
    /\ UNCHANGED next_id

\* An unknown task drops the authorisation.
CacheAuthorization(id, fp) ==
    /\ tasks' = IF id \in Live
                THEN [tasks EXCEPT ![id].authorizations = @ \cup {fp}] ELSE tasks
    /\ UNCHANGED next_id

\* Faulty variant of CheckAuthorization: any task's authorisation will do.
CheckAnyTask(id, fp) == \E t \in Live : fp \in tasks[t].authorizations

CheckAuthorization(id, fp) == id \in Live /\ fp \in tasks[id].authorizations

IncrementOpCount(id) ==
    /\ tasks' = IF id \in Live
                THEN [tasks EXCEPT ![id].op_count = (@ + 1) % OpModulus] ELSE tasks
    /\ UNCHANGED next_id

\* The registry by itself, under any order of calls with any ids.
RegistryNext ==
    \/ \E parent \in TaskIds \cup {NoTask}, d \in Descriptions : BeginTask(parent, d)
    \/ \E t \in TaskIds :
          \/ EndTask(t)
          \/ \E fp \in Fingerprints : CacheAuthorization(t, fp)
          \/ IncrementOpCount(t)

RegistrySpec == RegistryInit /\ [][RegistryNext]_registryVars

-----------------------------------------------------------------------------
RegistryTypeOK ==
    /\ next_id \in 1 .. MaxTasks + 1
    /\ Live \subseteq 1 .. next_id - 1
    /\ tasks \in [Live -> Entries]

\* The trust anchor cannot be overridden by a sub-task: a live task whose elder
\* parent is still alive shares that parent's root, the root of a task is a root
\* of its own while it lives, and all the live tasks of one root carry the same
\* root description, also when the root or the tasks between have ended.
RootAnchored ==
    \A t \in Live :
        /\ tasks[t].root <= t
        /\ tasks[t].root \in Live => tasks[tasks[t].root].root = tasks[t].root
        /\ tasks[t].parent \in Live /\ tasks[t].parent < t =>
              tasks[tasks[t].parent].root = tasks[t].root
        /\ \A u \in Live :
              tasks[u].root = tasks[t].root =>
                  tasks[u].root_description = tasks[t].root_description
=============================================================================
