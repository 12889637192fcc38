----------------------------- MODULE GatewayHost -----------------------------
(***************************************************************************)
(* The gateway's exchange with the VM (vm_channel/gateway/                 *)
(* gateway_host_server.cc): commands go out and their results come back,   *)
(* log and risk events come in.  Every method looks at running_ first and  *)
(* then works under state_mutex_, so a thread is inside between the two;   *)
(* start() and stop() change running_ and clear the state in two steps     *)
(* likewise.  Time is what the VM says it is: a stamp may be older than    *)
(* one that came before.                                                   *)
(*                                                                         *)
(* A log or risk event is its position in the order of arrival.  Tokens of *)
(* the rate limit are counted in 1/Second: the code adds rate * elapsed    *)
(* milliseconds / 1000 in floating point.                                  *)
(***************************************************************************)
EXTENDS Naturals, Sequences, FiniteSets, Functions

CONSTANTS
    Threads,        \* threads that call the gateway
    Commands,       \* command ids
    Sessions,       \* session ids of the VM, the empty one left out
    Stamps,         \* timestamps
    CachePolicies,  \* IdempotencyCachePolicy: entries, ttl
    FlowPolicies,   \* FlowControlPolicy: logs, risks, rate, burst
    DefaultCache, DefaultFlow,
    Second,         \* units of time in a second
    MaxEvents       \* bound: log events, and risk events, of one run

ASSUME PolicyAssumption ==
    /\ CachePolicies \subseteq [entries : Nat \ {0}, ttl : Nat \ {0}]
    /\ FlowPolicies \subseteq [logs : Nat \ {0}, risks : Nat \ {0},
                               rate : Nat \ {0}, burst : Nat \ {0}]
    /\ DefaultCache \in CachePolicies /\ DefaultFlow \in FlowPolicies

ASSUME TimeAssumption ==
    Stamps \subseteq Nat /\ Second \in Nat \ {0} /\ MaxEvents \in Nat

VARIABLES
    running,        \* running_
    main,           \* between the two steps of start() or stop()
    inside,         \* threads that saw running_ and have yet to take the lock
    command_queue, inflight, results,   \* commands, by where they are
    cache,          \* idempotency_policy_
    log_events, dropped_logs, limited_logs, risk_events, dropped_risks,
    buckets,        \* log_rate_buckets_
    flow,           \* flow_control_policy_
    \* history since the state was last cleared
    handed,         \* how often a command was handed out that is not done with
    awaited,        \* commands handed out and not answered
    counts,         \* events accepted and taken
    passed, since   \* events a session's bucket let pass, and its first stamp

lifeVars == <<running, main>>
commandVars == <<command_queue, inflight, results, cache, handed, awaited>>
logVars == <<log_events, dropped_logs, limited_logs, buckets, passed, since>>
riskVars == <<risk_events, dropped_risks>>
eventVars == <<logVars, riskVars, flow, counts>>
vars == <<lifeVars, inside, commandVars, eventVars>>

NoEvents == [logs |-> 0, logsTaken |-> 0, risks |-> 0, risksTaken |-> 0]
NewBucket == [tokens |-> 0, last |-> 0]

Init ==
    /\ running = FALSE /\ main = "idle" /\ inside = {}
    /\ command_queue = <<>> /\ inflight = {} /\ results = <<>>
    /\ cache = DefaultCache /\ flow = DefaultFlow
    /\ log_events = <<>> /\ dropped_logs = 0 /\ limited_logs = 0
    /\ risk_events = <<>> /\ dropped_risks = 0
    /\ buckets = [s \in Sessions |-> NewBucket]
    /\ handed = [c \in Commands |-> 0] /\ awaited = {} /\ counts = NoEvents
    /\ passed = [s \in Sessions |-> 0] /\ since = [s \in Sessions |-> 0]

-----------------------------------------------------------------------------
(* start(), stop() and the head of every method.                           *)

Start ==
    /\ main = "idle" /\ ~running
    /\ running' = TRUE /\ main' = "clear"
    /\ UNCHANGED <<inside, commandVars, eventVars>>

Stop ==
    /\ main = "idle" /\ running
    /\ running' = FALSE /\ main' = "clear"
    /\ UNCHANGED <<inside, commandVars, eventVars>>

\* Under state_mutex_, after running_ has changed.
Clear ==
    /\ main = "clear" /\ main' = "idle"
    /\ command_queue' = <<>> /\ inflight' = {} /\ results' = <<>>
    /\ cache' = DefaultCache /\ flow' = DefaultFlow
    /\ log_events' = <<>> /\ dropped_logs' = 0 /\ limited_logs' = 0
    /\ risk_events' = <<>> /\ dropped_risks' = 0
    /\ buckets' = [s \in Sessions |-> NewBucket]
    /\ handed' = [c \in Commands |-> 0] /\ awaited' = {} /\ counts' = NoEvents
    /\ passed' = [s \in Sessions |-> 0] /\ since' = [s \in Sessions |-> 0]
    /\ UNCHANGED <<running, inside>>

\* running_.load(); a method that reads FALSE returns NOT_INITIALIZED.
Enter(t) ==
    /\ t \notin inside /\ running
    /\ inside' = inside \cup {t}
    /\ UNCHANGED <<lifeVars, commandVars, eventVars>>

\* The rest of a method, under state_mutex_.
Locked(t) == t \in inside /\ inside' = inside \ {t} /\ UNCHANGED lifeVars

-----------------------------------------------------------------------------
(* Commands and results.                                                   *)

Known == Range(command_queue) \cup inflight \cup DOMAIN results

\* Faulty variant of EnqueueCommand: a command that is in flight is not a duplicate.
EnqueueInflight(t, c) ==
    /\ Locked(t)
    /\ command_queue' = IF c \in Known \ inflight THEN command_queue ELSE Append(command_queue, c)
    /\ UNCHANGED <<inflight, results, cache, handed, awaited, eventVars>>

\* A duplicate is accepted and ignored.
EnqueueCommand(t, c) ==
    /\ Locked(t)
    /\ command_queue' = IF c \in Known THEN command_queue ELSE Append(command_queue, c)
    /\ UNCHANGED <<inflight, results, cache, handed, awaited, eventVars>>

\* NOT_FOUND without a command.
DequeueCommand(t) ==
    /\ Locked(t)
    /\ IF command_queue = <<>> THEN UNCHANGED <<command_queue, inflight, handed, awaited>>
       ELSE /\ command_queue' = Tail(command_queue)
            /\ inflight' = inflight \cup {Head(command_queue)}
            /\ handed' = [handed EXCEPT ![Head(command_queue)] = @ + 1]
            /\ awaited' = awaited \cup {Head(command_queue)}
    /\ UNCHANGED <<results, cache, eventVars>>

\* What pruneResultCacheToCapacityLocked() may leave of r: the oldest results
\* go, in the order of the map among those of one stamp.
Pruned(r, n) ==
    {Restrict(r, keep) : keep \in
        {k \in SUBSET DOMAIN r :
            /\ Cardinality(k) = IF Cardinality(DOMAIN r) > n THEN n ELSE Cardinality(DOMAIN r)
            /\ \A c \in k, d \in DOMAIN r \ k : r[d].at <= r[c].at}}

\* A command is done with when it has been answered and its result is gone.
Answered(answers) ==
    /\ awaited' = awaited \ answers
    /\ handed' = [c \in Commands |-> IF c \in awaited' \cup DOMAIN results' THEN handed[c] ELSE 0]

With(r, c, v) == [d \in DOMAIN r \cup {c} |-> IF d = c THEN v ELSE r[d]]

\* Faulty variant of SubmitCommandResult: a duplicate replaces the first result.
SubmitOverwrites(t, c, success, at) ==
    /\ Locked(t)
    /\ inflight' = inflight \ {c}
    /\ results' \in Pruned(With(results, c, [success |-> success, at |-> at]), cache.entries)
    /\ Answered({c})
    /\ UNCHANGED <<command_queue, cache, eventVars>>

\* A duplicate is accepted and ignored, like a result nobody waits for.
SubmitCommandResult(t, c, success, at) ==
    /\ Locked(t)
    /\ inflight' = inflight \ {c}
    /\ IF c \in DOMAIN results THEN UNCHANGED results
       ELSE results' \in Pruned(With(results, c, [success |-> success, at |-> at]), cache.entries)
    /\ Answered({c})
    /\ UNCHANGED <<command_queue, cache, eventVars>>

\* NOT_FOUND without a result.
TakeCommandResult(t, c) ==
    /\ Locked(t)
    /\ results' = Restrict(results, DOMAIN results \ {c})
    /\ UNCHANGED <<command_queue, inflight, cache, eventVars>>
    /\ Answered({})

\* A result without a stamp never expires.
Expired(c, now) == results[c].at > 0 /\ now > results[c].at + cache.ttl

SweepExpiredCommandResults(t, now) ==
    /\ now > 0
    /\ Locked(t)
    /\ results' = Restrict(results, {c \in DOMAIN results : ~Expired(c, now)})
    /\ UNCHANGED <<command_queue, inflight, cache, eventVars>>
    /\ Answered({})

\* Faulty variant of SetIdempotencyCachePolicy: the next result prunes the cache.
SetCacheUnpruned(p) ==
    /\ cache' = p
    /\ UNCHANGED <<lifeVars, inside, command_queue, inflight, results, handed, awaited, eventVars>>

\* Does not look at running_.
SetIdempotencyCachePolicy(p) ==
    /\ cache' = p
    /\ results' \in Pruned(results, p.entries)
    /\ UNCHANGED <<lifeVars, inside, command_queue, inflight, eventVars>>
    /\ Answered({})

-----------------------------------------------------------------------------
(* Log and risk events.                                                    *)

Count(field) == counts' = [counts EXCEPT ![field] = @ + 1]
Lesser(a, b) == IF a < b THEN a ELSE b

\* The bucket of a session when an event stamped now arrives: filled on its
\* first use, refilled by the time that has passed, never by time that ran
\* backwards.
Opened(b, now) ==
    IF b.last = 0 THEN [tokens |-> flow.burst * Second, last |-> IF now > 0 THEN now ELSE 1]
    ELSE b

\* Faulty variant of Refilled: the stamp of the last refill stays.
RefilledTwice(b, now) ==
    IF now > b.last
    THEN [b EXCEPT !.tokens = Lesser(flow.burst * Second, @ + (now - b.last) * flow.rate)]
    ELSE b

Refilled(b, now) ==
    IF now > b.last
    THEN [tokens |-> Lesser(flow.burst * Second, b.tokens + (now - b.last) * flow.rate),
          last |-> now]
    ELSE b

BucketAt(s, now) == Refilled(Opened(buckets[s], now), now)

\* Faulty variant of PushLatest: a full queue drops the newcomer.
PushUnlessFull(queue, event, max) == IF Len(queue) >= max THEN queue ELSE Append(queue, event)

\* A full queue drops its oldest event.
PushLatest(queue, event, max) ==
    Append(IF Len(queue) >= max THEN Tail(queue) ELSE queue, event)

AcceptLog ==
    /\ log_events' = PushLatest(log_events, counts.logs + 1, flow.logs)
    /\ dropped_logs' = IF Len(log_events) >= flow.logs THEN dropped_logs + 1 ELSE dropped_logs
    /\ Count("logs")

\* An event without a session is not limited.
SubmitAnonymousLog(t) ==
    /\ Locked(t) /\ counts.logs < MaxEvents
    /\ AcceptLog
    /\ UNCHANGED <<commandVars, limited_logs, buckets, passed, since, riskVars, flow>>

SubmitLogEvent(t, s, now) ==
    LET bucket == BucketAt(s, now) IN
    /\ Locked(t) /\ counts.logs + limited_logs < MaxEvents
    /\ since' = IF buckets[s].last = 0 THEN [since EXCEPT ![s] = Opened(buckets[s], now).last] ELSE since
    /\ IF bucket.tokens >= Second
       THEN /\ buckets' = [buckets EXCEPT ![s] = [bucket EXCEPT !.tokens = @ - Second]]
            /\ passed' = [passed EXCEPT ![s] = @ + 1]
            /\ AcceptLog
            /\ UNCHANGED limited_logs
       ELSE /\ buckets' = [buckets EXCEPT ![s] = bucket]
            /\ limited_logs' = limited_logs + 1
            /\ UNCHANGED <<passed, log_events, dropped_logs, counts>>
    /\ UNCHANGED <<commandVars, riskVars, flow>>

DequeueLogEvent(t) ==
    /\ Locked(t)
    /\ IF log_events = <<>> THEN UNCHANGED <<log_events, counts>>
       ELSE log_events' = Tail(log_events) /\ Count("logsTaken")
    /\ UNCHANGED <<commandVars, dropped_logs, limited_logs, buckets, passed, since, riskVars, flow>>

SubmitRiskEvent(t) ==
    /\ Locked(t) /\ counts.risks < MaxEvents
    /\ risk_events' = PushLatest(risk_events, counts.risks + 1, flow.risks)
    /\ dropped_risks' = IF Len(risk_events) >= flow.risks THEN dropped_risks + 1 ELSE dropped_risks
    /\ Count("risks")
    /\ UNCHANGED <<commandVars, logVars, flow>>

DequeueRiskEvent(t) ==
    /\ Locked(t)
    /\ IF risk_events = <<>> THEN UNCHANGED <<risk_events, counts>>
       ELSE risk_events' = Tail(risk_events) /\ Count("risksTaken")
    /\ UNCHANGED <<commandVars, dropped_risks, logVars, flow>>

Excess(queue, max) == IF Len(queue) > max THEN Len(queue) - max ELSE 0
Latest(queue, max) == SubSeq(queue, Excess(queue, max) + 1, Len(queue))

\* Faulty variant of SetFlowControlPolicy: the queues are trimmed only by the
\* next event.
SetFlowUntrimmed(p) ==
    /\ flow' = p
    /\ UNCHANGED <<lifeVars, inside, commandVars, logVars, riskVars, counts>>

\* Does not look at running_; buckets keep what they hold.
SetFlowControlPolicy(p) ==
    /\ flow' = p
    /\ log_events' = Latest(log_events, p.logs)
    /\ dropped_logs' = dropped_logs + Excess(log_events, p.logs)
    /\ risk_events' = Latest(risk_events, p.risks)
    /\ dropped_risks' = dropped_risks + Excess(risk_events, p.risks)
    /\ UNCHANGED <<lifeVars, inside, commandVars, limited_logs, buckets, passed, since, counts>>

-----------------------------------------------------------------------------
CommandNext(t) ==
    \/ DequeueCommand(t)
    \/ \E c \in Commands :
          \/ EnqueueCommand(t, c) \/ TakeCommandResult(t, c)
          \/ \E success \in BOOLEAN, at \in Stamps : SubmitCommandResult(t, c, success, at)
    \/ \E now \in Stamps : SweepExpiredCommandResults(t, now)

EventNext(t) ==
    \/ SubmitAnonymousLog(t) \/ DequeueLogEvent(t)
    \/ \E s \in Sessions, now \in Stamps : SubmitLogEvent(t, s, now)
    \/ SubmitRiskEvent(t) \/ DequeueRiskEvent(t)

Next ==
    \/ Start \/ Stop \/ Clear
    \/ \E t \in Threads : Enter(t) \/ CommandNext(t) \/ EventNext(t)
    \/ \E p \in CachePolicies : SetIdempotencyCachePolicy(p)
    \/ \E p \in FlowPolicies : SetFlowControlPolicy(p)

Spec == Init /\ [][Next]_vars

-----------------------------------------------------------------------------
(* Properties.                                                             *)

TypeOK ==
    /\ running \in BOOLEAN /\ main \in {"idle", "clear"} /\ inside \subseteq Threads
    /\ command_queue \in Seq(Commands) /\ inflight \subseteq Commands
    /\ DOMAIN results \subseteq Commands
    /\ results \in [DOMAIN results -> [success : BOOLEAN, at : Stamps]]
    /\ cache \in CachePolicies /\ flow \in FlowPolicies
    /\ handed \in [Commands -> Nat] /\ awaited \subseteq Commands
    /\ log_events \in Seq(Nat) /\ risk_events \in Seq(Nat)
    /\ dropped_logs \in Nat /\ limited_logs \in Nat /\ dropped_risks \in Nat
    /\ buckets \in [Sessions -> [tokens : Nat, last : Nat]]
    /\ counts \in [{"logs", "logsTaken", "risks", "risksTaken"} -> Nat]
    /\ passed \in [Sessions -> Nat] /\ since \in [Sessions -> Nat]

\* A command is never handed to the VM a second time before it was answered, or
\* while the answer is kept, whatever retries, late or unsolicited results and
\* evictions come between.
HandedOutOnce == \A c \in Commands : handed[c] <= 1

\* The first result is the one that counts: no later one replaces it.
FirstResultStays ==
    [][\A c \in DOMAIN results : c \in DOMAIN results' => results'[c] = results[c]]_vars

\* The result cache keeps to the policy in force, through every change of it,
\* every result that comes unasked and every restart.
CacheWithinPolicy == Cardinality(DOMAIN results) <= cache.entries

\* So do the queues of events.
QueuesWithinPolicy == Len(log_events) <= flow.logs /\ Len(risk_events) <= flow.risks

\* Every event accepted is pending, taken or counted as dropped, and the events
\* that are pending are the latest, in order: none is lost or repeated, however
\* the queues overflow or shrink.
AreLatest(queue, n) == \A i \in DOMAIN queue : queue[i] = n - Len(queue) + i
EventsAccounted ==
    /\ counts.logs = counts.logsTaken + dropped_logs + Len(log_events)
    /\ counts.risks = counts.risksTaken + dropped_risks + Len(risk_events)
    /\ AreLatest(log_events, counts.logs) /\ AreLatest(risk_events, counts.risks)

\* The rate limit holds whatever stamps the VM sends: a session has passed no
\* more than a burst and the rate over the time its stamps span, and never
\* holds more than a burst.
RateBound(rate, burst) ==
    \A s \in Sessions :
        /\ buckets[s].tokens <= burst * Second
        /\ passed[s] * Second + buckets[s].tokens <=
              burst * Second + (buckets[s].last - since[s]) * rate
RateLimited ==
    \A p, q \in FlowPolicies :
        (\A r \in FlowPolicies : r.rate <= p.rate /\ r.burst <= q.burst)
            => RateBound(p.rate, q.burst)
=============================================================================
