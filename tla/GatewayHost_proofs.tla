------------------------- MODULE GatewayHost_proofs -------------------------
(* Proofs about GatewayHost, for any threads, ids, stamps and policies.      *)
EXTENDS GatewayHost, FiniteSetTheorems, TLAPS

-----------------------------------------------------------------------------
(* Sequences and functions.                                                *)

LEMMA TailAt ==
    ASSUME NEW S, NEW q \in Seq(S), q # <<>>
    PROVE  /\ Tail(q) \in Seq(S) /\ Len(Tail(q)) = Len(q) - 1 /\ Len(q) \in Nat \ {0}
           /\ Head(q) = q[1] /\ Head(q) \in S
           /\ DOMAIN Tail(q) = 1 .. Len(q) - 1 /\ DOMAIN q = 1 .. Len(q)
           /\ \A i \in 1 .. Len(q) - 1 : Tail(q)[i] = q[i + 1]
OBVIOUS

LEMMA AppendAt ==
    ASSUME NEW S, NEW q \in Seq(S), NEW e \in S
    PROVE  /\ Append(q, e) \in Seq(S) /\ Len(Append(q, e)) = Len(q) + 1
           /\ Len(q) \in Nat
           /\ DOMAIN Append(q, e) = 1 .. Len(q) + 1 /\ DOMAIN q = 1 .. Len(q)
           /\ Append(q, e)[Len(q) + 1] = e
           /\ \A i \in 1 .. Len(q) : Append(q, e)[i] = q[i]
OBVIOUS

LEMMA SubSeqAt ==
    ASSUME NEW S, NEW q \in Seq(S), NEW k \in Nat, k <= Len(q)
    PROVE  /\ SubSeq(q, k + 1, Len(q)) \in Seq(S)
           /\ Len(SubSeq(q, k + 1, Len(q))) = Len(q) - k
           /\ DOMAIN SubSeq(q, k + 1, Len(q)) = 1 .. Len(q) - k
           /\ \A i \in 1 .. Len(q) - k : SubSeq(q, k + 1, Len(q))[i] = q[k + i]
OBVIOUS

\* What is left of the cache is part of it, whichever results go.
LEMMA PrunedAt ==
    ASSUME NEW r, NEW n, NEW s \in Pruned(r, n)
    PROVE  /\ DOMAIN s \subseteq DOMAIN r /\ s = [c \in DOMAIN s |-> r[c]]
           /\ \A c \in DOMAIN s : s[c] = r[c]
BY DEF Pruned, Restrict

LEMMA Constants ==
    /\ cache \in CachePolicies => cache.entries \in Nat \ {0} /\ cache.ttl \in Nat \ {0}
    /\ \A p \in FlowPolicies : /\ p.logs \in Nat \ {0} /\ p.risks \in Nat \ {0}
                              /\ p.rate \in Nat \ {0} /\ p.burst \in Nat \ {0}
    /\ Second \in Nat \ {0} /\ Stamps \subseteq Nat
BY PolicyAssumption, TimeAssumption

-----------------------------------------------------------------------------
(* Types.                                                                  *)

CommandTypes ==
    /\ command_queue \in Seq(Commands) /\ inflight \subseteq Commands
    /\ DOMAIN results \subseteq Commands
    /\ results \in [DOMAIN results -> [success : BOOLEAN, at : Stamps]]
    /\ cache \in CachePolicies /\ handed \in [Commands -> Nat] /\ awaited \subseteq Commands
LogTypes ==
    /\ log_events \in Seq(Nat) /\ dropped_logs \in Nat /\ limited_logs \in Nat
    /\ buckets \in [Sessions -> [tokens : Nat, last : Nat]]
    /\ passed \in [Sessions -> Nat] /\ since \in [Sessions -> Nat]
RiskTypes == risk_events \in Seq(Nat) /\ dropped_risks \in Nat
LifeTypes ==
    running \in BOOLEAN /\ main \in {"idle", "clear"} /\ inside \subseteq Threads
SharedTypes ==
    /\ flow \in FlowPolicies
    /\ counts \in [{"logs", "logsTaken", "risks", "risksTaken"} -> Nat]

LEMMA TypeParts == TypeOK <=> LifeTypes /\ CommandTypes /\ LogTypes /\ RiskTypes /\ SharedTypes
BY DEF TypeOK, LifeTypes, CommandTypes, LogTypes, RiskTypes, SharedTypes

LEMMA TypePartsNext ==
    (LifeTypes /\ CommandTypes /\ LogTypes /\ RiskTypes /\ SharedTypes)' => TypeOK'
BY DEF TypeOK, LifeTypes, CommandTypes, LogTypes, RiskTypes, SharedTypes

LEMMA TypeInit == Init => TypeOK
<1> SUFFICES ASSUME Init PROVE TypeOK
  OBVIOUS
<1>1. LifeTypes /\ CommandTypes
  <2>1. <<>> \in Seq(Commands) /\ DOMAIN <<>> = {} /\ <<>> \in [{} -> [success : BOOLEAN, at : Stamps]]
    OBVIOUS
  <2>2. LifeTypes
    BY DEF Init, LifeTypes
  <2>3. CommandTypes
    BY <2>1, PolicyAssumption DEF Init, CommandTypes
  <2>. QED  BY <2>2, <2>3
<1>2. LogTypes /\ RiskTypes
  BY DEF Init, LogTypes, RiskTypes, NewBucket
<1>3. SharedTypes
  BY PolicyAssumption DEF Init, SharedTypes, NoEvents
<1>. QED  BY <1>1, <1>2, <1>3, TypeParts

LEMMA KnownTyped ==
    ASSUME CommandTypes, NEW c \in Commands
    PROVE  Append(command_queue, c) \in Seq(Commands)
BY DEF CommandTypes

LEMMA ResultsTyped ==
    ASSUME CommandTypes, NEW c \in Commands, NEW success \in BOOLEAN, NEW at \in Stamps, NEW n,
           NEW r \in Pruned(With(results, c, [success |-> success, at |-> at]), n)
    PROVE  DOMAIN r \subseteq Commands /\ r \in [DOMAIN r -> [success : BOOLEAN, at : Stamps]]
<1> DEFINE w == With(results, c, [success |-> success, at |-> at])
<1>1. DOMAIN w \subseteq Commands /\ \A d \in DOMAIN w : w[d] \in [success : BOOLEAN, at : Stamps]
  BY DEF With, CommandTypes
<1>2. DOMAIN r \subseteq DOMAIN w /\ r = [d \in DOMAIN r |-> w[d]]
  BY PrunedAt
<1>. QED  BY <1>1, <1>2

LEMMA CommandsTyped ==
    ASSUME TypeOK, NEW t \in Threads, CommandNext(t)
    PROVE  TypeOK'
<1>1. LifeTypes /\ CommandTypes /\ LogTypes /\ RiskTypes /\ SharedTypes
  BY TypeParts
<1>2. UNCHANGED <<eventVars, lifeVars>> /\ inside' \subseteq inside
  BY DEF CommandNext, DequeueCommand, EnqueueCommand, TakeCommandResult, SubmitCommandResult,
         SweepExpiredCommandResults, Locked
<1>3. (LifeTypes /\ LogTypes /\ RiskTypes /\ SharedTypes)'
  BY <1>1, <1>2 DEF LifeTypes, LogTypes, RiskTypes, SharedTypes, eventVars, logVars, riskVars, lifeVars
<1>4. CommandTypes'
  <2>1. CASE DequeueCommand(t)
    <3>1. CASE command_queue = <<>>
      BY <2>1, <3>1, <1>1 DEF DequeueCommand, CommandTypes
    <3>2. CASE command_queue # <<>>
      <4>1. Tail(command_queue) \in Seq(Commands) /\ Head(command_queue) \in Commands
        BY <1>1, <3>2, TailAt DEF CommandTypes
      <4>2. [handed EXCEPT ![Head(command_queue)] = @ + 1] \in [Commands -> Nat]
        BY <1>1, <4>1 DEF CommandTypes
      <4>. QED  BY <2>1, <3>2, <4>1, <4>2, <1>1 DEF DequeueCommand, CommandTypes
    <3>. QED  BY <3>1, <3>2
  <2>2. ASSUME NEW c \in Commands, EnqueueCommand(t, c) PROVE CommandTypes'
    BY <2>2, <1>1, KnownTyped DEF EnqueueCommand, CommandTypes
  <2>3. ASSUME NEW c \in Commands, TakeCommandResult(t, c) PROVE CommandTypes'
    BY <2>3, <1>1 DEF TakeCommandResult, Restrict, Answered, CommandTypes
  <2>4. ASSUME NEW c \in Commands, NEW success \in BOOLEAN, NEW at \in Stamps,
               SubmitCommandResult(t, c, success, at)
        PROVE  CommandTypes'
    <3>1. DOMAIN results' \subseteq Commands
          /\ results' \in [DOMAIN results' -> [success : BOOLEAN, at : Stamps]]
      <4>1. CASE c \in DOMAIN results
        BY <2>4, <4>1, <1>1 DEF SubmitCommandResult, CommandTypes
      <4>2. CASE c \notin DOMAIN results
        BY <2>4, <4>2, <1>1, ResultsTyped DEF SubmitCommandResult
      <4>. QED  BY <4>1, <4>2
    <3>. QED  BY <2>4, <3>1, <1>1 DEF SubmitCommandResult, Answered, CommandTypes
  <2>5. ASSUME NEW now \in Stamps, SweepExpiredCommandResults(t, now) PROVE CommandTypes'
    <3>1. results' = [c \in DOMAIN results' |-> results[c]] /\ DOMAIN results' \subseteq DOMAIN results
      BY <2>5 DEF SweepExpiredCommandResults, Restrict
    <3>. QED  BY <2>5, <3>1, <1>1 DEF SweepExpiredCommandResults, Answered, CommandTypes
  <2>. QED  BY <2>1, <2>2, <2>3, <2>4, <2>5 DEF CommandNext
<1>. QED  BY <1>3, <1>4, TypePartsNext

-----------------------------------------------------------------------------
(* The tokens of a bucket.                                                 *)

LEMMA LesserAt ==
    ASSUME NEW a \in Nat, NEW b \in Nat
    PROVE  Lesser(a, b) \in Nat /\ Lesser(a, b) <= a /\ Lesser(a, b) <= b
BY DEF Lesser

LEMMA Products ==
    ASSUME NEW a \in Nat, NEW b \in Nat PROVE a * b \in Nat
OBVIOUS

LEMMA OpenedTyped ==
    ASSUME LogTypes, SharedTypes, NEW s \in Sessions, NEW now \in Stamps
    PROVE  Opened(buckets[s], now) \in [tokens : Nat, last : Nat]
<1>1. flow.burst * Second \in Nat /\ now \in Nat
  BY Constants, Products DEF SharedTypes
<1>. QED  BY <1>1 DEF Opened, LogTypes

LEMMA RefilledTyped ==
    ASSUME SharedTypes, NEW b \in [tokens : Nat, last : Nat], NEW now \in Stamps
    PROVE  Refilled(b, now) \in [tokens : Nat, last : Nat]
<1>1. CASE now > b.last
  <2>1. now - b.last \in Nat /\ now \in Nat /\ flow.rate \in Nat
    BY <1>1, Constants DEF SharedTypes
  <2>2. (now - b.last) * flow.rate \in Nat /\ flow.burst * Second \in Nat
    BY <2>1, Constants, Products DEF SharedTypes
  <2> DEFINE full == flow.burst * Second
             fill == b.tokens + (now - b.last) * flow.rate
  <2>3. full \in Nat /\ fill \in Nat
    BY <2>2
  <2>4. Lesser(full, fill) \in Nat
    <3>. HIDE DEF full, fill
    <3>. QED  BY <2>3, LesserAt
  <2>. QED  BY <1>1, <2>1, <2>4 DEF Refilled
<1>2. CASE ~(now > b.last)
  BY <1>2 DEF Refilled
<1>. QED  BY <1>1, <1>2

LEMMA PushTyped ==
    ASSUME NEW q \in Seq(Nat), NEW e \in Nat, NEW max \in Nat \ {0}
    PROVE  PushLatest(q, e, max) \in Seq(Nat)
<1>1. CASE Len(q) >= max
  BY <1>1, TailAt, AppendAt DEF PushLatest
<1>2. CASE ~(Len(q) >= max)
  BY <1>2, AppendAt DEF PushLatest
<1>. QED  BY <1>1, <1>2

LEMMA ExcessAt ==
    ASSUME NEW q \in Seq(Nat), NEW max \in Nat \ {0}
    PROVE  /\ Excess(q, max) \in Nat /\ Excess(q, max) <= Len(q)
           /\ Latest(q, max) \in Seq(Nat)
           /\ Len(Latest(q, max)) = Len(q) - Excess(q, max)
           /\ DOMAIN Latest(q, max) = 1 .. Len(q) - Excess(q, max)
           /\ \A i \in 1 .. Len(q) - Excess(q, max) : Latest(q, max)[i] = q[Excess(q, max) + i]
<1>1. Excess(q, max) \in Nat /\ Excess(q, max) <= Len(q)
  BY DEF Excess
<1>. QED  BY <1>1, SubSeqAt DEF Latest

LEMMA CountTyped ==
    ASSUME SharedTypes, NEW f \in {"logs", "logsTaken", "risks", "risksTaken"}, Count(f)
    PROVE  /\ counts' \in [{"logs", "logsTaken", "risks", "risksTaken"} -> Nat]
           /\ counts'[f] = counts[f] + 1
           /\ \A g \in {"logs", "logsTaken", "risks", "risksTaken"} : g # f => counts'[g] = counts[g]
BY DEF SharedTypes, Count

LEMMA AcceptLogTyped ==
    ASSUME LogTypes, SharedTypes, AcceptLog
    PROVE  /\ log_events' \in Seq(Nat) /\ dropped_logs' \in Nat
           /\ counts' \in [{"logs", "logsTaken", "risks", "risksTaken"} -> Nat]
<1>1. flow.logs \in Nat \ {0} /\ counts.logs + 1 \in Nat
  BY Constants DEF SharedTypes
<1>2. log_events' \in Seq(Nat)
  BY <1>1, PushTyped DEF AcceptLog, LogTypes
<1>3. dropped_logs' \in Nat
  BY DEF AcceptLog, LogTypes
<1>. QED  BY <1>2, <1>3, CountTyped DEF AcceptLog

LEMMA SubmitLogTyped ==
    ASSUME LogTypes, SharedTypes, NEW t \in Threads, NEW s \in Sessions, NEW now \in Stamps,
           SubmitLogEvent(t, s, now)
    PROVE  LogTypes' /\ SharedTypes'
<1> DEFINE b == BucketAt(s, now)
           e == [b EXCEPT !.tokens = @ - Second]
<1>1. Opened(buckets[s], now) \in [tokens : Nat, last : Nat] /\ b \in [tokens : Nat, last : Nat]
  BY OpenedTyped, RefilledTyped DEF BucketAt
<1>2. since' \in [Sessions -> Nat]
  BY <1>1 DEF SubmitLogEvent, LogTypes
<1>3. CASE b.tokens >= Second
  <2>1. e \in [tokens : Nat, last : Nat]
    BY <1>1, <1>3, Constants
  <2>2. /\ buckets' = [buckets EXCEPT ![s] = e] /\ passed' = [passed EXCEPT ![s] = @ + 1]
        /\ AcceptLog /\ limited_logs' = limited_logs /\ flow' = flow
    BY <1>3 DEF SubmitLogEvent
  <2>. HIDE DEF b, e
  <2>3. buckets' \in [Sessions -> [tokens : Nat, last : Nat]]
    BY <2>1, <2>2 DEF LogTypes
  <2>4. passed' \in [Sessions -> Nat]
    BY <2>2 DEF LogTypes
  <2>5. log_events' \in Seq(Nat) /\ dropped_logs' \in Nat
        /\ counts' \in [{"logs", "logsTaken", "risks", "risksTaken"} -> Nat]
    BY <2>2, AcceptLogTyped
  <2>. QED  BY <1>2, <2>2, <2>3, <2>4, <2>5 DEF LogTypes, SharedTypes
<1>4. CASE ~(b.tokens >= Second)
  <2>1. /\ buckets' = [buckets EXCEPT ![s] = b] /\ limited_logs' = limited_logs + 1
        /\ UNCHANGED <<passed, log_events, dropped_logs, counts, flow>>
    BY <1>4 DEF SubmitLogEvent
  <2>. HIDE DEF b
  <2>2. buckets' \in [Sessions -> [tokens : Nat, last : Nat]] /\ limited_logs' \in Nat
    BY <1>1, <2>1 DEF LogTypes
  <2>. QED  BY <1>2, <2>1, <2>2 DEF LogTypes, SharedTypes
<1>. QED  BY <1>3, <1>4

LEMMA EventsTyped ==
    ASSUME TypeOK, NEW t \in Threads, EventNext(t)
    PROVE  TypeOK'
<1>1. LifeTypes /\ CommandTypes /\ LogTypes /\ RiskTypes /\ SharedTypes
  BY TypeParts
<1>2. UNCHANGED <<commandVars, lifeVars>> /\ inside' \subseteq inside
  BY DEF EventNext, SubmitAnonymousLog, SubmitLogEvent, DequeueLogEvent, SubmitRiskEvent,
         DequeueRiskEvent, Locked
<1>3. (LifeTypes /\ CommandTypes)'
  BY <1>1, <1>2 DEF LifeTypes, CommandTypes, commandVars, lifeVars
<1>4. (LogTypes /\ RiskTypes /\ SharedTypes)'
  <2>1. CASE SubmitAnonymousLog(t)
    BY <2>1, <1>1, AcceptLogTyped DEF SubmitAnonymousLog, LogTypes, RiskTypes, SharedTypes, riskVars
  <2>2. ASSUME NEW s \in Sessions, NEW now \in Stamps, SubmitLogEvent(t, s, now)
        PROVE  (LogTypes /\ RiskTypes /\ SharedTypes)'
    BY <2>2, <1>1, SubmitLogTyped DEF SubmitLogEvent, RiskTypes, riskVars
  <2>3. CASE DequeueLogEvent(t)
    <3>1. CASE log_events = <<>>
      BY <2>3, <3>1, <1>1 DEF DequeueLogEvent, LogTypes, RiskTypes, SharedTypes, riskVars
    <3>2. CASE log_events # <<>>
      <4>1. Tail(log_events) \in Seq(Nat)
        BY <1>1, <3>2, TailAt DEF LogTypes
      <4>2. counts' \in [{"logs", "logsTaken", "risks", "risksTaken"} -> Nat]
        BY <1>1, <2>3, <3>2, CountTyped DEF DequeueLogEvent
      <4>. QED  BY <2>3, <3>2, <1>1, <4>1, <4>2
                DEF DequeueLogEvent, LogTypes, RiskTypes, SharedTypes, riskVars
    <3>. QED  BY <3>1, <3>2
  <2>4. CASE SubmitRiskEvent(t)
    <3>1. flow.risks \in Nat \ {0} /\ counts.risks + 1 \in Nat
      BY <1>1, Constants DEF SharedTypes
    <3>2. risk_events' \in Seq(Nat) /\ dropped_risks' \in Nat
      <4>1. PushLatest(risk_events, counts.risks + 1, flow.risks) \in Seq(Nat)
        BY <3>1, <1>1, PushTyped DEF RiskTypes
      <4>. QED  BY <2>4, <4>1, <1>1 DEF SubmitRiskEvent, RiskTypes
    <3>3. counts' \in [{"logs", "logsTaken", "risks", "risksTaken"} -> Nat]
      BY <2>4, <1>1, CountTyped DEF SubmitRiskEvent
    <3>. QED  BY <2>4, <3>2, <3>3, <1>1
              DEF SubmitRiskEvent, LogTypes, RiskTypes, SharedTypes, logVars
  <2>5. CASE DequeueRiskEvent(t)
    <3>1. CASE risk_events = <<>>
      BY <2>5, <3>1, <1>1 DEF DequeueRiskEvent, LogTypes, RiskTypes, SharedTypes, logVars
    <3>2. CASE risk_events # <<>>
      <4>1. Tail(risk_events) \in Seq(Nat)
        BY <1>1, <3>2, TailAt DEF RiskTypes
      <4>2. counts' \in [{"logs", "logsTaken", "risks", "risksTaken"} -> Nat]
        BY <1>1, <2>5, <3>2, CountTyped DEF DequeueRiskEvent
      <4>. QED  BY <2>5, <3>2, <1>1, <4>1, <4>2
                DEF DequeueRiskEvent, LogTypes, RiskTypes, SharedTypes, logVars
    <3>. QED  BY <3>1, <3>2
  <2>. QED  BY <2>1, <2>2, <2>3, <2>4, <2>5 DEF EventNext
<1>. QED  BY <1>3, <1>4, TypePartsNext

LEMMA CachePolicyTyped ==
    ASSUME TypeOK, NEW p \in CachePolicies, SetIdempotencyCachePolicy(p)
    PROVE  TypeOK'
<1>1. LifeTypes /\ CommandTypes /\ LogTypes /\ RiskTypes /\ SharedTypes
  BY TypeParts
<1>2. DOMAIN results' \subseteq DOMAIN results /\ results' = [c \in DOMAIN results' |-> results[c]]
  BY PrunedAt DEF SetIdempotencyCachePolicy
<1>3. CommandTypes'
  BY <1>1, <1>2 DEF SetIdempotencyCachePolicy, Answered, CommandTypes
<1>4. (LifeTypes /\ LogTypes /\ RiskTypes /\ SharedTypes)'
  BY <1>1 DEF SetIdempotencyCachePolicy, LifeTypes, LogTypes, RiskTypes, SharedTypes,
              lifeVars, eventVars, logVars, riskVars
<1>. QED  BY <1>3, <1>4, TypePartsNext

LEMMA FlowPolicyTyped ==
    ASSUME TypeOK, NEW p \in FlowPolicies, SetFlowControlPolicy(p)
    PROVE  TypeOK'
<1>1. LifeTypes /\ CommandTypes /\ LogTypes /\ RiskTypes /\ SharedTypes
  BY TypeParts
<1>2. p.logs \in Nat \ {0} /\ p.risks \in Nat \ {0}
  BY Constants
<1>3. LogTypes' /\ RiskTypes'
  <2>1. /\ Excess(log_events, p.logs) \in Nat /\ Latest(log_events, p.logs) \in Seq(Nat)
        /\ Excess(risk_events, p.risks) \in Nat /\ Latest(risk_events, p.risks) \in Seq(Nat)
    BY <1>1, <1>2, ExcessAt DEF LogTypes, RiskTypes
  <2>. QED  BY <1>1, <2>1 DEF SetFlowControlPolicy, LogTypes, RiskTypes
<1>4. (LifeTypes /\ CommandTypes /\ SharedTypes)'
  BY <1>1 DEF SetFlowControlPolicy, LifeTypes, CommandTypes, SharedTypes, lifeVars, commandVars
<1>. QED  BY <1>3, <1>4, TypePartsNext

LEMMA LifeTyped ==
    ASSUME TypeOK, Start \/ Stop \/ Clear \/ (\E t \in Threads : Enter(t))
    PROVE  TypeOK'
<1>1. CASE Start \/ Stop
  BY <1>1 DEF Start, Stop, TypeOK, commandVars, eventVars, logVars, riskVars
<1>2. CASE Clear
  <2>1. (LifeTypes /\ CommandTypes)'
    BY <1>2, PolicyAssumption DEF Clear, LifeTypes, CommandTypes, TypeOK
  <2>2. (LogTypes /\ RiskTypes)'
    BY <1>2 DEF Clear, LogTypes, RiskTypes, NewBucket
  <2>3. SharedTypes'
    BY <1>2, PolicyAssumption DEF Clear, SharedTypes, NoEvents
  <2>. QED  BY <2>1, <2>2, <2>3, TypePartsNext
<1>3. CASE \E t \in Threads : Enter(t)
  BY <1>3 DEF Enter, TypeOK, lifeVars, commandVars, eventVars, logVars, riskVars
<1>. QED  BY <1>1, <1>2, <1>3

LEMMA TypeInductive == TypeOK /\ [Next]_vars => TypeOK'
<1>1. ASSUME TypeOK, UNCHANGED vars PROVE TypeOK'
  BY <1>1 DEF TypeOK, vars, lifeVars, commandVars, eventVars, logVars, riskVars
<1>. QED  BY <1>1, CommandsTyped, EventsTyped, CachePolicyTyped, FlowPolicyTyped, LifeTyped DEF Next

\* Every variable of the gateway keeps its type; no counter runs below zero.
THEOREM TypeCorrect == Spec => []TypeOK
<1>. QED  BY TypeInit, TypeInductive, PTL DEF Spec

-----------------------------------------------------------------------------
(* Commands.  A queued command is queued once and has not been handed out;  *)
(* one that was handed out and is not done with is in flight or has a result. *)

CommandInv ==
    /\ \A i, j \in DOMAIN command_queue : command_queue[i] = command_queue[j] => i = j
    /\ \A i \in DOMAIN command_queue : handed[command_queue[i]] = 0
    /\ awaited \subseteq inflight
    /\ \A c \in Commands : /\ handed[c] <= 1
                           /\ handed[c] # 0 => c \in inflight \cup DOMAIN results

LEMMA CommandFrame ==
    ASSUME CommandTypes, CommandInv, UNCHANGED command_queue, NEW answers, Answered(answers),
           inflight' = inflight \ answers
    PROVE  CommandInv'
<1>1. awaited' \subseteq inflight'
  BY DEF CommandInv, Answered
<1>2. ASSUME NEW c \in Commands
      PROVE  handed'[c] = (IF c \in awaited' \cup DOMAIN results' THEN handed[c] ELSE 0)
  BY <1>2 DEF Answered
<1>3. \A i \in DOMAIN command_queue : command_queue[i] \in Commands
  BY DEF CommandTypes
<1>. QED  BY <1>1, <1>2, <1>3 DEF CommandInv

LEMMA CommandStep ==
    ASSUME TypeOK, CommandInv, NEW t \in Threads, CommandNext(t)
    PROVE  CommandInv'
<1>1. CommandTypes
  BY TypeParts
<1>2. CASE DequeueCommand(t)
  <2>1. CASE command_queue = <<>>
    BY <1>2, <2>1 DEF DequeueCommand, CommandInv
  <2>2. CASE command_queue # <<>>
    <3>1. /\ command_queue' = Tail(command_queue) /\ results' = results
          /\ inflight' = inflight \cup {Head(command_queue)}
          /\ awaited' = awaited \cup {Head(command_queue)}
          /\ handed' = [handed EXCEPT ![Head(command_queue)] = @ + 1]
      BY <1>2, <2>2 DEF DequeueCommand
    <3>2. /\ Head(command_queue) = command_queue[1] /\ DOMAIN command_queue' = 1 .. Len(command_queue) - 1
          /\ Len(command_queue) \in Nat \ {0} /\ DOMAIN command_queue = 1 .. Len(command_queue)
          /\ \A i \in DOMAIN command_queue' : command_queue'[i] = command_queue[i + 1]
      BY <1>1, <2>2, <3>1, TailAt DEF CommandTypes
    <3>3. \A i \in DOMAIN command_queue' :
             i + 1 \in DOMAIN command_queue /\ i + 1 # 1 /\ i \in Nat
      BY <3>2
    <3> DEFINE h == command_queue[1]
    <3>4. 1 \in DOMAIN command_queue /\ h \in Commands /\ handed[h] = 0 /\ handed \in [Commands -> Nat]
      BY <1>1, <3>2 DEF CommandTypes, CommandInv
    <3>5. handed'[h] = 1 /\ \A c \in Commands \ {h} : handed'[c] = handed[c]
      BY <3>1, <3>2, <3>4
    <3>6. \A i, j \in DOMAIN command_queue' : command_queue'[i] = command_queue'[j] => i = j
      BY <3>2, <3>3 DEF CommandInv
    <3>7. \A i \in DOMAIN command_queue' : handed'[command_queue'[i]] = 0
      <4>1. ASSUME NEW i \in DOMAIN command_queue' PROVE handed'[command_queue'[i]] = 0
        <5>1. command_queue'[i] # h /\ command_queue'[i] \in Commands /\ handed[command_queue'[i]] = 0
          BY <1>1, <3>2, <3>3, <3>4 DEF CommandInv, CommandTypes
        <5>. QED  BY <3>5, <5>1
      <4>. QED  BY <4>1
    <3>8. \A c \in Commands : handed'[c] <= 1 /\ (handed'[c] # 0 => c \in inflight' \cup DOMAIN results')
      BY <3>1, <3>2, <3>5 DEF CommandInv
    <3>. QED  BY <3>1, <3>6, <3>7, <3>8 DEF CommandInv
  <2>. QED  BY <2>1, <2>2
<1>3. ASSUME NEW c \in Commands, EnqueueCommand(t, c) PROVE CommandInv'
  <2>1. UNCHANGED <<inflight, results, handed, awaited>>
    BY <1>3 DEF EnqueueCommand
  <2>2. CASE c \in Known
    BY <1>3, <2>1, <2>2 DEF EnqueueCommand, CommandInv
  <2>3. CASE c \notin Known
    <3>1. command_queue' = Append(command_queue, c)
      BY <1>3, <2>3 DEF EnqueueCommand
    <3>2. handed[c] = 0 /\ \A i \in DOMAIN command_queue : command_queue[i] # c
      BY <2>3 DEF Known, Range, CommandInv
    <3>3. /\ DOMAIN command_queue' = 1 .. Len(command_queue) + 1 /\ Len(command_queue) \in Nat
          /\ DOMAIN command_queue = 1 .. Len(command_queue)
          /\ command_queue'[Len(command_queue) + 1] = c
          /\ \A i \in DOMAIN command_queue : command_queue'[i] = command_queue[i]
      BY <1>1, <3>1, AppendAt DEF CommandTypes
    <3>4. \A i \in DOMAIN command_queue' : i \in DOMAIN command_queue \/ i = Len(command_queue) + 1
      BY <3>3
    <3>. QED  BY <2>1, <3>2, <3>3, <3>4 DEF CommandInv
  <2>. QED  BY <2>2, <2>3
<1>4. ASSUME NEW c \in Commands, TakeCommandResult(t, c) PROVE CommandInv'
  BY <1>1, <1>4, CommandFrame DEF TakeCommandResult
<1>5. ASSUME NEW c \in Commands, NEW success \in BOOLEAN, NEW at \in Stamps,
             SubmitCommandResult(t, c, success, at)
      PROVE  CommandInv'
  BY <1>1, <1>5, CommandFrame DEF SubmitCommandResult
<1>6. ASSUME NEW now \in Stamps, SweepExpiredCommandResults(t, now) PROVE CommandInv'
  BY <1>1, <1>6, CommandFrame DEF SweepExpiredCommandResults
<1>. QED  BY <1>2, <1>3, <1>4, <1>5, <1>6 DEF CommandNext

LEMMA CommandInductive == TypeOK /\ CommandInv /\ [Next]_vars => CommandInv'
<1> SUFFICES ASSUME TypeOK, CommandInv, [Next]_vars PROVE CommandInv'
  OBVIOUS
<1>1. ASSUME UNCHANGED commandVars PROVE CommandInv'
  BY <1>1 DEF CommandInv, commandVars
<1>2. CASE Clear
  BY <1>2 DEF Clear, CommandInv
<1>3. CASE Start \/ Stop \/ (\E t \in Threads : Enter(t)) \/ UNCHANGED vars
  BY <1>1, <1>3 DEF Start, Stop, Enter, vars
<1>4. ASSUME NEW t \in Threads, EventNext(t) PROVE CommandInv'
  BY <1>1, <1>4 DEF EventNext, SubmitAnonymousLog, SubmitLogEvent, DequeueLogEvent,
                    SubmitRiskEvent, DequeueRiskEvent
<1>5. ASSUME NEW p \in FlowPolicies, SetFlowControlPolicy(p) PROVE CommandInv'
  BY <1>1, <1>5 DEF SetFlowControlPolicy
<1>6. ASSUME NEW p \in CachePolicies, SetIdempotencyCachePolicy(p) PROVE CommandInv'
  BY <1>6, CommandFrame, TypeParts DEF SetIdempotencyCachePolicy
<1>. QED  BY <1>2, <1>3, <1>4, <1>5, <1>6, CommandStep DEF Next

\* No command is with the VM twice, however often it is retried or answered.
THEOREM HandedOutOnceCorrect == Spec => []HandedOutOnce
<1>1. Init => CommandInv
  BY DEF Init, CommandInv
<1>2. CommandInv => HandedOutOnce
  BY DEF CommandInv, HandedOutOnce
<1>. QED  BY <1>1, <1>2, TypeInit, TypeInductive, CommandInductive, PTL DEF Spec

LEMMA FirstStays ==
    ASSUME [Next]_vars, NEW c \in DOMAIN results, c \in DOMAIN results'
    PROVE  results'[c] = results[c]
<1>1. ASSUME NEW t \in Threads, NEW d \in Commands, NEW success \in BOOLEAN, NEW at \in Stamps,
             SubmitCommandResult(t, d, success, at)
      PROVE  results'[c] = results[c]
  <2>1. CASE d \in DOMAIN results
    BY <1>1, <2>1 DEF SubmitCommandResult
  <2>2. CASE d \notin DOMAIN results
    <3> DEFINE w == With(results, d, [success |-> success, at |-> at])
    <3>1. results' \in Pruned(w, cache.entries)
      BY <1>1, <2>2 DEF SubmitCommandResult
    <3>2. results'[c] = w[c]
      BY <3>1, PrunedAt
    <3>. QED  BY <3>2, <2>2 DEF With
  <2>. QED  BY <2>1, <2>2
<1>2. ASSUME NEW t \in Threads, CommandNext(t) PROVE results'[c] = results[c]
  BY <1>1, <1>2 DEF CommandNext, DequeueCommand, EnqueueCommand, TakeCommandResult,
                    SweepExpiredCommandResults, Restrict
<1>3. CASE Start \/ Stop \/ Clear \/ (\E t \in Threads : Enter(t)) \/ UNCHANGED vars
  BY <1>3 DEF Start, Stop, Clear, Enter, vars, commandVars
<1>4. ASSUME NEW t \in Threads, EventNext(t) PROVE results'[c] = results[c]
  BY <1>4 DEF EventNext, SubmitAnonymousLog, SubmitLogEvent, DequeueLogEvent,
              SubmitRiskEvent, DequeueRiskEvent, commandVars
<1>5. ASSUME NEW p \in FlowPolicies, SetFlowControlPolicy(p) PROVE results'[c] = results[c]
  BY <1>5 DEF SetFlowControlPolicy, commandVars
<1>6. ASSUME NEW p \in CachePolicies, SetIdempotencyCachePolicy(p) PROVE results'[c] = results[c]
  BY <1>6, PrunedAt DEF SetIdempotencyCachePolicy
<1>. QED  BY <1>2, <1>3, <1>4, <1>5, <1>6 DEF Next

\* The first result of a command is never replaced by a later one.
THEOREM FirstResultCorrect == Spec => FirstResultStays
<1>1. [Next]_vars =>
         [\A c \in DOMAIN results : c \in DOMAIN results' => results'[c] = results[c]]_vars
  BY FirstStays
<1>. QED  BY <1>1, PTL DEF Spec, FirstResultStays

-----------------------------------------------------------------------------
(* Events.  A queue of n accepted events, of which k were taken and d were  *)
(* dropped, holds the latest.                                               *)

Accounted(q, n, k, d) == n = k + d + Len(q) /\ AreLatest(q, n)

LEMMA AccountedParts ==
    EventsAccounted <=>
        /\ Accounted(log_events, counts.logs, counts.logsTaken, dropped_logs)
        /\ Accounted(risk_events, counts.risks, counts.risksTaken, dropped_risks)
BY DEF EventsAccounted, Accounted

LEMMA PushAccounted ==
    ASSUME NEW q \in Seq(Nat), NEW n \in Nat, NEW k \in Nat, NEW d \in Nat, NEW max \in Nat \ {0},
           Accounted(q, n, k, d)
    PROVE  Accounted(PushLatest(q, n + 1, max), n + 1, k, IF Len(q) >= max THEN d + 1 ELSE d)
<1>1. CASE Len(q) >= max
  <2>1. q # <<>> /\ Len(q) \in Nat
    BY <1>1
  <2> DEFINE r == Tail(q)
             a == Append(r, n + 1)
  <2>2. /\ r \in Seq(Nat) /\ Len(r) = Len(q) - 1 /\ DOMAIN q = 1 .. Len(q)
        /\ \A i \in 1 .. Len(q) - 1 : r[i] = q[i + 1]
    BY <2>1, TailAt
  <2>3. /\ Len(a) = Len(q) /\ DOMAIN a = 1 .. Len(q) /\ a[Len(q)] = n + 1
        /\ \A i \in 1 .. Len(q) - 1 : a[i] = q[i + 1]
    BY <2>1, <2>2, AppendAt
  <2>. HIDE DEF a, r
  <2>4. \A i \in DOMAIN a : a[i] = (n + 1) - Len(a) + i
    <3> SUFFICES ASSUME NEW i \in 1 .. Len(q) PROVE a[i] = (n + 1) - Len(q) + i
      BY <2>3
    <3>1. CASE i = Len(q)
      BY <2>1, <2>3, <3>1
    <3>2. CASE i # Len(q)
      <4>1. i \in 1 .. Len(q) - 1 /\ i + 1 \in DOMAIN q
        BY <2>1, <2>2, <3>2
      <4>2. q[i + 1] = n - Len(q) + (i + 1)
        BY <4>1 DEF Accounted, AreLatest
      <4>. QED  BY <2>1, <2>3, <4>1, <4>2
    <3>. QED  BY <3>1, <3>2
  <2>. USE DEF a, r
  <2>. QED  BY <1>1, <2>1, <2>3, <2>4 DEF PushLatest, Accounted, AreLatest
<1>2. CASE ~(Len(q) >= max)
  <2> DEFINE a == Append(q, n + 1)
  <2>1. /\ Len(q) \in Nat /\ Len(a) = Len(q) + 1 /\ DOMAIN a = 1 .. Len(q) + 1
        /\ DOMAIN q = 1 .. Len(q) /\ a[Len(q) + 1] = n + 1
        /\ \A i \in 1 .. Len(q) : a[i] = q[i]
    BY AppendAt
  <2>2. \A i \in DOMAIN a : a[i] = (n + 1) - Len(a) + i
    BY <2>1 DEF Accounted, AreLatest
  <2>. QED  BY <1>2, <2>1, <2>2 DEF PushLatest, Accounted, AreLatest
<1>. QED  BY <1>1, <1>2

LEMMA TakeAccounted ==
    ASSUME NEW q \in Seq(Nat), q # <<>>, NEW n \in Nat, NEW k \in Nat, NEW d \in Nat,
           Accounted(q, n, k, d)
    PROVE  Accounted(Tail(q), n, k + 1, d)
<1> DEFINE r == Tail(q)
<1>1. /\ Len(r) = Len(q) - 1 /\ Len(q) \in Nat \ {0} /\ DOMAIN r = 1 .. Len(q) - 1
      /\ DOMAIN q = 1 .. Len(q) /\ \A i \in 1 .. Len(q) - 1 : r[i] = q[i + 1]
  BY TailAt
<1>. HIDE DEF r
<1>2. AreLatest(r, n)
  <2> SUFFICES ASSUME NEW i \in 1 .. Len(q) - 1 PROVE r[i] = n - Len(r) + i
    BY <1>1 DEF AreLatest
  <2>1. i + 1 \in DOMAIN q
    BY <1>1
  <2>2. q[i + 1] = n - Len(q) + (i + 1)
    BY <2>1 DEF Accounted, AreLatest
  <2>. QED  BY <1>1, <2>2
<1>3. Accounted(r, n, k + 1, d)
  BY <1>1, <1>2 DEF Accounted
<1>. QED  BY <1>3 DEF r

LEMMA TrimAccounted ==
    ASSUME NEW q \in Seq(Nat), NEW n \in Nat, NEW k \in Nat, NEW d \in Nat, NEW max \in Nat \ {0},
           Accounted(q, n, k, d)
    PROVE  Accounted(Latest(q, max), n, k, d + Excess(q, max))
<1>1. /\ Excess(q, max) \in Nat /\ Excess(q, max) <= Len(q) /\ Len(q) \in Nat
      /\ Len(Latest(q, max)) = Len(q) - Excess(q, max)
      /\ DOMAIN Latest(q, max) = 1 .. Len(q) - Excess(q, max) /\ DOMAIN q = 1 .. Len(q)
      /\ \A i \in 1 .. Len(q) - Excess(q, max) : Latest(q, max)[i] = q[Excess(q, max) + i]
  BY ExcessAt, SMTT(20)
<1> DEFINE r == Latest(q, max)
           x == Excess(q, max)
<1>. HIDE DEF r, x
<1>2. AreLatest(r, n)
  <2> SUFFICES ASSUME NEW i \in 1 .. Len(q) - x PROVE r[i] = n - Len(r) + i
    BY <1>1 DEF AreLatest, r, x
  <2>1. x + i \in DOMAIN q
    BY <1>1 DEF x
  <2>2. q[x + i] = n - Len(q) + (x + i)
    BY <2>1 DEF Accounted, AreLatest
  <2>. QED  BY <1>1, <2>2, SMTT(20) DEF r, x
<1>3. Accounted(r, n, k, d + x)
  BY <1>1, <1>2 DEF Accounted, r, x
<1>. QED  BY <1>3 DEF r, x

LEMMA AccountedFrame ==
    ASSUME EventsAccounted, UNCHANGED <<log_events, dropped_logs, risk_events, dropped_risks, counts>>
    PROVE  EventsAccounted'
BY DEF EventsAccounted, AreLatest

LEMMA AcceptAccounted ==
    ASSUME TypeOK, EventsAccounted, AcceptLog, UNCHANGED riskVars
    PROVE  EventsAccounted'
<1>1. LogTypes /\ SharedTypes /\ flow.logs \in Nat \ {0}
  BY TypeParts, Constants DEF SharedTypes
<1>2. /\ counts'.logs = counts.logs + 1 /\ counts'.logsTaken = counts.logsTaken
      /\ counts'.risks = counts.risks /\ counts'.risksTaken = counts.risksTaken
  BY <1>1, CountTyped DEF AcceptLog
<1>3. Accounted(log_events', counts'.logs, counts'.logsTaken, dropped_logs')
  BY <1>1, <1>2, PushAccounted, AccountedParts DEF AcceptLog, LogTypes, SharedTypes
<1>4. Accounted(risk_events', counts'.risks, counts'.risksTaken, dropped_risks')
  BY <1>2, AccountedParts DEF riskVars
<1>. QED  BY <1>3, <1>4 DEF EventsAccounted, Accounted

LEMMA EventStep ==
    ASSUME TypeOK, EventsAccounted, NEW t \in Threads, EventNext(t)
    PROVE  EventsAccounted'
<1>1. LogTypes /\ RiskTypes /\ SharedTypes
  BY TypeParts
<1>2. CASE SubmitAnonymousLog(t)
  BY <1>2, AcceptAccounted DEF SubmitAnonymousLog
<1>3. ASSUME NEW s \in Sessions, NEW now \in Stamps, SubmitLogEvent(t, s, now) PROVE EventsAccounted'
  <2>1. CASE BucketAt(s, now).tokens >= Second
    BY <1>3, <2>1, AcceptAccounted DEF SubmitLogEvent
  <2>2. CASE ~(BucketAt(s, now).tokens >= Second)
    BY <1>3, <2>2, AccountedFrame DEF SubmitLogEvent, riskVars
  <2>. QED  BY <2>1, <2>2
<1>4. CASE DequeueLogEvent(t)
  <2>1. CASE log_events = <<>>
    BY <1>4, <2>1, AccountedFrame DEF DequeueLogEvent, riskVars
  <2>2. CASE log_events # <<>>
    <3>1. /\ counts'.logs = counts.logs /\ counts'.logsTaken = counts.logsTaken + 1
          /\ counts'.risks = counts.risks /\ counts'.risksTaken = counts.risksTaken
      BY <1>1, <1>4, <2>2, CountTyped DEF DequeueLogEvent
    <3>2. Accounted(log_events', counts'.logs, counts'.logsTaken, dropped_logs')
      <4>1. Accounted(Tail(log_events), counts.logs, counts.logsTaken + 1, dropped_logs)
        BY <1>1, <2>2, TakeAccounted, AccountedParts DEF LogTypes, SharedTypes
      <4>. QED  BY <1>4, <2>2, <3>1, <4>1 DEF DequeueLogEvent
    <3>3. Accounted(risk_events', counts'.risks, counts'.risksTaken, dropped_risks')
      BY <1>4, <3>1, AccountedParts DEF DequeueLogEvent, riskVars
    <3>. QED  BY <3>2, <3>3 DEF EventsAccounted, Accounted
  <2>. QED  BY <2>1, <2>2
<1>5. CASE SubmitRiskEvent(t)
  <2>1. /\ counts'.risks = counts.risks + 1 /\ counts'.risksTaken = counts.risksTaken
        /\ counts'.logs = counts.logs /\ counts'.logsTaken = counts.logsTaken
        /\ flow.risks \in Nat \ {0}
    BY <1>1, <1>5, CountTyped, Constants DEF SubmitRiskEvent, SharedTypes
  <2>2. Accounted(risk_events', counts'.risks, counts'.risksTaken, dropped_risks')
    BY <1>1, <1>5, <2>1, PushAccounted, AccountedParts DEF SubmitRiskEvent, RiskTypes, SharedTypes
  <2>3. Accounted(log_events', counts'.logs, counts'.logsTaken, dropped_logs')
    BY <1>5, <2>1, AccountedParts DEF SubmitRiskEvent, logVars
  <2>. QED  BY <2>2, <2>3 DEF EventsAccounted, Accounted
<1>6. CASE DequeueRiskEvent(t)
  <2>1. CASE risk_events = <<>>
    BY <1>6, <2>1, AccountedFrame DEF DequeueRiskEvent, logVars
  <2>2. CASE risk_events # <<>>
    <3>1. /\ counts'.risks = counts.risks /\ counts'.risksTaken = counts.risksTaken + 1
          /\ counts'.logs = counts.logs /\ counts'.logsTaken = counts.logsTaken
      BY <1>1, <1>6, <2>2, CountTyped DEF DequeueRiskEvent
    <3>2. Accounted(risk_events', counts'.risks, counts'.risksTaken, dropped_risks')
      <4>1. Accounted(Tail(risk_events), counts.risks, counts.risksTaken + 1, dropped_risks)
        BY <1>1, <2>2, TakeAccounted, AccountedParts DEF RiskTypes, SharedTypes
      <4>. QED  BY <1>6, <2>2, <3>1, <4>1 DEF DequeueRiskEvent
    <3>3. Accounted(log_events', counts'.logs, counts'.logsTaken, dropped_logs')
      BY <1>6, <3>1, AccountedParts DEF DequeueRiskEvent, logVars
    <3>. QED  BY <3>2, <3>3 DEF EventsAccounted, Accounted
  <2>. QED  BY <2>1, <2>2
<1>. QED  BY <1>2, <1>3, <1>4, <1>5, <1>6 DEF EventNext

LEMMA AccountedInductive == TypeOK /\ EventsAccounted /\ [Next]_vars => EventsAccounted'
<1> SUFFICES ASSUME TypeOK, EventsAccounted, [Next]_vars PROVE EventsAccounted'
  OBVIOUS
<1>1. ASSUME UNCHANGED eventVars PROVE EventsAccounted'
  BY <1>1, AccountedFrame DEF eventVars, logVars, riskVars
<1>2. CASE Clear
  BY <1>2 DEF Clear, NoEvents, EventsAccounted, AreLatest
<1>3. CASE Start \/ Stop \/ (\E t \in Threads : Enter(t)) \/ UNCHANGED vars
  BY <1>1, <1>3 DEF Start, Stop, Enter, vars
<1>4. ASSUME NEW t \in Threads, CommandNext(t) PROVE EventsAccounted'
  BY <1>1, <1>4 DEF CommandNext, DequeueCommand, EnqueueCommand, TakeCommandResult,
                    SubmitCommandResult, SweepExpiredCommandResults
<1>5. ASSUME NEW p \in CachePolicies, SetIdempotencyCachePolicy(p) PROVE EventsAccounted'
  BY <1>1, <1>5 DEF SetIdempotencyCachePolicy
<1>6. ASSUME NEW p \in FlowPolicies, SetFlowControlPolicy(p) PROVE EventsAccounted'
  <2>1. LogTypes /\ RiskTypes /\ SharedTypes /\ p.logs \in Nat \ {0} /\ p.risks \in Nat \ {0}
    BY TypeParts, Constants
  <2>2. Accounted(log_events', counts'.logs, counts'.logsTaken, dropped_logs')
    BY <1>6, <2>1, TrimAccounted, AccountedParts DEF SetFlowControlPolicy, LogTypes, SharedTypes
  <2>3. Accounted(risk_events', counts'.risks, counts'.risksTaken, dropped_risks')
    BY <1>6, <2>1, TrimAccounted, AccountedParts DEF SetFlowControlPolicy, RiskTypes, SharedTypes
  <2>. QED  BY <2>2, <2>3 DEF EventsAccounted, Accounted
<1>. QED  BY <1>2, <1>3, <1>4, <1>5, <1>6, EventStep DEF Next

\* No event is lost uncounted or repeated, and the latest are kept.
THEOREM EventsAccountedCorrect == Spec => []EventsAccounted
<1>1. Init => EventsAccounted
  BY DEF Init, NoEvents, EventsAccounted, AreLatest
<1>. QED  BY <1>1, TypeInit, TypeInductive, AccountedInductive, PTL DEF Spec

-----------------------------------------------------------------------------
(* The rate limit.  What a bucket holds and has let pass is paid for by one *)
(* full bucket and the rate over the time its stamps span.                  *)

Paid(b, n, start, rate, burst) ==
    /\ b.tokens <= burst * Second
    /\ n * Second + b.tokens <= burst * Second + (b.last - start) * rate
    /\ start <= b.last

RateInv(rate, burst) ==
    \A s \in Sessions :
        /\ buckets[s].last = 0 => passed[s] = 0
        /\ Paid(buckets[s], passed[s], since[s], rate, burst)

LEMMA RateImplied ==
    ASSUME NEW rate, NEW burst, RateInv(rate, burst) PROVE RateBound(rate, burst)
BY DEF RateInv, Paid, RateBound

LEMMA ProductLess ==
    ASSUME NEW a \in Nat, NEW b \in Nat, NEW k \in Nat, a <= b
    PROVE  a * k <= b * k /\ k * a <= k * b
<1>1. (b - a) * k \in Nat /\ k * (b - a) \in Nat
  BY b - a \in Nat, Products
<1>2. (b - a) * k = b * k - a * k /\ k * (b - a) = k * b - k * a
  OBVIOUS
<1>3. a * k \in Nat /\ b * k \in Nat /\ k * a \in Nat /\ k * b \in Nat
  BY Products
<1>. QED  BY <1>1, <1>2, <1>3

LEMMA Distributes ==
    ASSUME NEW a \in Nat, NEW b \in Nat, NEW k \in Nat
    PROVE  (a + b) * k = a * k + b * k
OBVIOUS

LEMMA OpenedPaid ==
    ASSUME SharedTypes, NEW b \in [tokens : Nat, last : Nat], NEW n \in Nat, NEW start \in Nat,
           NEW rate \in Nat, NEW burst \in Nat, flow.burst <= burst, NEW now \in Stamps,
           b.last = 0 => n = 0, Paid(b, n, start, rate, burst)
    PROVE  LET o == Opened(b, now)
           IN  Paid(o, n, IF b.last = 0 THEN o.last ELSE start, rate, burst)
<1>1. CASE b.last = 0
  <2> DEFINE o == Opened(b, now)
  <2>1. o.tokens = flow.burst * Second /\ o.last \in Nat /\ o.last - o.last = 0 /\ n * Second = 0
    BY <1>1, Constants DEF Opened
  <2>2. flow.burst * Second <= burst * Second /\ flow.burst * Second \in Nat /\ burst * Second \in Nat
    BY ProductLess, Products, Constants DEF SharedTypes
  <2>3. 0 * rate = 0
    OBVIOUS
  <2>. QED  BY <1>1, <2>1, <2>2, <2>3 DEF Paid
<1>2. CASE b.last # 0
  BY <1>2 DEF Opened
<1>. QED  BY <1>1, <1>2

\* Time from start to last, and from there to now, adds up.
LEMMA RefillPaid ==
    ASSUME NEW start \in Nat, NEW last \in Nat, NEW now \in Nat, start <= last, last <= now,
           NEW r \in Nat, NEW rate \in Nat, r <= rate,
           NEW used \in Nat, NEW tokens \in Nat, NEW full \in Nat, NEW filled \in Nat,
           used + tokens <= full + (last - start) * rate,
           filled <= tokens + (now - last) * r
    PROVE  used + filled <= full + (now - start) * rate
<1>1. PICK d \in Nat, e \in Nat : d = now - last /\ e = last - start /\ now - start = d + e
  BY now - last \in Nat, last - start \in Nat
<1>2. d * r <= d * rate /\ d * r \in Nat /\ d * rate \in Nat /\ e * rate \in Nat
  BY ProductLess, Products
<1>3. (d + e) * rate = d * rate + e * rate
  BY Distributes
<1>4. used + filled <= full + (d * rate + e * rate)
  BY <1>1, <1>2
<1>. QED  BY <1>1, <1>3, <1>4

LEMMA RefilledPaid ==
    ASSUME SharedTypes, NEW b \in [tokens : Nat, last : Nat], NEW n \in Nat, NEW start \in Nat,
           NEW rate \in Nat, NEW burst \in Nat, flow.burst <= burst, flow.rate <= rate,
           NEW now \in Stamps, Paid(b, n, start, rate, burst)
    PROVE  Paid(Refilled(b, now), n, start, rate, burst) /\ Refilled(b, now).last >= b.last
<1>1. CASE now > b.last
  <2> DEFINE fill == b.tokens + (now - b.last) * flow.rate
             full == flow.burst * Second
  <2>1. now - b.last \in Nat /\ now \in Nat /\ flow.rate \in Nat /\ flow.burst \in Nat
    BY <1>1, Constants DEF SharedTypes
  <2>2. /\ (now - b.last) * flow.rate \in Nat /\ full <= burst * Second
        /\ full \in Nat /\ burst * Second \in Nat /\ n * Second \in Nat
    BY <2>1, ProductLess, Products, Constants
  <2>3. Lesser(full, fill) \in Nat /\ Lesser(full, fill) <= full /\ Lesser(full, fill) <= fill
    <3>1. fill \in Nat /\ full \in Nat
      BY <2>2
    <3>. HIDE DEF fill, full
    <3>. QED  BY <3>1, LesserAt
  <2>4. Refilled(b, now) = [tokens |-> Lesser(full, fill), last |-> now]
    BY <1>1 DEF Refilled
  <2>5. n * Second + Lesser(full, fill) <= burst * Second + (now - start) * rate
    <3> DEFINE filled == Lesser(full, fill)
               used == n * Second
               most == burst * Second
    <3>1. /\ b.last \in Nat /\ b.tokens \in Nat /\ start <= b.last /\ b.last <= now
          /\ used + b.tokens <= most + (b.last - start) * rate
      BY <1>1, <2>1 DEF Paid
    <3>2. filled \in Nat /\ used \in Nat /\ most \in Nat
          /\ filled <= b.tokens + (now - b.last) * flow.rate
      BY <2>2, <2>3
    <3>. HIDE DEF filled, used, most
    <3>3. used + filled <= most + (now - start) * rate
      BY <2>1, <3>1, <3>2, RefillPaid
    <3>. QED  BY <3>3 DEF filled, used, most
  <2>6. Lesser(full, fill) <= burst * Second /\ start <= now
    BY <1>1, <2>1, <2>2, <2>3 DEF Paid
  <2>. QED  BY <1>1, <2>1, <2>4, <2>5, <2>6 DEF Paid
<1>2. CASE ~(now > b.last)
  BY <1>2 DEF Refilled
<1>. QED  BY <1>1, <1>2

LEMMA TakePaid ==
    ASSUME NEW b \in [tokens : Nat, last : Nat], NEW n \in Nat, NEW start \in Nat,
           NEW rate \in Nat, NEW burst \in Nat, b.tokens >= Second,
           Paid(b, n, start, rate, burst)
    PROVE  Paid([b EXCEPT !.tokens = @ - Second], n + 1, start, rate, burst)
<1> DEFINE most == burst * Second
           span == (b.last - start) * rate
<1>1. Second \in Nat /\ most \in Nat /\ span \in Nat /\ n * Second \in Nat
  BY Constants, Products, b.last - start \in Nat DEF Paid
<1>2. (n + 1) * Second = n * Second + Second
  BY <1>1
<1>3. n * Second + b.tokens <= most + span /\ b.tokens <= most /\ start <= b.last
  BY DEF Paid
<1>. HIDE DEF most, span
<1>4. /\ b.tokens - Second <= most
      /\ (n + 1) * Second + (b.tokens - Second) <= most + span
  BY <1>1, <1>2, <1>3
<1>. QED  BY <1>3, <1>4 DEF Paid, most, span

LEMMA RateFrame ==
    ASSUME NEW rate, NEW burst, RateInv(rate, burst), UNCHANGED <<buckets, passed, since>>
    PROVE  RateInv(rate, burst)'
BY DEF RateInv, Paid

LEMMA RateStep ==
    ASSUME TypeOK, NEW rate \in Nat, NEW burst \in Nat, RateInv(rate, burst),
           \A p \in FlowPolicies : p.rate <= rate /\ p.burst <= burst,
           NEW t \in Threads, NEW s \in Sessions, NEW now \in Stamps, SubmitLogEvent(t, s, now)
    PROVE  RateInv(rate, burst)'
<1> DEFINE o == Opened(buckets[s], now)
           b == BucketAt(s, now)
           start == IF buckets[s].last = 0 THEN o.last ELSE since[s]
<1>1. LogTypes /\ SharedTypes /\ flow.rate <= rate /\ flow.burst <= burst
  BY TypeParts DEF SharedTypes
<1>2. /\ buckets[s] \in [tokens : Nat, last : Nat] /\ passed[s] \in Nat /\ since[s] \in Nat
      /\ o \in [tokens : Nat, last : Nat] /\ b \in [tokens : Nat, last : Nat] /\ start \in Nat
  BY <1>1, OpenedTyped, RefilledTyped DEF LogTypes, BucketAt
<1>3. Paid(o, passed[s], start, rate, burst) /\ o.last > 0
  <2>1. Paid(o, passed[s], start, rate, burst)
    BY <1>1, <1>2, OpenedPaid DEF RateInv
  <2>2. o.last > 0
    BY <1>2, Constants DEF Opened
  <2>. QED  BY <2>1, <2>2
<1>4. Paid(b, passed[s], start, rate, burst) /\ b.last > 0
  BY <1>1, <1>2, <1>3, RefilledPaid DEF BucketAt
<1>5. since' = [since EXCEPT ![s] = start]
  <2>1. since' = IF buckets[s].last = 0 THEN [since EXCEPT ![s] = o.last] ELSE since
    BY Zenon DEF SubmitLogEvent
  <2>2. since \in [Sessions -> Nat]
    BY <1>1 DEF LogTypes
  <2>. HIDE DEF o
  <2>3. CASE buckets[s].last = 0
    BY <2>1, <2>3
  <2>4. CASE buckets[s].last # 0
    <3>1. since' = since /\ start = since[s]
      BY <2>1, <2>4
    <3>. QED  BY <2>2, <3>1, Zenon
  <2>. QED  BY <2>3, <2>4
<1>. HIDE DEF o, b, start
<1>6. ASSUME NEW e \in [tokens : Nat, last : Nat], NEW n \in Nat, e.last > 0,
             buckets' = [buckets EXCEPT ![s] = e], passed' = [passed EXCEPT ![s] = n],
             Paid(e, n, start, rate, burst)
      PROVE  RateInv(rate, burst)'
  <2>1. /\ buckets'[s] = e /\ passed'[s] = n /\ since'[s] = start
        /\ \A u \in Sessions \ {s} : /\ buckets'[u] = buckets[u] /\ passed'[u] = passed[u]
                                     /\ since'[u] = since[u]
    BY <1>1, <1>5, <1>6 DEF LogTypes
  <2>. QED  BY <1>6, <2>1 DEF RateInv, Paid
<1>7. CASE b.tokens >= Second
  <2> DEFINE e == [b EXCEPT !.tokens = @ - Second]
  <2>1. e \in [tokens : Nat, last : Nat] /\ e.last = b.last
    BY <1>2, <1>7, Constants
  <2>2. Paid(e, passed[s] + 1, start, rate, burst)
    BY <1>2, <1>4, <1>7, TakePaid
  <2>3. buckets' = [buckets EXCEPT ![s] = e] /\ passed' = [passed EXCEPT ![s] = passed[s] + 1]
    BY <1>7 DEF SubmitLogEvent, b
  <2>4. passed[s] + 1 \in Nat /\ e.last > 0
    BY <1>2, <1>4, <2>1
  <2>. HIDE DEF e
  <2>. QED  BY <1>6, <2>1, <2>2, <2>3, <2>4
<1>8. CASE ~(b.tokens >= Second)
  <2>1. buckets' = [buckets EXCEPT ![s] = b] /\ passed' = [passed EXCEPT ![s] = passed[s]]
    BY <1>1, <1>8 DEF SubmitLogEvent, b, LogTypes
  <2>. QED  BY <1>2, <1>4, <1>6, <2>1
<1>. QED  BY <1>7, <1>8

LEMMA RateClear ==
    ASSUME NEW rate \in Nat, NEW burst \in Nat,
           buckets' = [s \in Sessions |-> NewBucket], passed' = [s \in Sessions |-> 0],
           since' = [s \in Sessions |-> 0]
    PROVE  RateInv(rate, burst)'
<1>1. burst * Second \in Nat /\ (0 - 0) * rate = 0 /\ 0 * Second = 0
  BY Constants, Products
<1>. QED  BY <1>1 DEF RateInv, Paid, NewBucket

LEMMA RateInductive ==
    ASSUME NEW rate \in Nat, NEW burst \in Nat,
           \A p \in FlowPolicies : p.rate <= rate /\ p.burst <= burst
    PROVE  TypeOK /\ RateInv(rate, burst) /\ [Next]_vars => RateInv(rate, burst)'
<1> SUFFICES ASSUME TypeOK, RateInv(rate, burst), [Next]_vars PROVE RateInv(rate, burst)'
  OBVIOUS
<1>1. ASSUME UNCHANGED <<buckets, passed, since>> PROVE RateInv(rate, burst)'
  BY <1>1, RateFrame
<1>2. CASE Clear
  BY <1>2, RateClear DEF Clear
<1>3. CASE Start \/ Stop \/ (\E t \in Threads : Enter(t)) \/ UNCHANGED vars
  BY <1>1, <1>3 DEF Start, Stop, Enter, vars, eventVars, logVars
<1>4. ASSUME NEW t \in Threads, CommandNext(t) PROVE RateInv(rate, burst)'
  BY <1>1, <1>4 DEF CommandNext, DequeueCommand, EnqueueCommand, TakeCommandResult,
                    SubmitCommandResult, SweepExpiredCommandResults, eventVars, logVars
<1>5. ASSUME NEW t \in Threads, EventNext(t) PROVE RateInv(rate, burst)'
  <2>1. ASSUME NEW s \in Sessions, NEW now \in Stamps, SubmitLogEvent(t, s, now)
        PROVE  RateInv(rate, burst)'
    BY <2>1, RateStep
  <2>2. CASE SubmitAnonymousLog(t) \/ DequeueLogEvent(t) \/ SubmitRiskEvent(t) \/ DequeueRiskEvent(t)
    BY <1>1, <2>2 DEF SubmitAnonymousLog, DequeueLogEvent, SubmitRiskEvent, DequeueRiskEvent, logVars
  <2>. QED  BY <1>5, <2>1, <2>2 DEF EventNext
<1>6. ASSUME NEW p \in FlowPolicies, SetFlowControlPolicy(p) PROVE RateInv(rate, burst)'
  BY <1>1, <1>6 DEF SetFlowControlPolicy
<1>7. ASSUME NEW p \in CachePolicies, SetIdempotencyCachePolicy(p) PROVE RateInv(rate, burst)'
  BY <1>1, <1>7 DEF SetIdempotencyCachePolicy, eventVars, logVars
<1>. QED  BY <1>2, <1>3, <1>4, <1>5, <1>6, <1>7 DEF Next

Highest(p, q) == \A r \in FlowPolicies : r.rate <= p.rate /\ r.burst <= q.burst
RateInvs == \A p, q \in FlowPolicies : Highest(p, q) => RateInv(p.rate, q.burst)

\* No session exceeds a burst and the highest rate over the time it claims.
THEOREM RateLimitedCorrect == Spec => []RateLimited
<1>1. Init => RateInvs
  <2> SUFFICES ASSUME Init, NEW p \in FlowPolicies, NEW q \in FlowPolicies
      PROVE  RateInv(p.rate, q.burst)
    BY DEF RateInvs
  <2>1. q.burst * Second \in Nat /\ (0 - 0) * p.rate = 0 /\ 0 * Second = 0
    BY Constants, Products
  <2>. QED  BY <2>1 DEF Init, RateInv, Paid, NewBucket
<1>2. TypeOK /\ RateInvs /\ [Next]_vars => RateInvs'
  <2> SUFFICES ASSUME TypeOK, RateInvs, [Next]_vars,
                      NEW p \in FlowPolicies, NEW q \in FlowPolicies, Highest(p, q)
      PROVE  RateInv(p.rate, q.burst)'
    BY DEF RateInvs, Highest
  <2>. QED  BY Constants, RateInductive DEF RateInvs, Highest
<1>3. RateInvs => RateLimited
  BY RateImplied DEF RateInvs, Highest, RateLimited
<1>. QED  BY <1>1, <1>2, <1>3, TypeInit, TypeInductive, PTL DEF Spec

-----------------------------------------------------------------------------
(* Bounds.  The cache is finite, so pruning and removing keep it within the  *)
(* policy; a queue is cut before it grows.                                   *)

CacheBounded == IsFiniteSet(DOMAIN results) /\ Cardinality(DOMAIN results) <= cache.entries
QueuesBounded == Len(log_events) <= flow.logs /\ Len(risk_events) <= flow.risks

LEMMA PrunedBounded ==
    ASSUME NEW r, IsFiniteSet(DOMAIN r), NEW n \in Nat, NEW s \in Pruned(r, n)
    PROVE  IsFiniteSet(DOMAIN s) /\ Cardinality(DOMAIN s) <= n
<1>1. Cardinality(DOMAIN r) \in Nat
  BY FS_CardinalityType
<1>2. PICK k \in SUBSET DOMAIN r :
         /\ s = Restrict(r, k)
         /\ Cardinality(k) = IF Cardinality(DOMAIN r) > n THEN n ELSE Cardinality(DOMAIN r)
  BY DEF Pruned
<1>3. DOMAIN s = k
  BY <1>2 DEF Restrict
<1>. QED  BY <1>1, <1>2, <1>3, FS_Subset

LEMMA CacheShrinks ==
    ASSUME TypeOK, CacheBounded, DOMAIN results' \subseteq DOMAIN results, UNCHANGED cache
    PROVE  CacheBounded'
<1>1. cache.entries \in Nat
  BY Constants DEF TypeOK
<1>2. /\ IsFiniteSet(DOMAIN results') /\ Cardinality(DOMAIN results') <= Cardinality(DOMAIN results)
      /\ Cardinality(DOMAIN results) \in Nat /\ Cardinality(DOMAIN results') \in Nat
  BY FS_Subset, FS_CardinalityType DEF CacheBounded
<1>. QED  BY <1>1, <1>2 DEF CacheBounded

LEMMA ResultBounded ==
    ASSUME TypeOK, CacheBounded, NEW t \in Threads, NEW c \in Commands, NEW success \in BOOLEAN,
           NEW at \in Stamps, SubmitCommandResult(t, c, success, at)
    PROVE  CacheBounded'
<1>1. cache.entries \in Nat /\ cache' = cache
  BY Constants DEF TypeOK, SubmitCommandResult
<1>2. CASE c \in DOMAIN results
  BY <1>1, <1>2 DEF SubmitCommandResult, CacheBounded
<1>3. CASE c \notin DOMAIN results
  <2> DEFINE w == With(results, c, [success |-> success, at |-> at])
  <2>1. DOMAIN w = DOMAIN results \cup {c}
    BY DEF With
  <2>2. IsFiniteSet(DOMAIN w)
    BY <2>1, FS_AddElement DEF CacheBounded
  <2>3. results' \in Pruned(w, cache.entries)
    BY <1>3 DEF SubmitCommandResult
  <2>. HIDE DEF w
  <2>. QED  BY <1>1, <2>2, <2>3, PrunedBounded DEF CacheBounded
<1>. QED  BY <1>2, <1>3

LEMMA CacheInductive == TypeOK /\ CacheBounded /\ [Next]_vars => CacheBounded'
<1> SUFFICES ASSUME TypeOK, CacheBounded, [Next]_vars PROVE CacheBounded'
  OBVIOUS
<1>1. CASE Clear
  <2>1. DOMAIN results' = {} /\ cache' = DefaultCache
    BY <1>1 DEF Clear
  <2>2. IsFiniteSet({}) /\ Cardinality({}) = 0
    BY FS_EmptySet
  <2>. QED  BY <2>1, <2>2, PolicyAssumption DEF CacheBounded
<1>2. ASSUME NEW t \in Threads, NEW c \in Commands, NEW success \in BOOLEAN, NEW at \in Stamps,
             SubmitCommandResult(t, c, success, at)
      PROVE  CacheBounded'
  BY <1>2, ResultBounded
<1>3. ASSUME NEW t \in Threads, CommandNext(t) PROVE CacheBounded'
  <2>1. ASSUME NEW c \in Commands, TakeCommandResult(t, c) PROVE CacheBounded'
    BY <2>1, CacheShrinks DEF TakeCommandResult, Restrict
  <2>2. ASSUME NEW now \in Stamps, SweepExpiredCommandResults(t, now) PROVE CacheBounded'
    BY <2>2, CacheShrinks DEF SweepExpiredCommandResults, Restrict
  <2>3. ASSUME UNCHANGED <<results, cache>> PROVE CacheBounded'
    BY <2>3, CacheShrinks
  <2>. QED  BY <1>2, <1>3, <2>1, <2>2, <2>3 DEF CommandNext, DequeueCommand, EnqueueCommand
<1>4. ASSUME NEW p \in CachePolicies, SetIdempotencyCachePolicy(p) PROVE CacheBounded'
  <2>1. p.entries \in Nat /\ cache' = p /\ results' \in Pruned(results, p.entries)
    BY <1>4, PolicyAssumption DEF SetIdempotencyCachePolicy
  <2>. QED  BY <2>1, PrunedBounded DEF CacheBounded
<1>5. ASSUME UNCHANGED commandVars PROVE CacheBounded'
  BY <1>5, CacheShrinks DEF commandVars
<1>6. CASE Start \/ Stop \/ (\E t \in Threads : Enter(t)) \/ UNCHANGED vars
  BY <1>5, <1>6 DEF Start, Stop, Enter, vars
<1>7. ASSUME NEW t \in Threads, EventNext(t) PROVE CacheBounded'
  BY <1>5, <1>7 DEF EventNext, SubmitAnonymousLog, SubmitLogEvent, DequeueLogEvent,
                    SubmitRiskEvent, DequeueRiskEvent
<1>8. ASSUME NEW p \in FlowPolicies, SetFlowControlPolicy(p) PROVE CacheBounded'
  BY <1>5, <1>8 DEF SetFlowControlPolicy
<1>. QED  BY <1>1, <1>3, <1>4, <1>6, <1>7, <1>8 DEF Next

LEMMA PushBounded ==
    ASSUME NEW q \in Seq(Nat), NEW e \in Nat, NEW max \in Nat \ {0}, Len(q) <= max
    PROVE  Len(PushLatest(q, e, max)) <= max
<1>1. CASE Len(q) >= max
  BY <1>1, TailAt, AppendAt DEF PushLatest
<1>2. CASE ~(Len(q) >= max)
  BY <1>2, AppendAt DEF PushLatest
<1>. QED  BY <1>1, <1>2

LEMMA QueuesInductive == TypeOK /\ QueuesBounded /\ [Next]_vars => QueuesBounded'
<1> SUFFICES ASSUME TypeOK, QueuesBounded, [Next]_vars PROVE QueuesBounded'
  OBVIOUS
<1>1. /\ LogTypes /\ RiskTypes /\ SharedTypes
      /\ flow.logs \in Nat \ {0} /\ flow.risks \in Nat \ {0}
  BY TypeParts, Constants DEF SharedTypes
<1>2. ASSUME UNCHANGED <<log_events, risk_events, flow>> PROVE QueuesBounded'
  BY <1>2 DEF QueuesBounded
<1>3. CASE Clear
  <2>1. DefaultFlow.logs \in Nat /\ DefaultFlow.risks \in Nat
    BY Constants, PolicyAssumption
  <2>. QED  BY <1>3, <2>1 DEF Clear, QueuesBounded
<1>4. ASSUME AcceptLog, UNCHANGED <<riskVars, flow>> PROVE QueuesBounded'
  <2>1. counts.logs + 1 \in Nat
    BY <1>1 DEF SharedTypes
  <2>. QED  BY <1>1, <1>4, <2>1, PushBounded DEF AcceptLog, QueuesBounded, LogTypes, riskVars
<1>5. ASSUME NEW t \in Threads, EventNext(t) PROVE QueuesBounded'
  <2>1. CASE SubmitAnonymousLog(t)
    BY <1>4, <2>1 DEF SubmitAnonymousLog
  <2>2. ASSUME NEW s \in Sessions, NEW now \in Stamps, SubmitLogEvent(t, s, now)
        PROVE  QueuesBounded'
    <3>1. CASE BucketAt(s, now).tokens >= Second
      BY <1>4, <2>2, <3>1 DEF SubmitLogEvent
    <3>2. CASE ~(BucketAt(s, now).tokens >= Second)
      BY <1>2, <2>2, <3>2 DEF SubmitLogEvent, riskVars
    <3>. QED  BY <3>1, <3>2
  <2>3. CASE DequeueLogEvent(t)
    <3>1. CASE log_events = <<>>
      BY <1>2, <2>3, <3>1 DEF DequeueLogEvent, riskVars
    <3>2. CASE log_events # <<>>
      BY <1>1, <2>3, <3>2, TailAt DEF DequeueLogEvent, QueuesBounded, LogTypes, riskVars
    <3>. QED  BY <3>1, <3>2
  <2>4. CASE SubmitRiskEvent(t)
    <3>1. counts.risks + 1 \in Nat
      BY <1>1 DEF SharedTypes
    <3>. QED  BY <1>1, <2>4, <3>1, PushBounded DEF SubmitRiskEvent, QueuesBounded, RiskTypes, logVars
  <2>5. CASE DequeueRiskEvent(t)
    <3>1. CASE risk_events = <<>>
      BY <1>2, <2>5, <3>1 DEF DequeueRiskEvent, logVars
    <3>2. CASE risk_events # <<>>
      BY <1>1, <2>5, <3>2, TailAt DEF DequeueRiskEvent, QueuesBounded, RiskTypes, logVars
    <3>. QED  BY <3>1, <3>2
  <2>. QED  BY <1>5, <2>1, <2>2, <2>3, <2>4, <2>5 DEF EventNext
<1>6. ASSUME NEW p \in FlowPolicies, SetFlowControlPolicy(p) PROVE QueuesBounded'
  <2>1. p.logs \in Nat \ {0} /\ p.risks \in Nat \ {0}
    BY Constants
  <2>2. \A q \in Seq(Nat), max \in Nat \ {0} : Len(Latest(q, max)) <= max
    BY ExcessAt DEF Excess
  <2>. QED  BY <1>1, <1>6, <2>1, <2>2 DEF SetFlowControlPolicy, QueuesBounded, LogTypes, RiskTypes
<1>7. CASE Start \/ Stop \/ (\E t \in Threads : Enter(t)) \/ UNCHANGED vars
  BY <1>2, <1>7 DEF Start, Stop, Enter, vars, eventVars, logVars, riskVars
<1>8. ASSUME NEW t \in Threads, CommandNext(t) PROVE QueuesBounded'
  BY <1>2, <1>8 DEF CommandNext, DequeueCommand, EnqueueCommand, TakeCommandResult,
                    SubmitCommandResult, SweepExpiredCommandResults, eventVars, logVars, riskVars
<1>9. ASSUME NEW p \in CachePolicies, SetIdempotencyCachePolicy(p) PROVE QueuesBounded'
  BY <1>2, <1>9 DEF SetIdempotencyCachePolicy, eventVars, logVars, riskVars
<1>. QED  BY <1>3, <1>5, <1>6, <1>7, <1>8, <1>9 DEF Next

LEMMA BoundsInit == Init => CacheBounded /\ QueuesBounded
<1> SUFFICES ASSUME Init PROVE CacheBounded /\ QueuesBounded
  OBVIOUS
<1>1. DOMAIN results = {} /\ IsFiniteSet({}) /\ Cardinality({}) = 0
  BY FS_EmptySet DEF Init
<1>. QED  BY <1>1, PolicyAssumption DEF Init, CacheBounded, QueuesBounded

\* The result cache keeps to its policy, through every change.
THEOREM CacheWithinPolicyCorrect == Spec => []CacheWithinPolicy
<1>1. CacheBounded => CacheWithinPolicy
  BY DEF CacheBounded, CacheWithinPolicy
<1>. QED  BY <1>1, BoundsInit, TypeInit, TypeInductive, CacheInductive, PTL DEF Spec

\* So do the queues.
THEOREM QueuesWithinPolicyCorrect == Spec => []QueuesWithinPolicy
<1>1. QueuesBounded => QueuesWithinPolicy
  BY DEF QueuesBounded, QueuesWithinPolicy
<1>. QED  BY <1>1, BoundsInit, TypeInit, TypeInductive, QueuesInductive, PTL DEF Spec
=============================================================================
