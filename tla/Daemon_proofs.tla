---------------------------- MODULE Daemon_proofs ----------------------------
(* Proofs about Daemon, with its pipe server (IpcServer) and its modules     *)
(* (ModuleManager): for any finite pool of workers, any handle values, any   *)
(* configuration and any guests.                                             *)
EXTENDS Daemon, FiniteSetTheorems, SequenceTheorems, TLAPS

-----------------------------------------------------------------------------
(* The pipe server: the inductive invariant.                               *)

\* Threads exist from start() to the end of stop(); the acceptor has a handle.
Threads ==
    /\ stop = "new" => accept = "none" /\ queue = <<>>
    /\ stop \in {"new", "down"} => \A w \in Workers : worker[w] \in {"none", "done"}
    /\ stop \in {"new"} => \A w \in Workers : worker[w] = "none"
    /\ stop \notin {"new", "down"} => \A w \in Workers : worker[w] # "none"
    /\ accept # "none" => current \in Handles
    /\ accept \in {"none", "queued", "create"} => current_accept = Invalid

\* The sentinels are in front, one for each worker that still runs.
Left == Cardinality({w \in Workers : worker[w] # "done"})
Sentinels ==
    /\ stop \notin {"join", "join_workers", "down"} =>
          /\ \A i \in DOMAIN queue : queue[i] # Invalid
          /\ \A w \in Workers : worker[w] # "done"
    /\ stop \in {"join", "join_workers"} =>
          /\ Left <= Len(queue)
          /\ \A i \in DOMAIN queue : queue[i] = Invalid <=> i <= Left

Queued == {i \in DOMAIN queue : queue[i] # Invalid}
InUse(h) == (\E i \in Queued : queue[i] = h) \/ (\E w \in Workers : Serves(w) /\ handle[w] = h)
Listens == accept \in {"connect", "connecting", "connected", "failed"} \/ (accept = "loop" /\ running)

\* A handle that the acceptor may still queue is nobody's.
Owners ==
    /\ \A i, j \in Queued : queue[i] = queue[j] => i = j
    /\ \A w \in Workers : Serves(w) =>
          /\ handle[w] \in Handles
          /\ \A i \in Queued : queue[i] # handle[w]
          /\ \A v \in Workers : Serves(v) /\ handle[v] = handle[w] => v = w
    /\ Listens => ~InUse(current)

\* Until stop() closes listen_handle_, whoever has it, a handle in use is open,
\* so that CreateNamedPipe cannot return it again.
Early == {"up", "cancel", "close"}
Open ==
    stop \in Early =>
        /\ \A h \in Handles : InUse(h) => pipe[h] # "closed"
        /\ Listens /\ accept # "failed" => pipe[current] # "closed"

\* processConnection() between the insertion into active_handles_ and the end.
Connected == {"read", "reading", "call", "write", "writing"}
Active == \A w \in Workers : worker[w] \in Connected => handle[w] \in active

PipeInv == IpcTypeOK /\ Threads /\ Sentinels /\ Owners /\ Open /\ Active

PipeNext == IpcStart \/ IpcStartFails \/ IpcStop \/ IpcSteps

LEMMA InvalidApart == Invalid \notin Handles
BY IpcAssumption DEF Invalid

LEMMA LeftIsNat == Left \in Nat /\ IsFiniteSet({w \in Workers : worker[w] # "done"})
<1>1. {w \in Workers : worker[w] # "done"} \subseteq Workers
  OBVIOUS
<1>. QED  BY <1>1, IpcAssumption, FS_Subset, FS_CardinalityType DEF Left

LEMMA PipeInit == IpcInit => PipeInv
<1> SUFFICES ASSUME IpcInit PROVE PipeInv
  OBVIOUS
<1>1. IpcTypeOK
  <2>1. queue \in Seq(Handles \cup {Invalid}) /\ consumed \in BOOLEAN
    BY DEF IpcInit
  <2>2. running = (stop = "up")
    <3>1. running = FALSE /\ stop = "new"
      BY DEF IpcInit
    <3>2. (stop = "up") = FALSE
      BY <3>1
    <3>. QED  BY <3>1, <3>2
  <2>. QED  BY <2>1, <2>2 DEF IpcInit, IpcTypeOK, StopPoints, AcceptPoints, WorkerPoints, Invalid
<1>2. Threads /\ Sentinels /\ Active
  BY DEF IpcInit, Threads, Sentinels, Active, Connected
<1>3. Owners /\ Open
  BY DEF IpcInit, Owners, Open, Early, Listens, Queued, Serves
<1>. QED  BY <1>1, <1>2, <1>3 DEF PipeInv

\* OneOwner, BlockedIsActive and SentinelEach follow.
LEMMA PipeImplies == PipeInv => IpcTypeOK /\ OneOwner /\ BlockedIsActive /\ SentinelEach
<1> SUFFICES ASSUME PipeInv PROVE OneOwner /\ BlockedIsActive /\ SentinelEach
  BY DEF PipeInv
<1>1. OneOwner
  BY DEF PipeInv, Owners, OneOwner, Queued
<1>2. BlockedIsActive
  BY DEF PipeInv, Active, BlockedIsActive, Blocked, Connected
<1>3. SentinelEach
  <2> SUFFICES ASSUME stop \in {"join", "join_workers"}
               PROVE  LET sentinels == {i \in DOMAIN queue : queue[i] = Invalid} IN
                      /\ Cardinality(sentinels) = Left
                      /\ \A i \in sentinels : i <= Cardinality(sentinels)
    BY DEF SentinelEach, Left
  <2> DEFINE sentinels == {i \in DOMAIN queue : queue[i] = Invalid}
  <2>1. Left <= Len(queue) /\ \A i \in DOMAIN queue : queue[i] = Invalid <=> i <= Left
    BY DEF PipeInv, Sentinels
  <2>2. DOMAIN queue = 1 .. Len(queue) /\ Len(queue) \in Nat
    BY DEF PipeInv, IpcTypeOK
  <2>3. sentinels = 1 .. Left
    BY <2>1, <2>2, LeftIsNat
  <2>4. Cardinality(sentinels) = Left
    <3>1. Cardinality(1 .. Left) = IF 1 > Left THEN 0 ELSE Left - 1 + 1
      BY LeftIsNat, FS_Interval
    <3>2. Cardinality(1 .. Left) = Left
      BY <3>1, LeftIsNat
    <3>. QED  BY <3>2, <2>3
  <2>. QED  BY <2>1, <2>4
<1>. QED  BY <1>1, <1>2, <1>3

-----------------------------------------------------------------------------
(* What keeps each part of it.                                             *)

LEMMA OwnersKeep ==
    ASSUME Owners, queue' = queue, handle' = handle, current' = current,
           \A w \in Workers : Serves(w)' => Serves(w), Listens' => Listens
    PROVE  Owners'
BY DEF Owners, InUse, Queued

LEMMA OpenKeep ==
    ASSUME Open, queue' = queue, handle' = handle, current' = current,
           \A w \in Workers : Serves(w)' => Serves(w),
           Listens' /\ accept' # "failed" => Listens /\ accept # "failed",
           stop' \in Early => stop \in Early,
           \A h \in Handles : pipe[h] # "closed" => pipe'[h] # "closed",
           Listens' => current \in Handles
    PROVE  Open'
BY DEF Open, InUse, Queued

LEMMA SentinelsKeep ==
    ASSUME Sentinels, queue' = queue, stop' = stop,
           \A w \in Workers : worker'[w] = "done" <=> worker[w] = "done"
    PROVE  Sentinels'
<1>1. {w \in Workers : worker'[w] # "done"} = {w \in Workers : worker[w] # "done"}
  OBVIOUS
<1>2. Left' = Left
  BY <1>1 DEF Left
<1>. QED  BY <1>2 DEF Sentinels

LEMMA RunningKeeps ==
    ASSUME running = (stop = "up"), running' = running, stop' = "up" <=> stop = "up"
    PROVE  running' = (stop' = "up")
<1>1. (stop' = "up") = (stop = "up")
  OBVIOUS
<1>. QED  BY <1>1

LEMMA AppendedQueue ==
    ASSUME NEW S, NEW q \in Seq(S), NEW e \in S
    PROVE  /\ Append(q, e) \in Seq(S) /\ Len(q) \in Nat
           /\ DOMAIN q = 1 .. Len(q) /\ DOMAIN Append(q, e) = 1 .. Len(q) + 1
           /\ \A i \in 1 .. Len(q) : Append(q, e)[i] = q[i]
           /\ Append(q, e)[Len(q) + 1] = e
OBVIOUS

-----------------------------------------------------------------------------
(* The acceptor.                                                           *)

LEMMA AcceptorTyped ==
    ASSUME PipeInv, Acceptor
    PROVE  /\ IpcTypeOK' /\ Threads' /\ Active'
           /\ UNCHANGED <<running, stop, listen, worker, handle, active>>
           /\ stop # "new" /\ accept # "none" /\ current \in Handles
<1>1. UNCHANGED <<running, stop, listen, worker, handle, active>> /\ accept # "none"
  BY DEF Acceptor, AcceptLooks, AcceptConnects, AcceptConnected, AcceptFailed, AcceptQueues,
         AcceptLooksAgain, AcceptCreates, AcceptUnchanged, AcceptGoes, workerVars
<1>2. accept' \in AcceptPoints /\ accept' # "none"
  BY DEF Acceptor, AcceptLooks, AcceptConnects, AcceptConnected, AcceptFailed, AcceptQueues,
         AcceptLooksAgain, AcceptCreates, AcceptGoes, AcceptPoints
<1>3. current \in Handles /\ stop # "new" /\ current_accept \in {Invalid, current}
      /\ pipe \in [Handles -> {"closed", "listening", "connected", "left"}]
      /\ queue \in Seq(Handles \cup {Invalid}) /\ consumed \in BOOLEAN
  BY <1>1 DEF PipeInv, Threads, IpcTypeOK
<1>4. /\ current' \in Handles /\ consumed' \in BOOLEAN
      /\ pipe' \in [Handles -> {"closed", "listening", "connected", "left"}]
  BY <1>3 DEF Acceptor, AcceptLooks, AcceptConnects, AcceptConnected, AcceptFailed, AcceptQueues,
              AcceptLooksAgain, AcceptCreates, Created, Closed
<1>5. current_accept' \in {Invalid, current'}
  <2>1. CASE AcceptCreates
    BY <2>1 DEF AcceptCreates, AcceptGoes, PipeInv, Threads
  <2>. QED  BY <1>3, <2>1 DEF Acceptor, AcceptLooks, AcceptConnects, AcceptConnected, AcceptFailed,
                AcceptQueues, AcceptLooksAgain
<1>6. queue' \in Seq(Handles \cup {Invalid})
  BY <1>3, AppendedQueue DEF Acceptor, AcceptLooks, AcceptConnects, AcceptConnected, AcceptFailed,
              AcceptQueues, AcceptLooksAgain, AcceptCreates
<1>7. IpcTypeOK'
  BY <1>1, <1>2, <1>4, <1>5, <1>6 DEF PipeInv, IpcTypeOK
<1>8. accept' \in {"queued", "create"} => current_accept' = Invalid
  BY DEF Acceptor, AcceptLooks, AcceptConnects, AcceptConnected, AcceptFailed, AcceptQueues,
         AcceptLooksAgain, AcceptCreates, AcceptGoes, PipeInv, Threads
<1>9. Threads' /\ Active'
  BY <1>1, <1>2, <1>3, <1>4, <1>8 DEF PipeInv, Threads, Active
<1>. QED  BY <1>1, <1>3, <1>7, <1>9
LEMMA AcceptorKeeps ==
    ASSUME PipeInv, Acceptor
    PROVE  PipeInv'
<1> USE DEF PipeInv
<1>1. /\ IpcTypeOK' /\ Threads' /\ Active'
      /\ UNCHANGED <<running, stop, listen, worker, handle, active>>
      /\ accept # "none" /\ current \in Handles
      /\ queue \in Seq(Handles \cup {Invalid})
      /\ pipe \in [Handles -> {"closed", "listening", "connected", "left"}]
  BY AcceptorTyped DEF Threads, IpcTypeOK
<1>2. \A w \in Workers : Serves(w)' <=> Serves(w)
  BY <1>1 DEF Serves
<1>3. running = (stop = "up")
  BY DEF IpcTypeOK
<1>4. CASE /\ UNCHANGED <<queue, current, pipe>>
           /\ Listens' => Listens
           /\ Listens' /\ accept' # "failed" => Listens /\ accept # "failed"
  <2>1. Owners'
    BY <1>1, <1>2, <1>4, OwnersKeep
  <2>2. Open'
    BY <1>1, <1>2, <1>4, OpenKeep
  <2>3. Sentinels'
    BY <1>1, <1>4, SentinelsKeep
  <2>. QED  BY <1>1, <2>1, <2>2, <2>3
<1>5. CASE AcceptLooks \/ AcceptConnects \/ AcceptConnected \/ AcceptLooksAgain
  <2>1. UNCHANGED <<queue, current, pipe, running>>
    BY <1>5, <1>1 DEF AcceptLooks, AcceptConnects, AcceptConnected, AcceptLooksAgain
  <2>2. /\ Listens' => Listens
        /\ Listens' /\ accept' # "failed" => Listens /\ accept # "failed"
    BY <1>5, <2>1 DEF AcceptLooks, AcceptConnects, AcceptConnected, AcceptLooksAgain, AcceptGoes, Listens
  <2>. QED  BY <1>4, <2>1, <2>2
<1>6. CASE AcceptFailed
  <2>1. /\ accept = "failed" /\ accept' = "done" /\ UNCHANGED <<queue, current>>
        /\ \A h \in Handles \ {current} : pipe'[h] = pipe[h]
    BY <1>6, <1>1 DEF AcceptFailed, AcceptGoes, Closed
  <2>2. ~Listens' /\ Listens
    BY <2>1 DEF Listens
  <2>3. Owners' /\ Sentinels'
    BY <1>1, <1>2, <2>1, <2>2, OwnersKeep, SentinelsKeep
  <2>4. \A h \in Handles : InUse(h)' => InUse(h) /\ h # current
    BY <1>1, <1>2, <2>1, <2>2 DEF InUse, Queued, Owners
  <2>5. Open'
    BY <1>1, <2>1, <2>2, <2>4 DEF Open
  <2>. QED  BY <1>1, <2>3, <2>5
<1>7. CASE AcceptQueues
  <2>1. /\ accept = "connected" /\ accept' = "queued" /\ UNCHANGED <<current, pipe>>
        /\ queue' = Append(queue, current)
    BY <1>7 DEF AcceptQueues, AcceptGoes
  <2>2. ~Listens' /\ Listens /\ ~InUse(current)
    BY <2>1 DEF Listens, Owners
  <2>3. /\ Len(queue) \in Nat /\ DOMAIN queue = 1 .. Len(queue)
        /\ DOMAIN queue' = 1 .. Len(queue) + 1 /\ Len(queue') = Len(queue) + 1
        /\ \A i \in 1 .. Len(queue) : queue'[i] = queue[i]
        /\ queue'[Len(queue) + 1] = current
    BY <1>1, <2>1, AppendedQueue
  <2>4. Queued' = Queued \cup {Len(queue) + 1} /\ Len(queue) + 1 \notin Queued
        /\ Queued \subseteq 1 .. Len(queue)
    BY <1>1, <2>3, InvalidApart DEF Queued
  <2>5. \A i \in Queued : queue'[i] = queue[i] /\ queue[i] # current
    BY <2>2, <2>3, <2>4 DEF InUse
  <2>6. \A w \in Workers : Serves(w) => handle[w] # current
    BY <2>2 DEF InUse
  <2>7. Owners'
    <3>1. \A i, j \in Queued' : queue'[i] = queue'[j] => i = j
      <4> SUFFICES ASSUME NEW i \in Queued', NEW j \in Queued', queue'[i] = queue'[j] PROVE i = j
        OBVIOUS
      <4>1. CASE i \in Queued /\ j \in Queued
        BY <2>5, <4>1 DEF Owners
      <4>2. CASE i = Len(queue) + 1 \/ j = Len(queue) + 1
        BY <2>3, <2>4, <2>5, <4>2
      <4>. QED  BY <2>4, <4>1, <4>2
    <3>2. \A w \in Workers : Serves(w)' =>
            /\ handle'[w] \in Handles
            /\ \A i \in Queued' : queue'[i] # handle'[w]
            /\ \A v \in Workers : Serves(v)' /\ handle'[v] = handle'[w] => v = w
      BY <1>1, <1>2, <2>3, <2>4, <2>5, <2>6 DEF Owners
    <3>. QED  BY <2>2, <3>1, <3>2 DEF Owners
  <2>8. Open'
    <3>1. \A h \in Handles : InUse(h)' => InUse(h) \/ h = current
      BY <1>1, <1>2, <2>3, <2>4, <2>5 DEF InUse
    <3>. QED  BY <1>1, <2>1, <2>2, <3>1 DEF Open
  <2>9. Sentinels'
    <3>1. Left' = Left
      BY <1>1 DEF Left
    <3>2. stop \in {"join", "join_workers"} => Left <= Len(queue)
      BY DEF Sentinels
    <3>. QED  BY <1>1, <2>3, <3>1, <3>2, LeftIsNat, InvalidApart DEF Sentinels
  <2>. QED  BY <1>1, <2>7, <2>8, <2>9
<1>8. CASE AcceptCreates
  <2>1. accept = "create" /\ queue' = queue /\ ~Listens
    BY <1>8 DEF AcceptCreates, AcceptGoes, Listens
  <2>2. CASE accept' = "done" /\ UNCHANGED <<current, pipe>>
    <3>1. ~Listens'
      BY <2>2 DEF Listens
    <3>. QED  BY <1>4, <2>1, <2>2, <3>1
  <2>3. CASE accept' = "loop" /\ \E h \in Handles : Created(h) /\ current' = h
    <3>1. PICK h \in Handles : Created(h) /\ current' = h
      BY <2>3
    <3>2. pipe[h] = "closed" /\ pipe' = [pipe EXCEPT ![h] = "listening"]
      BY <3>1 DEF Created
    <3>3. \A k \in Handles : InUse(k)' <=> InUse(k)
      BY <1>1, <1>2, <2>1 DEF InUse, Queued
    <3>4. Listens' => stop = "up" /\ ~InUse(h)
      <4>1. Listens' => running
        BY <2>3, <1>1 DEF Listens
      <4>2. running => stop = "up"
        BY <1>3
      <4>3. stop = "up" => ~InUse(h)
        BY <3>2 DEF Open, Early
      <4>. QED  BY <4>1, <4>2, <4>3
    <3>5. Owners'
      <4>1. Queued' = Queued
        BY <2>1 DEF Queued
      <4>. QED  BY <1>1, <1>2, <2>1, <3>1, <3>3, <3>4, <4>1 DEF Owners
    <3>6. Open'
      BY <1>1, <3>1, <3>2, <3>3 DEF Open
    <3>7. Sentinels'
      BY <1>1, <2>1, SentinelsKeep
    <3>. QED  BY <1>1, <3>5, <3>6, <3>7
  <2>. QED  BY <1>8, <2>2, <2>3 DEF AcceptCreates, AcceptGoes
<1>. QED  BY <1>5, <1>6, <1>7, <1>8 DEF Acceptor
-----------------------------------------------------------------------------
(* The workers.                                                            *)

LEMMA WorkerTyped ==
    ASSUME PipeInv, NEW w \in Workers, Worker(w)
    PROVE  /\ UNCHANGED <<running, stop, listen, accept, current, consumed, current_accept>>
           /\ worker[w] \notin {"none", "done"} /\ stop \notin {"new", "down"}
           /\ worker' \in [Workers -> WorkerPoints] /\ worker'[w] # "none"
           /\ \A v \in Workers : v # w => worker'[v] = worker[v]
           /\ worker \in [Workers -> WorkerPoints]
           /\ handle \in [Workers -> Handles \cup {Invalid}]
           /\ queue \in Seq(Handles \cup {Invalid})
           /\ pipe \in [Handles -> {"closed", "listening", "connected", "left"}]
           /\ Threads'
<1> USE DEF PipeInv
<1>1. /\ UNCHANGED <<running, stop, listen, accept, current, consumed, current_accept>>
      /\ worker[w] \notin {"none", "done"}
  BY DEF Worker, WorkerPops, WorkerInserts, WorkerReads, WorkerReceives, WorkerIoFails, WorkerReturns,
         WorkerWrites, WorkerWritten, WorkerEnds, WorkerCalls, WorkerUnchanged, acceptVars, Goes, Blocked
<1>2. \E to \in WorkerPoints \ {"none"} : worker' = [worker EXCEPT ![w] = to]
  BY DEF Worker, WorkerPops, WorkerInserts, WorkerReads, WorkerReceives, WorkerIoFails, WorkerReturns,
         WorkerWrites, WorkerWritten, WorkerEnds, WorkerCalls, Goes, Again, WorkerPoints
<1>3. /\ worker \in [Workers -> WorkerPoints] /\ handle \in [Workers -> Handles \cup {Invalid}]
      /\ queue \in Seq(Handles \cup {Invalid})
      /\ pipe \in [Handles -> {"closed", "listening", "connected", "left"}]
  BY DEF IpcTypeOK
<1>4. stop \notin {"new", "down"}
  BY <1>1 DEF Threads
<1>5. Threads'
  BY <1>1, <1>2, <1>3, <1>4 DEF Threads
<1>. QED  BY <1>1, <1>2, <1>3, <1>4, <1>5

\* A step within processConnection().
LEMMA WorkerServes ==
    ASSUME PipeInv, NEW w \in Workers, Worker(w), Serves(w), Serves(w)',
           worker'[w] \in Connected => handle[w] \in active,
           UNCHANGED <<queue, handle, active, pipe>>
    PROVE  PipeInv'
<1> USE DEF PipeInv
<1>1. \A v \in Workers : Serves(v)' => Serves(v)
  BY WorkerTyped DEF Serves
<1>2. Listens' <=> Listens
  BY WorkerTyped DEF Listens
<1>3. IpcTypeOK' /\ Threads'
  BY WorkerTyped DEF IpcTypeOK
<1>4. Owners'
  BY WorkerTyped, <1>1, <1>2, OwnersKeep
<1>5. Listens => current \in Handles
  BY DEF Listens, Threads
<1>6. Open'
  BY WorkerTyped, <1>1, <1>2, <1>5, OpenKeep
<1>7. \A v \in Workers : worker'[v] = "done" <=> worker[v] = "done"
  BY WorkerTyped DEF Serves
<1>8. Sentinels'
  BY WorkerTyped, <1>7, SentinelsKeep
<1>9. Active'
  BY WorkerTyped DEF Active
<1>. QED  BY <1>3, <1>4, <1>6, <1>8, <1>9

LEMMA WorkerMovesKeep ==
    ASSUME PipeInv, NEW w \in Workers,
           \/ WorkerReads(w) \/ WorkerReceives(w) \/ WorkerIoFails(w)
           \/ WorkerReturns(w) \/ WorkerWrites(w) \/ WorkerWritten(w)
    PROVE  PipeInv'
<1>1. worker[w] \in Connected /\ UNCHANGED <<queue, handle, active, pipe>>
  BY DEF WorkerReads, WorkerReceives, WorkerIoFails, WorkerReturns, WorkerWrites, WorkerWritten,
         WorkerCalls, Goes, Blocked, Connected
<1>2. worker'[w] \in Connected \cup {"erase"}
  BY DEF WorkerReads, WorkerReceives, WorkerIoFails, WorkerReturns, WorkerWrites, WorkerWritten,
         WorkerCalls, Goes, Again, Connected, PipeInv, IpcTypeOK
<1>3. Serves(w) /\ Serves(w)'
  BY <1>1, <1>2 DEF Serves, Connected
<1>4. handle[w] \in active
  BY <1>1 DEF PipeInv, Active
<1>5. Worker(w)
  BY DEF Worker
<1>. QED  BY <1>1, <1>3, <1>4, <1>5, WorkerServes

LEMMA WorkerInsertsKeeps ==
    ASSUME PipeInv, NEW w \in Workers, WorkerInserts(w)
    PROVE  PipeInv'
<1> USE DEF PipeInv
<1>1. Worker(w)
  BY DEF Worker
<1>2. /\ worker[w] = "insert" /\ worker'[w] \in {"read", "erase"}
      /\ active' = active \cup {handle[w]} /\ UNCHANGED <<queue, handle, pipe>>
  BY DEF WorkerInserts, Goes, Again, IpcTypeOK
<1>3. Serves(w) /\ handle[w] \in Handles
  BY <1>2 DEF Serves, Owners
<1>4. \A v \in Workers : Serves(v)' => Serves(v)
  BY <1>1, <1>2, <1>3, WorkerTyped DEF Serves
<1>5. Listens' <=> Listens
  BY <1>1, WorkerTyped DEF Listens
<1>6. IpcTypeOK' /\ Threads'
  BY <1>1, <1>2, <1>3, WorkerTyped DEF IpcTypeOK
<1>7. Owners'
  BY <1>1, <1>2, <1>4, <1>5, WorkerTyped, OwnersKeep
<1>8. Listens => current \in Handles
  BY DEF Listens, Threads
<1>9. Open'
  BY <1>1, <1>2, <1>4, <1>5, <1>8, WorkerTyped, OpenKeep
<1>10. \A v \in Workers : worker'[v] = "done" <=> worker[v] = "done"
  BY <1>1, <1>2, WorkerTyped
<1>11. Sentinels'
  BY <1>1, <1>2, <1>10, WorkerTyped, SentinelsKeep
<1>12. Active'
  BY <1>1, <1>2, WorkerTyped DEF Active
<1>. QED  BY <1>6, <1>7, <1>9, <1>11, <1>12

LEMMA WorkerEndsKeeps ==
    ASSUME PipeInv, NEW w \in Workers, WorkerEnds(w)
    PROVE  PipeInv'
<1> USE DEF PipeInv
<1>1. Worker(w)
  BY DEF Worker
<1>2. /\ worker[w] = "erase" /\ worker'[w] = "wait"
      /\ active' = active \ {handle[w]} /\ UNCHANGED <<queue, handle>>
      /\ pipe' = [h \in Handles |-> IF h \in {handle[w]} THEN "closed" ELSE pipe[h]]
  BY DEF WorkerEnds, Goes, Closed, IpcTypeOK
<1>3. Serves(w) /\ ~Serves(w)' /\ handle[w] \in Handles
  BY <1>2 DEF Serves, Owners
<1>4. \A v \in Workers : Serves(v)' => Serves(v) /\ handle[v] # handle[w]
  <2>1. \A v \in Workers : Serves(v)' => Serves(v) /\ v # w
    BY <1>1, <1>2, <1>3, WorkerTyped DEF Serves
  <2>. QED  BY <1>3, <2>1 DEF Owners
<1>5. Listens' <=> Listens
  BY <1>1, WorkerTyped DEF Listens
<1>6. IpcTypeOK' /\ Threads'
  BY <1>1, <1>2, <1>3, WorkerTyped DEF IpcTypeOK
<1>7. Owners'
  BY <1>1, <1>2, <1>4, <1>5, WorkerTyped, OwnersKeep
<1>8. Listens => current \in Handles /\ current # handle[w]
  BY <1>3 DEF Listens, Threads, Owners, InUse
<1>9. \A h \in Handles : InUse(h)' => InUse(h) /\ h # handle[w]
  <2>1. \A i \in Queued : queue[i] # handle[w]
    BY <1>3 DEF Owners
  <2>. QED  BY <1>1, <1>2, <1>4, <2>1, WorkerTyped DEF InUse, Queued
<1>10. Open'
  BY <1>1, <1>2, <1>5, <1>8, <1>9, WorkerTyped DEF Open
<1>11. \A v \in Workers : worker'[v] = "done" <=> worker[v] = "done"
  BY <1>1, <1>2, WorkerTyped
<1>12. Sentinels'
  BY <1>1, <1>2, <1>11, WorkerTyped, SentinelsKeep
<1>13. Active'
  <2>1. \A v \in Workers : worker'[v] \in Connected => Serves(v)'
    BY DEF Connected, Serves
  <2>2. \A v \in Workers : worker'[v] \in Connected => worker[v] \in Connected
    BY <1>1, <1>2, WorkerTyped DEF Connected
  <2>. QED  BY <1>2, <1>4, <2>1, <2>2 DEF Active
<1>. QED  BY <1>6, <1>7, <1>10, <1>12, <1>13

LEMMA PoppedQueue ==
    ASSUME NEW S, NEW q \in Seq(S), q # <<>>
    PROVE  /\ Head(q) \in S /\ Tail(q) \in Seq(S) /\ Head(q) = q[1]
           /\ Len(q) \in Nat \ {0} /\ Len(Tail(q)) = Len(q) - 1
           /\ DOMAIN q = 1 .. Len(q) /\ DOMAIN Tail(q) = 1 .. Len(q) - 1
           /\ \A i \in 1 .. Len(q) - 1 : Tail(q)[i] = q[i + 1]
OBVIOUS

LEMMA WorkerPopsKeeps ==
    ASSUME PipeInv, NEW w \in Workers, WorkerPops(w)
    PROVE  PipeInv'
<1> USE DEF PipeInv
<1>1. Worker(w)
  BY DEF Worker
<1>2. /\ queue # <<>> /\ worker[w] = "wait" /\ queue' = Tail(queue)
      /\ worker'[w] = (IF Head(queue) = Invalid THEN "done" ELSE "insert")
      /\ handle' = [handle EXCEPT ![w] = Head(queue)] /\ UNCHANGED <<active, pipe>>
  BY DEF WorkerPops, Goes, IpcTypeOK
<1>3. /\ Head(queue) \in Handles \cup {Invalid} /\ queue' \in Seq(Handles \cup {Invalid})
      /\ Head(queue) = queue[1] /\ Len(queue) \in Nat \ {0} /\ Len(queue') = Len(queue) - 1
      /\ DOMAIN queue = 1 .. Len(queue) /\ DOMAIN queue' = 1 .. Len(queue) - 1
      /\ \A i \in 1 .. Len(queue) - 1 : queue'[i] = queue[i + 1]
  BY <1>1, <1>2, WorkerTyped, PoppedQueue
<1>4. /\ handle'[w] = queue[1] /\ \A v \in Workers : v # w => handle'[v] = handle[v]
      /\ handle' \in [Workers -> Handles \cup {Invalid}]
  BY <1>1, <1>2, <1>3, WorkerTyped
<1>5. Listens' <=> Listens
  BY <1>1, WorkerTyped DEF Listens
<1>6. IpcTypeOK' /\ Threads'
  BY <1>1, <1>2, <1>3, <1>4, WorkerTyped DEF IpcTypeOK
<1>7. \A v \in Workers : v # w => (Serves(v)' <=> Serves(v))
  BY <1>1, WorkerTyped DEF Serves
<1>8. Serves(w)' => queue[1] # Invalid /\ queue[1] \in Handles /\ 1 \in Queued
  BY <1>2, <1>3 DEF Serves, Queued
<1>9. \A i \in Queued' : i + 1 \in Queued /\ queue'[i] = queue[i + 1] /\ i + 1 # 1 /\ i \in Nat
  BY <1>3 DEF Queued
<1>10. \A h \in Handles : InUse(h)' => InUse(h)
  BY <1>4, <1>7, <1>8, <1>9 DEF InUse
<1>11. Listens' => ~InUse(current)'
  <2>1. Listens => current \in Handles /\ ~InUse(current)
    BY DEF Listens, Threads, Owners
  <2>2. current' = current
    BY <1>1, WorkerTyped
  <2>3. \A h \in Handles : ~InUse(h) => ~InUse(h)'
    BY <1>10
  <2>. QED  BY <1>5, <2>1, <2>2, <2>3 DEF InUse
<1>12. Owners'
  <2>1. \A i, j \in Queued' : queue'[i] = queue'[j] => i = j
    BY <1>3, <1>9 DEF Owners
  <2>2. \A v \in Workers : Serves(v)' =>
          /\ handle'[v] \in Handles
          /\ \A i \in Queued' : queue'[i] # handle'[v]
    BY <1>4, <1>7, <1>8, <1>9 DEF Owners
  <2>3. \A v \in Workers : v # w /\ Serves(v)' /\ Serves(w)' => handle'[v] # handle'[w]
    BY <1>4, <1>7, <1>8 DEF Owners
  <2>4. \A v, x \in Workers : Serves(v)' /\ Serves(x)' /\ handle'[x] = handle'[v] => x = v
    <3> SUFFICES ASSUME NEW v \in Workers, NEW x \in Workers, Serves(v)', Serves(x)',
                        handle'[x] = handle'[v]
                 PROVE  x = v
      OBVIOUS
    <3>1. CASE v = w \/ x = w
      BY <2>3, <3>1
    <3>2. CASE v # w /\ x # w
      BY <1>4, <1>7, <3>2 DEF Owners
    <3>. QED  BY <3>1, <3>2
  <2>. QED  BY <1>11, <2>1, <2>2, <2>4 DEF Owners
<1>13. Open'
  <2>1. stop' = stop /\ pipe' = pipe /\ current' = current /\ accept' = accept
    BY <1>1, <1>2, WorkerTyped
  <2>. QED  BY <1>5, <1>10, <2>1 DEF Open
<1>14. Active'
  BY <1>1, <1>2, <1>4, WorkerTyped DEF Active, Connected
<1>15. Sentinels'
  <2>1. stop' = stop /\ stop \notin {"new", "down"}
    BY <1>1, WorkerTyped
  <2>2. CASE stop \notin {"join", "join_workers"}
    BY <1>1, <1>2, <1>3, <2>1, <2>2, WorkerTyped DEF Sentinels
  <2>3. CASE stop \in {"join", "join_workers"}
    <3> DEFINE before == {v \in Workers : worker[v] # "done"}
               after  == {v \in Workers : worker'[v] # "done"}
    <3>1. /\ Left <= Len(queue) /\ \A i \in DOMAIN queue : queue[i] = Invalid <=> i <= Left
          /\ w \in before /\ IsFiniteSet(before) /\ Left = Cardinality(before) /\ Left \in Nat
      BY <1>2, <2>3, LeftIsNat DEF Sentinels, Left
    <3>2. Cardinality(before \ {w}) = Cardinality(before) - 1
      BY <3>1, FS_RemoveElement
    <3>3. Left # 0
      BY <3>1, FS_EmptySet
    <3>4. queue[1] = Invalid /\ after = before \ {w}
      <4>1. queue[1] = Invalid
        <5>1. 1 \in DOMAIN queue
          BY <1>3
        <5>2. 1 <= Left
          BY <3>1, <3>3
        <5>. QED  BY <3>1, <5>1, <5>2
      <4>2. worker'[w] = "done"
        BY <1>2, <1>3, <4>1
      <4>. QED  BY <1>1, <4>1, <4>2, WorkerTyped
    <3>5. Left' = Left - 1
      BY <3>1, <3>2, <3>4 DEF Left
    <3>6. Left' <= Len(queue') /\ \A i \in DOMAIN queue' : queue'[i] = Invalid <=> i <= Left'
      <4>1. PICK n \in Nat : n = Left /\ n # 0
        BY <3>1, <3>3
      <4>2. n - 1 = Left' /\ n <= Len(queue) /\ \A i \in DOMAIN queue : queue[i] = Invalid <=> i <= n
        BY <3>1, <3>5, <4>1
      <4>3. n - 1 <= Len(queue') /\ \A i \in DOMAIN queue' : queue'[i] = Invalid <=> i <= n - 1
        BY <1>3, <4>1, <4>2
      <4>. QED  BY <4>2, <4>3
    <3>. QED  BY <2>1, <2>3, <3>6 DEF Sentinels
  <2>. QED  BY <2>2, <2>3
<1>. QED  BY <1>6, <1>12, <1>13, <1>14, <1>15

LEMMA WorkerKeeps ==
    ASSUME PipeInv, NEW w \in Workers, Worker(w)
    PROVE  PipeInv'
BY WorkerPopsKeeps, WorkerInsertsKeeps, WorkerMovesKeep, WorkerEndsKeeps DEF Worker
-----------------------------------------------------------------------------
(* start(), stop() and the clients.                                        *)

LEMMA IpcStartKeeps ==
    ASSUME PipeInv, IpcStart \/ IpcStartFails
    PROVE  PipeInv'
<1> USE DEF PipeInv
<1>1. /\ stop = "new" /\ accept = "none" /\ queue = <<>> /\ \A w \in Workers : worker[w] = "none"
      /\ UNCHANGED <<consumed, current_accept, queue, active, handle>>
  BY DEF IpcStart, IpcStartFails, acceptVars, workerVars, Threads
<1>2. Queued = {} /\ Queued' = {} /\ queue' = <<>>
  BY <1>1 DEF Queued
<1>3. CASE IpcStartFails
  <2>1. stop' = "down" /\ UNCHANGED <<running, listen, accept, current, worker, pipe>>
    BY <1>3 DEF IpcStartFails, acceptVars, workerVars
  <2>2. IpcTypeOK'
    <3>1. running' = (stop' = "up")
      BY <1>1, <2>1, RunningKeeps DEF IpcTypeOK
    <3>. QED  BY <1>1, <2>1, <3>1 DEF IpcTypeOK, StopPoints
  <2>3. Threads' /\ Active' /\ Sentinels'
    BY <1>1, <2>1 DEF Threads, Active, Sentinels
  <2>4. \A w \in Workers : ~Serves(w) /\ ~Serves(w)'
    BY <1>1, <2>1 DEF Serves
  <2>5. Owners' /\ Open'
    BY <1>1, <1>2, <2>1, <2>4 DEF Owners, Open, Listens, Early
  <2>. QED  BY <2>2, <2>3, <2>5
<1>4. CASE IpcStart
  <2>1. PICK h \in Handles : Created(h) /\ listen' = h /\ current' = h
    BY <1>4 DEF IpcStart
  <2>2. /\ running' = TRUE /\ stop' = "up" /\ accept' = "loop" /\ worker' = [w \in Workers |-> "wait"]
        /\ pipe' = [pipe EXCEPT ![h] = "listening"]
    BY <1>4, <2>1 DEF IpcStart, Created
  <2>3. current_accept = Invalid
    BY <1>1 DEF Threads
  <2>4. \A w \in Workers : worker'[w] = "wait"
    BY <2>2
  <2>5. IpcTypeOK'
    <3>1. running' = (stop' = "up")
      BY <2>2
    <3>2. /\ pipe' \in [Handles -> {"closed", "listening", "connected", "left"}]
          /\ worker' \in [Workers -> WorkerPoints] /\ stop' \in StopPoints /\ accept' \in AcceptPoints
      BY <2>2 DEF IpcTypeOK, WorkerPoints, StopPoints, AcceptPoints
    <3>3. current_accept' \in {Invalid, current'}
      BY <1>1, <2>3
    <3>. QED  BY <1>1, <2>1, <3>1, <3>2, <3>3 DEF IpcTypeOK
  <2>6. Threads' /\ Active' /\ Sentinels'
    BY <1>1, <1>2, <2>1, <2>2, <2>4 DEF Threads, Active, Sentinels, Connected
  <2>7. \A w \in Workers : ~Serves(w)'
    BY <2>4 DEF Serves
  <2>8. Owners'
    BY <1>2, <2>7 DEF Owners, InUse
  <2>9. pipe'[current'] # "closed"
    BY <2>1, <2>2 DEF IpcTypeOK
  <2>10. Open'
    BY <1>2, <2>7, <2>9 DEF Open, InUse
  <2>. QED  BY <2>5, <2>6, <2>8, <2>10
<1>. QED  BY <1>3, <1>4

LEMMA IpcStopKeeps ==
    ASSUME PipeInv, IpcStop
    PROVE  PipeInv'
<1> USE DEF PipeInv
<1>1. /\ stop = "up" /\ stop' = "cancel" /\ running' = FALSE
      /\ UNCHANGED <<listen, accept, current, consumed, current_accept, queue, worker, handle, active, pipe>>
  BY DEF IpcStop, StopGoes, acceptVars, workerVars
<1>2. IpcTypeOK'
  <2>1. running' = (stop' = "up")
    <3>1. (stop' = "up") = FALSE
      BY <1>1
    <3>. QED  BY <1>1, <3>1
  <2>. QED  BY <1>1, <2>1 DEF IpcTypeOK, StopPoints
<1>3. Threads' /\ Sentinels' /\ Active'
  BY <1>1 DEF Threads, Sentinels, Left, Active
<1>4. \A w \in Workers : Serves(w)' <=> Serves(w)
  BY <1>1 DEF Serves
<1>5. Listens' => Listens
  BY <1>1 DEF Listens
<1>6. Owners'
  BY <1>1, <1>4, <1>5, OwnersKeep
<1>7. Listens' => current \in Handles
  BY <1>1, <1>5 DEF Listens, Threads
<1>8. Open'
  BY <1>1, <1>4, <1>5, <1>7, OpenKeep DEF Early
<1>. QED  BY <1>2, <1>3, <1>6, <1>8

LEMMA ClientKeeps ==
    ASSUME PipeInv, NEW h \in Handles, ClientConnects(h) \/ ClientLeaves(h)
    PROVE  PipeInv'
<1> USE DEF PipeInv
<1>1. UNCHANGED <<running, stop, listen, accept, current, consumed, current_accept, queue, worker, handle, active>>
  BY DEF ClientConnects, ClientLeaves, acceptVars, workerVars
<1>2. pipe[h] # "closed" /\ \E to \in {"connected", "left"} : pipe' = [pipe EXCEPT ![h] = to]
  BY DEF ClientConnects, ClientLeaves
<1>3. IpcTypeOK'
  BY <1>1, <1>2 DEF IpcTypeOK
<1>4. Threads' /\ Sentinels' /\ Active'
  BY <1>1 DEF Threads, Sentinels, Left, Active
<1>5. (\A w \in Workers : Serves(w)' <=> Serves(w)) /\ (Listens' <=> Listens)
  BY <1>1 DEF Serves, Listens
<1>6. Owners'
  BY <1>1, <1>5, OwnersKeep
<1>7. \A k \in Handles : pipe[k] # "closed" => pipe'[k] # "closed"
  BY <1>2 DEF IpcTypeOK
<1>8. Listens' => current \in Handles
  BY <1>1, <1>5 DEF Listens, Threads
<1>9. Open'
  BY <1>1, <1>5, <1>7, <1>8, OpenKeep
<1>. QED  BY <1>3, <1>4, <1>6, <1>9

\* stop() up to the queue: calls that were blocked end, which changes no owner.
LEMMA StopEarlyKeeps ==
    ASSUME PipeInv, StopCancelsAccept \/ StopClosesListen \/ StopClosesBusy \/ StopCancelsActive
    PROVE  PipeInv'
<1> USE DEF PipeInv
<1>1. /\ stop \in {"cancel", "close", "active"} /\ stop' \in {"close", "active", "drain"}
      /\ stop' \in Early => stop \in Early /\ pipe' = pipe
      /\ UNCHANGED <<running, current, consumed, current_accept, queue, handle, active>>
  BY DEF StopCancelsAccept, StopClosesListen, StopClosesBusy, StopCancelsActive, StopGoes, Early,
         acceptVars, workerVars
<1>2. /\ listen' \in {listen, Invalid}
      /\ accept' = accept \/ (accept = "connecting" /\ accept' = "failed")
      /\ pipe' \in [Handles -> {"closed", "listening", "connected", "left"}]
  BY DEF StopCancelsAccept, StopClosesListen, StopClosesBusy, StopCancelsActive, acceptVars,
         CancelAccept, Closed, IpcTypeOK
<1>3. /\ worker' \in [Workers -> WorkerPoints]
      /\ \A w \in Workers : worker'[w] = worker[w] \/ (Blocked(w) /\ worker'[w] = "erase")
  BY DEF StopCancelsAccept, StopClosesListen, StopClosesBusy, StopCancelsActive, workerVars,
         CancelWorkers, IpcTypeOK, WorkerPoints
<1>4. IpcTypeOK'
  <2>1. running' = (stop' = "up")
    BY <1>1, RunningKeeps DEF IpcTypeOK
  <2>. QED  BY <1>1, <1>2, <1>3, <2>1 DEF IpcTypeOK, StopPoints, AcceptPoints
<1>5. Threads'
  BY <1>1, <1>2, <1>3 DEF Threads, Blocked
<1>6. \A w \in Workers : (Serves(w)' => Serves(w)) /\ (worker'[w] = "done" <=> worker[w] = "done")
  BY <1>3 DEF Serves, Blocked
<1>7. /\ Listens' => Listens /\ current \in Handles
      /\ Listens' /\ accept' # "failed" => Listens /\ accept # "failed"
  BY <1>1, <1>2 DEF Listens, Threads
<1>8. Sentinels'
  BY <1>1, <1>6 DEF Sentinels
<1>9. Owners'
  BY <1>1, <1>6, <1>7, OwnersKeep
<1>10. Open'
  <2>1. CASE stop' \in Early
    BY <1>1, <1>6, <1>7, <2>1, OpenKeep
  <2>2. CASE stop' \notin Early
    BY <2>2 DEF Open
  <2>. QED  BY <2>1, <2>2
<1>11. Active'
  BY <1>1, <1>3 DEF Active, Connected, Blocked
<1>. QED  BY <1>4, <1>5, <1>8, <1>9, <1>10, <1>11

\* From the queue on: the sentinels take the place of what was queued.
LEMMA StopLateKeeps ==
    ASSUME PipeInv, StopDrains \/ StopJoinsAcceptor \/ StopJoinsWorkers
    PROVE  PipeInv'
<1> USE DEF PipeInv
<1>1. /\ stop \in {"drain", "join", "join_workers"} /\ stop' \in {"join", "join_workers", "down"}
      /\ UNCHANGED <<running, listen, accept, current, consumed, current_accept, worker, handle, active>>
  BY DEF StopDrains, StopJoinsAcceptor, StopJoinsWorkers, StopGoes, acceptVars, workerVars
<1>2. pipe' \in [Handles -> {"closed", "listening", "connected", "left"}]
  BY DEF StopDrains, StopJoinsAcceptor, StopJoinsWorkers, Closed, IpcTypeOK
<1>3. running' = (stop' = "up")
  BY <1>1, RunningKeeps DEF IpcTypeOK
<1>4. stop' = "down" => \A w \in Workers : worker[w] = "done"
  BY DEF StopDrains, StopJoinsAcceptor, StopJoinsWorkers, StopGoes
<1>5. Threads' /\ Active'
  BY <1>1, <1>4 DEF Threads, Active
<1>6. (\A w \in Workers : Serves(w)' <=> Serves(w)) /\ (Listens' <=> Listens) /\ Left' = Left
  BY <1>1 DEF Serves, Listens, Left
<1>7. Open'
  BY <1>1 DEF Open, Early
<1>8. CASE queue' = queue /\ stop # "drain"
  <2>1. IpcTypeOK'
    BY <1>1, <1>2, <1>3, <1>8 DEF IpcTypeOK, StopPoints
  <2>2. Owners'
    BY <1>1, <1>6, <1>8, OwnersKeep
  <2>3. Sentinels'
    BY <1>1, <1>6, <1>8 DEF Sentinels
  <2>. QED  BY <1>5, <1>7, <2>1, <2>2, <2>3
<1>9. CASE StopDrains
  <2>1. stop = "drain" /\ stop' = "join" /\ queue' = [i \in 1 .. Cardinality(Workers) |-> Invalid]
    BY <1>9 DEF StopDrains, StopGoes
  <2>2. Cardinality(Workers) \in Nat
    BY IpcAssumption, FS_CardinalityType
  <2>3. Left = Cardinality(Workers)
    <3>1. {w \in Workers : worker[w] # "done"} = Workers
      BY <2>1 DEF Sentinels
    <3>. QED  BY <3>1 DEF Left
  <2>4. /\ queue' \in Seq(Handles \cup {Invalid}) /\ Len(queue') = Cardinality(Workers)
        /\ DOMAIN queue' = 1 .. Cardinality(Workers) /\ \A i \in DOMAIN queue' : queue'[i] = Invalid
    BY <2>1, <2>2
  <2>5. IpcTypeOK'
    BY <1>1, <1>2, <1>3, <2>4 DEF IpcTypeOK, StopPoints
  <2>6. Queued' = {}
    BY <2>4 DEF Queued
  <2>7. Owners'
    <3>1. Listens' => ~InUse(current)'
      BY <1>1, <1>6, <2>6 DEF Owners, InUse
    <3>. QED  BY <1>1, <1>6, <2>6, <3>1 DEF Owners
  <2>8. Sentinels'
    BY <1>6, <2>1, <2>2, <2>3, <2>4 DEF Sentinels
  <2>. QED  BY <1>5, <1>7, <2>5, <2>7, <2>8
<1>. QED  BY <1>8, <1>9 DEF StopDrains, StopJoinsAcceptor, StopJoinsWorkers, StopGoes

LEMMA PipeKeeps ==
    ASSUME PipeInv, PipeNext \/ UNCHANGED ipcVars
    PROVE  PipeInv'
<1>1. CASE UNCHANGED ipcVars
  BY <1>1 DEF ipcVars, acceptVars, workerVars, PipeInv, IpcTypeOK, Threads, Sentinels, Left, Owners, Open,
              Active, InUse, Queued, Serves, Listens
<1>2. CASE PipeNext
  BY <1>2, IpcStartKeeps, IpcStopKeeps, AcceptorKeeps, WorkerKeeps, ClientKeeps, StopEarlyKeeps,
     StopLateKeeps DEF PipeNext, IpcSteps, Stopper
<1>. QED  BY <1>1, <1>2
-----------------------------------------------------------------------------
(* The modules and the daemon: the inductive invariant.                    *)

LoadPoints == {"open", "factory", "init", "register", "drop", "failed"}
ModuleTypes ==
    /\ loading \in [i : 1 .. Len(Configured) + 1, at : LoadPoints]
    /\ library \in [Modules -> {"out", "loaded"}]
    /\ object \in [Modules -> {"none", "made", "ready", "released", "deleted"}]
    /\ all_modules \in Seq(Modules) /\ dl_handles \in Seq(Modules)
    /\ Reachable \subseteq Modules

DaemonTypes ==
    /\ phase \in Phases
    /\ servers \in BOOLEAN
    /\ guest \in [Guests -> {"idle", "call"}]

\* Up to release() the modules before the one being loaded are ready and, but for
\* the mistyped ones, reached.
Done == 1 .. loading.i - 1
Ready ==
    phase \notin {"release", "gone"} =>
        /\ Range(all_modules) = Done /\ dl_handles = all_modules
        /\ Reachable \subseteq Done
        /\ \A m \in Done : Library(m) \in Mistyped \/ IsReached(m)
        /\ \A m \in Done : object[m] = "ready" /\ library[m] = "loaded"
        /\ \A m \in Modules : object[m] # "released"

\* The module being loaded.
Loading ==
    phase \notin {"release", "gone"} =>
        /\ More /\ loading.at \in {"factory", "init", "register"} => library[This] = "loaded"
        /\ More /\ loading.at = "register" => object[This] = "ready"
        /\ phase # "load" => ~More

\* release() keeps the libraries until the modules are deleted.
Releasing ==
    /\ phase = "release" =>
          /\ Range(capabilities) \subseteq Range(all_modules)
          /\ \A m \in Range(all_modules) : object[m] \in {"ready", "released"} /\ library[m] = "loaded"
    /\ phase = "gone" => all_modules = <<>> /\ dl_handles = <<>> /\ Range(capabilities) = {}

\* The servers run between the last module loaded and the first one released.
Serving ==
    /\ phase \in {"load", "serve", "run"} => stop = "new"
    /\ phase = "running" => stop = "up"
    /\ phase \in {"stop", "stop_ipc"} => stop \in {"up", "down"}
    /\ phase = "join" => stop \notin {"new", "up"}
    /\ phase \in {"release", "gone"} => stop \in {"new", "down"}
    /\ servers \/ (\E g \in Guests : guest[g] = "call") => phase \in {"run", "running", "stop"}

IInv == PipeInv /\ ModuleTypes /\ DaemonTypes /\ Ready /\ Loading /\ Releasing /\ Serving

LEMMA ConfiguredFacts ==
    /\ Len(Configured) \in Nat /\ DOMAIN Configured = 1 .. Len(Configured)
    /\ Modules = 1 .. Len(Configured)
BY ConfiguredAssumption DEF Modules

LEMMA OwnCode == ASSUME NEW m \in Modules, library[m] = "loaded" PROVE HasCode(m)
BY DEF HasCode

LEMMA ReachSame ==
    ASSUME UNCHANGED <<capabilities, chain>>
    PROVE  Reachable' = Reachable /\ \A m : IsReached(m)' <=> IsReached(m)
BY DEF Reachable, IsReached

LEMMA InvInit == Init => IInv
<1> SUFFICES ASSUME Init PROVE IInv
  OBVIOUS
<1>1. PipeInv
  BY PipeInit DEF Init
<1>2. ModuleTypes
  <2>1. loading \in [i : 1 .. Len(Configured) + 1, at : LoadPoints]
    BY ConfiguredFacts DEF Init, ModulesInit, LoadPoints
  <2>2. /\ all_modules = <<>> /\ dl_handles = <<>> /\ capabilities = <<>> /\ chain = {}
        /\ library = [m \in Modules |-> "out"] /\ object = [m \in Modules |-> "none"]
    BY DEF Init, ModulesInit
  <2>3. Reachable = {}
    BY <2>2 DEF Reachable, Range
  <2>. QED  BY <2>1, <2>2, <2>3 DEF ModuleTypes
<1>3. DaemonTypes
  BY DEF Init, DaemonTypes, Phases
<1>4. Done = {}
  BY DEF Init, ModulesInit, Done
<1>5. Ready /\ Loading /\ Releasing /\ Serving
  BY <1>4 DEF Init, ModulesInit, IpcInit, Ready, Reachable, Loading, Releasing, Serving, Range
<1>. QED  BY <1>1, <1>2, <1>3, <1>5 DEF IInv

LEMMA Everything == ASSUME ModuleTypes, ~More PROVE Done = Modules
<1>1. loading.i = Len(Configured) + 1
  BY ConfiguredFacts DEF ModuleTypes, More
<1>. QED  BY <1>1, ConfiguredFacts DEF Done

LEMMA InvImplies ==
    IInv => TypeOK /\ OneOwner /\ BlockedIsActive /\ SentinelEach /\ CallsAreSafe /\ RoutesAreOwned
<1> SUFFICES ASSUME IInv
             PROVE  TypeOK /\ OneOwner /\ BlockedIsActive /\ SentinelEach /\ CallsAreSafe /\ RoutesAreOwned
  OBVIOUS
<1> USE DEF IInv
<1>1. IpcTypeOK /\ OneOwner /\ BlockedIsActive /\ SentinelEach
  BY PipeImplies
<1>2. Range(all_modules) \cup Range(dl_handles) \subseteq Modules
  BY DEF ModuleTypes, Range
<1>3. TypeOK
  BY <1>1, <1>2 DEF TypeOK, ModuleTypes, DaemonTypes, LoadPoints, Reachable
<1>4. CallsAreSafe
  <2> SUFFICES ASSUME InCall
               PROVE  Loaded /\ \A m \in Reachable : object[m] = "ready" /\ HasCode(m)
    BY DEF CallsAreSafe
  <2>1. phase \notin {"load", "release", "gone"}
    <3>1. CASE \E w \in Workers : worker[w] = "call"
      <4>1. stop \notin {"new", "down"}
        BY <3>1 DEF PipeInv, Threads
      <4>. QED  BY <4>1 DEF Serving
    <3>2. CASE \E g \in Guests : guest[g] = "call"
      BY <3>2 DEF Serving
    <3>. QED  BY <3>1, <3>2 DEF InCall
  <2>2. Loaded
    BY <2>1 DEF Loading, Loaded
  <2>3. \A m \in Reachable : m \in Modules /\ object[m] = "ready" /\ library[m] = "loaded"
    BY <2>1 DEF Ready, ModuleTypes
  <2>. QED  BY <2>2, <2>3, OwnCode
<1>5. RoutesAreOwned
  <2>1. Range(capabilities) \subseteq Reachable /\ chain \subseteq Reachable /\ Reachable \subseteq Modules
    BY DEF Reachable, ModuleTypes
  <2>2. CASE phase \notin {"release", "gone"}
    <3>1. \A m \in Range(capabilities) : object[m] = "ready" /\ HasCode(m)
      BY <2>1, <2>2, OwnCode DEF Ready
    <3>. QED  BY <2>1, <2>2, <3>1 DEF RoutesAreOwned, Ready
  <2>3. CASE phase \in {"release", "gone"}
    <3>1. /\ Range(capabilities) \subseteq Range(all_modules)
          /\ phase # "release" => dl_handles = all_modules
      BY <2>3 DEF Releasing
    <3>2. \A m \in Range(capabilities) : object[m] \in {"ready", "released"} /\ library[m] = "loaded"
      BY <2>3 DEF Releasing
    <3>3. \A m \in Range(capabilities) : HasCode(m)
      BY <2>1, <3>2, OwnCode
    <3>. QED  BY <2>3, <3>1, <3>2, <3>3 DEF RoutesAreOwned
  <2>. QED  BY <2>2, <2>3
<1>. QED  BY <1>1, <1>3, <1>4, <1>5

-----------------------------------------------------------------------------
(* init().                                                                 *)

LEMMA LoadKeeps ==
    ASSUME IInv, Load
    PROVE  IInv'
<1> USE DEF IInv
<1>1. phase = "load" /\ UNCHANGED <<ipcVars, phase, servers, guest>> /\ LoadSteps
  BY DEF Load, ServersUnchanged
<1>2. PipeInv' /\ DaemonTypes' /\ Serving' /\ Releasing'
  BY <1>1, PipeKeeps DEF DaemonTypes, Serving, Releasing, ipcVars
<1>3. More /\ loading.i \in 1 .. Len(Configured) /\ This \in Modules /\ This \notin Done
      /\ loading.i \in Nat /\ loading.at \in LoadPoints /\ loading = [i |-> loading.i, at |-> loading.at]
  <2>1. More
    BY <1>1 DEF LoadSteps, OpenLibrary, MakeModule, InitModule, DropModule, RegisterModule, LoadGoes
  <2>2. loading.i \in 1 .. Len(Configured) /\ loading.i \in Nat
    BY <2>1, ConfiguredFacts DEF ModuleTypes, More
  <2>3. This \in Modules /\ This \notin Done
    BY <2>2, ConfiguredFacts DEF This, Done
  <2>. QED  BY <2>1, <2>2, <2>3 DEF ModuleTypes
<1>4. CASE RegisterModule
  <2>1. /\ loading' = [i |-> loading.i + 1, at |-> "open"] /\ loading.at = "register"
        /\ dl_handles' = Append(dl_handles, This) /\ all_modules' = Append(all_modules, This)
        /\ Route(This)
        /\ chain' = IF Library(This) \in Security THEN chain \cup {This} ELSE chain
        /\ UNCHANGED <<library, object>>
    BY <1>4 DEF RegisterModule
  <2>2. loading'.i = loading.i + 1 /\ loading'.at = "open"
    BY <2>1
  <2>9. /\ Reachable' \subseteq Reachable \cup {This}
        /\ \A m \in Done : IsReached(m) => IsReached(m)'
        /\ \A t : t = This => Library(t) \in Mistyped \/ IsReached(t)'
    <3>1. This \in Nat /\ \A m \in Done : m \in Nat /\ m < This
      BY <1>3 DEF This, Done
    <3>2. CASE Library(This) \in Security \cup Mistyped
      <4>1. capabilities' = capabilities
        BY <2>1, <3>2 DEF Route
      <4>2. \A t : t = This => Library(t) \in Mistyped \/ t \in chain'
        BY <2>1, <3>2
      <4>3. Range(capabilities') = Range(capabilities)
        BY <4>1
      <4>. QED  BY <2>1, <4>1, <4>2, <4>3 DEF Reachable, IsReached
    <3>3. CASE Library(This) \notin Security \cup Mistyped
      <4> DEFINE n == Name[Library(This)]
      <4>1. /\ chain' = chain
            /\ capabilities' = [k \in DOMAIN capabilities \cup {n} |->
                                   IF k = n THEN This ELSE capabilities[k]]
        BY <2>1, <3>3 DEF Route
      <4> HIDE DEF n
      <4>2. /\ DOMAIN capabilities' = DOMAIN capabilities \cup {n} /\ capabilities'[n] = This
            /\ \A k \in DOMAIN capabilities : k # n => capabilities'[k] = capabilities[k]
        BY <4>1
      <4>3. Range(capabilities)' \subseteq Range(capabilities) \cup {This}
        BY <4>2 DEF Range
      <4>4. ASSUME NEW m \in Done, IsReached(m)
            PROVE  IsReached(m)'
        <5>1. CASE m \in chain
          BY <5>1, <4>1 DEF IsReached
        <5>2. CASE Name[Library(m)] \in DOMAIN capabilities /\ capabilities[Name[Library(m)]] >= m
          BY <5>2, <3>1, <4>2 DEF IsReached
        <5>. QED  BY <4>4, <5>1, <5>2 DEF IsReached
      <4>5. ASSUME NEW t, t = This
            PROVE  IsReached(t)'
        <5>1. n \in DOMAIN capabilities' /\ capabilities'[n] >= t /\ n = Name[Library(t)]
          BY <4>2, <4>5, <3>1 DEF n
        <5>. QED  BY <5>1 DEF IsReached
      <4>. QED  BY <4>1, <4>3, <4>4, <4>5 DEF Reachable
    <3>. QED  BY <3>2, <3>3
  <2>3. ModuleTypes'
    <3>1. all_modules' \in Seq(Modules) /\ dl_handles' \in Seq(Modules)
      BY <1>3, <2>1, AppendedQueue DEF ModuleTypes
    <3>2. loading' \in [i : 1 .. Len(Configured) + 1, at : LoadPoints]
      BY <1>3, <2>1, ConfiguredFacts DEF LoadPoints
    <3>. QED  BY <1>3, <2>1, <2>9, <3>1, <3>2 DEF ModuleTypes
  <2>4. Done' = Done \cup {This}
    BY <1>3, <2>2 DEF Done, This
  <2>5. Range(all_modules') = Range(all_modules) \cup {This}
    <3>1. /\ Len(all_modules) \in Nat /\ DOMAIN all_modules = 1 .. Len(all_modules)
          /\ DOMAIN all_modules' = 1 .. Len(all_modules) + 1
          /\ \A i \in 1 .. Len(all_modules) : all_modules'[i] = all_modules[i]
          /\ all_modules'[Len(all_modules) + 1] = This
      BY <1>3, <2>1, AppendedQueue DEF ModuleTypes
    <3>. QED  BY <3>1 DEF Range
  <2>6. Ready'
    BY <1>1, <1>3, <2>1, <2>4, <2>5, <2>9 DEF Ready, Loading
  <2>7. Loading'
    BY <1>1, <2>2 DEF Loading
  <2>. QED  BY <1>2, <2>3, <2>6, <2>7
<1>5. CASE OpenLibrary \/ MakeModule \/ InitModule \/ DropModule
  <2>1. /\ \E at \in LoadPoints : loading' = [loading EXCEPT !.at = at]
        /\ UNCHANGED <<all_modules, dl_handles, capabilities, chain>>
    BY <1>5 DEF OpenLibrary, MakeModule, InitModule, DropModule, LoadGoes, LoadPoints
  <2>2. /\ library' \in [Modules -> {"out", "loaded"}]
        /\ object' \in [Modules -> {"none", "made", "ready", "released", "deleted"}]
        /\ \A m \in Modules : m # This => library'[m] = library[m] /\ object'[m] = object[m]
        /\ object'[This] = object[This] \/ object'[This] \in {"made", "ready", "deleted"}
    BY <1>5, <1>3 DEF OpenLibrary, MakeModule, InitModule, DropModule, ModuleTypes
  <2>3. loading'.i = loading.i /\ loading' \in [i : 1 .. Len(Configured) + 1, at : LoadPoints]
        /\ This' = This /\ More' = More /\ Done' = Done
    BY <2>1 DEF ModuleTypes, This, More, Done
  <2>4. /\ loading'.at \in {"factory", "init", "register"} => library'[This] = "loaded"
        /\ loading'.at = "register" => object'[This] = "ready"
    BY <1>5, <1>1, <1>3 DEF OpenLibrary, MakeModule, InitModule, DropModule, LoadGoes, Loading, ModuleTypes
  <2>5. ModuleTypes'
    BY <2>1, <2>2, <2>3, ReachSame DEF ModuleTypes
  <2>6. \A m \in Done : m \in Modules /\ m # This
    BY <1>3, ConfiguredFacts DEF Done
  <2>7. Ready'
    BY <1>1, <1>3, <2>1, <2>2, <2>3, <2>6, ReachSame DEF Ready
  <2>8. Loading'
    BY <1>1, <2>3, <2>4 DEF Loading
  <2>. QED  BY <1>2, <2>5, <2>7, <2>8
<1>. QED  BY <1>1, <1>4, <1>5 DEF LoadSteps

LEMMA LoadEndsKeeps ==
    ASSUME IInv, LoadEnds
    PROVE  IInv'
<1> USE DEF IInv
<1>1. phase = "load" /\ UNCHANGED <<ipcVars, servers, guest>> /\ stop = "new"
  BY DEF LoadEnds, PhaseGoes, ServersUnchanged, Serving
<1>2. PipeInv'
  BY <1>1, PipeKeeps
<1>3. ~servers /\ (\A g \in Guests : guest[g] # "call")
  BY <1>1 DEF Serving
<1>4. CASE Loaded /\ phase' = "serve" /\ UNCHANGED moduleVars
  <2>1. ModuleTypes' /\ DaemonTypes' /\ Ready' /\ Loading' /\ Releasing'
    BY <1>1, <1>4, ReachSame DEF ModuleTypes, DaemonTypes, Phases, Ready, Loading, Releasing, moduleVars, Done,
                      Loaded, More, This
  <2>2. Serving'
    BY <1>1, <1>3, <1>4 DEF Serving, ipcVars
  <2>. QED  BY <1>2, <2>1, <2>2
<1>5. CASE phase' = "gone" /\ DropManager
  <2>1. /\ all_modules' = <<>> /\ dl_handles' = <<>> /\ capabilities' = <<>> /\ chain' = {}
        /\ UNCHANGED <<loading, library>>
        /\ object' = [m \in Modules |-> IF m \in Range(all_modules) THEN "deleted" ELSE object[m]]
    BY <1>5 DEF DropManager
  <2>2. ModuleTypes' /\ DaemonTypes'
    BY <1>1, <1>5, <2>1 DEF ModuleTypes, DaemonTypes, Phases, Reachable, Range
  <2>3. Ready' /\ Loading' /\ Releasing'
    BY <1>5, <2>1 DEF Ready, Loading, Releasing, Range
  <2>4. Serving'
    BY <1>1, <1>3, <1>5 DEF Serving, ipcVars
  <2>. QED  BY <1>2, <2>2, <2>3, <2>4
<1>. QED  BY <1>4, <1>5 DEF LoadEnds, PhaseGoes
-----------------------------------------------------------------------------
(* run(), the servers and stop().                                          *)

LEMMA ModulesSame ==
    ASSUME ModuleTypes, Ready, Loading, Releasing, UNCHANGED moduleVars,
           phase' \in {"release", "gone"} <=> phase \in {"release", "gone"},
           phase' = "release" <=> phase = "release", phase' = "load" <=> phase = "load"
    PROVE  ModuleTypes' /\ Ready' /\ Loading' /\ Releasing'
BY ReachSame DEF ModuleTypes, Ready, Loading, Releasing, moduleVars, Done, More, This

LEMMA RunKeeps ==
    ASSUME IInv, StartServers \/ Run \/ Shutdown
    PROVE  IInv'
<1> USE DEF IInv
<1>1. UNCHANGED moduleVars /\ phase \in {"serve", "run", "running"} /\ phase' \in {"run", "running", "stop"}
  BY DEF StartServers, Run, Shutdown, PhaseGoes
<1>2. ModuleTypes' /\ Ready' /\ Loading' /\ Releasing'
  BY <1>1, ModulesSame
<1>3. PipeInv'
  BY PipeKeeps DEF StartServers, Run, Shutdown, PipeNext
<1>4. DaemonTypes'
  BY <1>1 DEF StartServers, Run, Shutdown, ServersUnchanged, DaemonTypes, Phases
<1>5. Serving'
  <2>1. CASE StartServers \/ Shutdown
    BY <2>1, <1>1 DEF StartServers, Shutdown, PhaseGoes, ServersUnchanged, Serving, ipcVars
  <2>2. CASE Run
    BY <2>2, <1>1 DEF Run, IpcStart, IpcStartFails, ServersUnchanged, Serving
  <2>. QED  BY <2>1, <2>2
<1>. QED  BY <1>2, <1>3, <1>4, <1>5

LEMMA GuestKeeps ==
    ASSUME IInv, NEW g \in Guests, GuestCalls(g) \/ GuestReturns(g)
    PROVE  IInv'
<1> USE DEF IInv
<1>1. UNCHANGED <<ipcVars, moduleVars, phase, servers>> /\ (servers \/ guest[g] = "call")
      /\ \E at \in {"idle", "call"} : guest' = [guest EXCEPT ![g] = at]
  BY DEF GuestCalls, GuestReturns
<1>2. PipeInv'
  BY <1>1, PipeKeeps
<1>3. ModuleTypes' /\ Ready' /\ Loading' /\ Releasing'
  BY <1>1, ModulesSame
<1>4. DaemonTypes'
  BY <1>1 DEF DaemonTypes
<1>5. Serving'
  <2>1. phase \in {"run", "running", "stop"}
    BY <1>1 DEF Serving
  <2>. QED  BY <1>1, <2>1 DEF Serving, ipcVars
<1>. QED  BY <1>2, <1>3, <1>4, <1>5

LEMMA ServeKeeps ==
    ASSUME IInv, Serve
    PROVE  IInv'
<1> USE DEF IInv
<1>1. IpcSteps /\ UNCHANGED <<moduleVars, phase, servers, guest>>
  BY DEF Serve, ServersUnchanged
<1>2. PipeInv'
  BY <1>1, PipeKeeps DEF PipeNext
<1>3. ModuleTypes' /\ Ready' /\ Loading' /\ Releasing'
  BY <1>1, ModulesSame
<1>4. DaemonTypes'
  BY <1>1 DEF DaemonTypes
<1>5. stop' = stop \/ (stop \notin {"new", "up", "down"} /\ stop' \notin {"new", "up"})
  <2>1. CASE Acceptor
    BY <2>1, AcceptorTyped
  <2>2. CASE \E w \in Workers : Worker(w)
    BY <2>2, WorkerTyped
  <2>3. CASE Stopper \/ StopClosesBusy
    BY <2>3 DEF Stopper, StopCancelsAccept, StopClosesListen, StopClosesBusy, StopCancelsActive,
                StopDrains, StopJoinsAcceptor, StopJoinsWorkers, StopGoes
  <2>4. CASE \E h \in Handles : ClientConnects(h) \/ ClientLeaves(h)
    BY <2>4 DEF ClientConnects, ClientLeaves
  <2>. QED  BY <1>1, <2>1, <2>2, <2>3, <2>4 DEF IpcSteps
<1>6. Serving'
  BY <1>1, <1>5 DEF Serving
<1>. QED  BY <1>2, <1>3, <1>4, <1>6

\* release() begins with every module ready and routed.
LEMMA ReleaseBegins ==
    ASSUME IInv, phase \in {"stop_ipc", "join"}, phase' = "release", UNCHANGED moduleVars
    PROVE  ModuleTypes' /\ Ready' /\ Loading' /\ Releasing'
<1>1. ModuleTypes' /\ Ready' /\ Loading'
  BY ReachSame DEF IInv, ModuleTypes, Ready, Loading, moduleVars, More, This
<1>2. Releasing'
  BY DEF IInv, Ready, Releasing, moduleVars, Reachable
<1>. QED  BY <1>1, <1>2

LEMMA StopKeeps ==
    ASSUME IInv, StopServers \/ StopIpc \/ IpcStopped
    PROVE  IInv'
<1> USE DEF IInv
<1>1. UNCHANGED moduleVars /\ phase \in {"stop", "stop_ipc", "join"}
      /\ phase' \in {"stop_ipc", "join", "release"} 
      /\ (phase' = "release" => phase \in {"stop_ipc", "join"})
  BY DEF StopServers, StopIpc, IpcStopped, PhaseGoes
<1>2. ModuleTypes' /\ Ready' /\ Loading' /\ Releasing'
  BY <1>1, ModulesSame, ReleaseBegins
<1>3. PipeInv'
  BY PipeKeeps DEF StopServers, StopIpc, IpcStopped, PipeNext
<1>4. DaemonTypes'
  BY <1>1 DEF StopServers, StopIpc, IpcStopped, ServersUnchanged, DaemonTypes, Phases
<1>5. Serving'
  <2>1. CASE StopServers
    BY <2>1 DEF StopServers, PhaseGoes, Serving, ipcVars
  <2>2. CASE IpcStopped
    BY <2>2 DEF IpcStopped, PhaseGoes, ServersUnchanged, Serving, ipcVars
  <2>3. CASE IpcStop /\ PhaseGoes("stop_ipc", "join") /\ UNCHANGED ServersUnchanged
    BY <2>3 DEF IpcStop, StopGoes, PhaseGoes, ServersUnchanged, Serving
  <2>4. CASE ~running /\ PhaseGoes("stop_ipc", "release") /\ UNCHANGED ipcVars /\ UNCHANGED ServersUnchanged
    <3>1. stop # "up"
      <4>1. running = (stop = "up")
        BY DEF PipeInv, IpcTypeOK
      <4>. QED  BY <2>4, <4>1
    <3>. QED  BY <2>4, <3>1 DEF PhaseGoes, ServersUnchanged, Serving, ipcVars
  <2>. QED  BY <2>1, <2>2, <2>3, <2>4 DEF StopIpc
<1>. QED  BY <1>2, <1>3, <1>4, <1>5

-----------------------------------------------------------------------------
(* release().                                                              *)

LEMMA ReleaseKeeps ==
    ASSUME IInv, Release
    PROVE  IInv'
<1> USE DEF IInv
<1>1. phase = "release" /\ UNCHANGED <<ipcVars, servers, guest>> /\ phase' \in {"release", "gone"}
  BY DEF Release, ServersUnchanged
<1>2. PipeInv' /\ DaemonTypes' /\ Serving'
  BY <1>1, PipeKeeps DEF DaemonTypes, Phases, Serving, ipcVars
<1>3. Ready' /\ Loading'
  BY <1>1 DEF Ready, Loading
<1>4. /\ Range(capabilities) \subseteq Range(all_modules)
      /\ \A m \in Range(all_modules) : object[m] \in {"ready", "released"} /\ library[m] = "loaded"
  BY <1>1 DEF Releasing
<1>5. CASE Released /\ phase' = "gone" /\ UNCHANGED moduleVars
  <2>1. all_modules = <<>> /\ dl_handles = <<>> /\ Range(capabilities) = {}
    BY <1>4, <1>5 DEF Released, Range
  <2>2. ModuleTypes' /\ Releasing'
    BY <1>1, <1>5, <2>1, ReachSame DEF ModuleTypes, Releasing, moduleVars
  <2>. QED  BY <1>2, <1>3, <2>2
<1>6. CASE ReleaseModule /\ phase' = "release"
  <2>1. PICK i \in DOMAIN all_modules : object' = [object EXCEPT ![all_modules[i]] = "released"]
    BY <1>6 DEF ReleaseModule, Unreleased
  <2>2. UNCHANGED <<loading, library, all_modules, dl_handles, capabilities, chain>>
    BY <1>6 DEF ReleaseModule
  <2>3. ModuleTypes'
    BY <2>1, <2>2, ReachSame DEF ModuleTypes
  <2>4. \A m \in Range(all_modules) : m \in Modules
    BY DEF ModuleTypes, Range
  <2>5. Releasing'
    BY <1>4, <1>6, <2>1, <2>2, <2>4 DEF Releasing, ModuleTypes
  <2>. QED  BY <1>2, <1>3, <2>3, <2>5
<1>7. CASE DeleteModules /\ phase' = "release"
  <2>1. /\ object' = [m \in Modules |-> IF m \in Range(all_modules) THEN "deleted" ELSE object[m]]
        /\ all_modules' = <<>> /\ capabilities' = <<>> /\ UNCHANGED <<loading, library, dl_handles, chain>>
    BY <1>7 DEF DeleteModules
  <2>2. ModuleTypes'
    BY <2>1 DEF ModuleTypes, Reachable, Range
  <2>3. Releasing'
    BY <1>7, <2>1 DEF Releasing, Range
  <2>. QED  BY <1>2, <1>3, <2>2, <2>3
<1>8. CASE UnloadLibrary /\ phase' = "release"
  <2>1. /\ all_modules = <<>> /\ dl_handles # <<>> /\ library' = [library EXCEPT ![Last(dl_handles)] = "out"]
        /\ dl_handles' = Front(dl_handles)
        /\ UNCHANGED <<loading, object, all_modules, capabilities, chain>>
    BY <1>8 DEF UnloadLibrary
  <2>2. dl_handles' \in Seq(Modules)
    BY <2>1 DEF ModuleTypes, Front
  <2>3. ModuleTypes'
    BY <2>1, <2>2, ReachSame DEF ModuleTypes
  <2>4. Releasing'
    BY <1>4, <1>8, <2>1 DEF Releasing, Range
  <2>. QED  BY <1>2, <1>3, <2>3, <2>4
<1>. QED  BY <1>5, <1>6, <1>7, <1>8 DEF Release, ReleaseSteps
-----------------------------------------------------------------------------
LEMMA InvNext == IInv /\ [Next]_vars => IInv'
<1> SUFFICES ASSUME IInv, [Next]_vars PROVE IInv'
  OBVIOUS
<1>1. CASE UNCHANGED vars
  <2>1. PipeInv'
    BY <1>1, PipeKeeps DEF vars, IInv
  <2>2. ModuleTypes' /\ Ready' /\ Loading' /\ Releasing'
    BY <1>1, ModulesSame DEF vars, IInv
  <2>3. DaemonTypes' /\ Serving'
    BY <1>1 DEF vars, IInv, DaemonTypes, Serving, ipcVars
  <2>. QED  BY <2>1, <2>2, <2>3 DEF IInv
<1>2. CASE Main
  BY <1>2, LoadKeeps, LoadEndsKeeps, RunKeeps, StopKeeps, ReleaseKeeps DEF Main
<1>3. CASE Shutdown
  BY <1>3, RunKeeps
<1>4. CASE Serve
  BY <1>4, ServeKeeps
<1>5. CASE \E g \in Guests : GuestCalls(g) \/ GuestReturns(g)
  BY <1>5, GuestKeeps
<1>. QED  BY <1>1, <1>2, <1>3, <1>4, <1>5 DEF Next

\* Only a module in all_modules_ is deleted once it was released.
LEMMA DeletedWithLibrary ==
    ASSUME IInv, [Next]_vars, NEW m \in Modules, object[m] = "released", object'[m] = "deleted"
    PROVE  HasCode(m)
<1> USE DEF IInv
<1>1. phase \in {"release", "gone"}
  BY DEF Ready
<1>2. object' # object
  OBVIOUS
<1>3. Release
  <2>1. ~UNCHANGED moduleVars /\ ~UNCHANGED vars
    BY <1>2 DEF moduleVars, vars
  <2>. QED  BY <1>1, <2>1 DEF Next, Main, Load, LoadEnds, StartServers, Run, Shutdown, Serve, GuestCalls,
                            GuestReturns, StopServers, StopIpc, IpcStopped, PhaseGoes
<1>4. CASE ReleaseModule
  BY <1>4 DEF ReleaseModule, Unreleased, ModuleTypes
<1>5. CASE DeleteModules
  BY <1>5, <1>3, OwnCode DEF DeleteModules, Releasing, Release
<1>. QED  BY <1>2, <1>3, <1>4, <1>5 DEF Release, ReleaseSteps, UnloadLibrary, moduleVars

THEOREM Invariant == Spec => []IInv
BY InvInit, InvNext, PTL DEF Spec

\* Every variable of the pipe server, the module manager and the daemon keeps
\* its type (windows_ipc_server.cc, module_manager.cc, daemon.cc).
THEOREM TypeCorrect == Spec => []TypeOK
BY Invariant, InvImplies, PTL

\* A connection of the pipe has one owner, though CreateNamedPipe returns handle
\* values again and stop() closes listen_handle_ whoever has it.
THEOREM OwnerIsAlone == Spec => []OneOwner
BY Invariant, InvImplies, PTL

\* stop() knows every connection a worker is blocked on (active_handles_).
THEOREM BlockedAreKnown == Spec => []BlockedIsActive
BY Invariant, InvImplies, PTL

\* Every worker that stop() joins has its sentinel in work_queue_.
THEOREM SentinelsSuffice == Spec => []SentinelEach
BY Invariant, InvImplies, PTL

\* No connection is in a module's code before the last module is loaded or after
\* the first is released (Daemon::init() and stop()).
THEOREM CallsReachModules == Spec => []CallsAreSafe
BY Invariant, InvImplies, PTL

\* What the module manager routes to it owns.
THEOREM RoutesReachModules == Spec => []RoutesAreOwned
BY Invariant, InvImplies, PTL

\* A released module is deleted while its library is still loaded
\* (ModuleManager::release()).
THEOREM ReleasedKeepCode == Spec => ReleaseKeepsCode
<1>1. IInv /\ [Next]_vars =>
        [ \A m \in Modules : object[m] = "released" /\ object'[m] = "deleted" => HasCode(m) ]_vars
  BY DeletedWithLibrary
<1>. QED  BY <1>1, Invariant, PTL DEF Spec, ReleaseKeepsCode
=============================================================================
