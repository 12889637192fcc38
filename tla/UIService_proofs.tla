-------------------------- MODULE UIService_proofs --------------------------
(***************************************************************************)
(* Proofs about the UI channel, for any number of askers and pushers, any  *)
(* timeout mode, any pipe capacity and any number of requests.             *)
(***************************************************************************)
EXTENDS UIService, TLAPS

LEMMA AnswerIsNotUnset == Unset \notin Answers /\ Deny \in Answers /\ Allow \in Answers
<1>1. Unset # Deny /\ Unset # Allow /\ Unset # AllowAndTrust
  BY DEF Unset, Deny, Allow, AllowAndTrust
<1>. QED  BY <1>1 DEF Answers

LEMMA OnlyDenyDenies ==
    ASSUME NEW v \in Answers, ~v.confirmed PROVE v = Deny
  BY DEF Answers, Deny, Allow, AllowAndTrust

\* What Append, Head and Tail do to the two queues of the pipe.
LEMMA AppendTyped ==
    ASSUME NEW S, NEW s \in Seq(S), NEW e \in S PROVE Append(s, e) \in Seq(S)
  OBVIOUS

LEMMA ElementTyped ==
    ASSUME NEW S, NEW s \in Seq(S), NEW i \in 1 .. Len(s) PROVE s[i] \in S
  OBVIOUS

LEMMA HeadTailTyped ==
    ASSUME NEW S, NEW s \in Seq(S), s # <<>> PROVE Head(s) \in S /\ Tail(s) \in Seq(S)
  OBVIOUS

-----------------------------------------------------------------------------
(* Types.  An open dialog shows a request and a busy asker has an id.       *)

TypeInv ==
    /\ TypeOK
    /\ ui = "dialog" => dialog \in Ids
    /\ \A a \in Askers : caller[a] # "idle" => confirm_id[a] \in Ids

LEMMA TypeInit == Init => TypeInv
<1> SUFFICES ASSUME Init PROVE TypeInv
  OBVIOUS
<1> USE DEF Init, INVALID
<1>1. next_id \in 1 .. MaxIds + 1 /\ connects \in 0 .. MaxConnects
  BY BoundAssumption
<1>2. /\ promise \in [Ids -> Answers \cup {Unset}] /\ said \in [Ids -> Answers \cup {Unset}]
      /\ result \in [Askers -> Answers]
  BY AnswerIsNotUnset
<1>3. toUI \in Seq(Ids \cup {Note}) /\ fromUI \in Seq([id : Ids, answer : Answers])
  OBVIOUS
<1>4. /\ caller \in [Callers -> CallerPoints] /\ svc \in SvcPoints /\ main \in MainPoints
      /\ confirm_id \in [Askers -> Ids \cup {0}] /\ handle \in [Writers -> Nat]
  BY DEF CallerPoints, SvcPoints, MainPoints
<1>. QED  BY <1>1, <1>2, <1>3, <1>4 DEF TypeInv, TypeOK, Callers

LEMMA CancelTyped ==
    ASSUME TypeOK, CancelAllPendingConfirms
    PROVE  promise' \in [Ids -> Answers \cup {Unset}] /\ pending_confirms' \subseteq Ids
  BY AnswerIsNotUnset DEF CancelAllPendingConfirms, TypeOK

LEMMA HandleReadTyped ==
    ASSUME TypeOK, NEW id \in Ids, NEW v \in Answers, HandleRead(id, v)
    PROVE  promise' \in [Ids -> Answers \cup {Unset}] /\ pending_confirms' \subseteq Ids
  BY DEF HandleRead, TypeOK

LEMMA SvcTyped ==
    ASSUME TypeInv, SvcNext PROVE TypeInv'
<1> USE DEF TypeInv, TypeOK, SvcPoints, SvcUnchanged, pipeVars, uiVars, INVALID
<1>1. CASE SvcCreate
  BY <1>1 DEF SvcCreate
<1>2. CASE SvcLeave
  BY <1>2 DEF SvcLeave
<1>3. CASE SvcRegister
  BY <1>3 DEF SvcRegister
<1>4. CASE SvcConnect
  BY <1>4 DEF SvcConnect
<1>5. CASE SvcConnectError
  BY <1>5 DEF SvcConnectError, ClosePipe
<1>6. CASE SvcConnected
  BY <1>6 DEF SvcConnected
<1>7. CASE SvcConnectAborted
  BY <1>7 DEF SvcConnectAborted, ClosePipe
<1>8. CASE SvcStoppedAfterConnect
  BY <1>8 DEF SvcStoppedAfterConnect, ClosePipe
<1>9. CASE SvcSetConnected
  BY <1>9 DEF SvcSetConnected
<1>10. CASE SvcSnapLock
  BY <1>10 DEF SvcSnapLock, Writers, Note
<1>11. CASE SvcSnapWritten
  <2>1. toUI' \in Seq(Ids \cup {Note})
    <3>1. CASE UNCHANGED toUI
      BY <3>1
    <3>2. CASE toUI' = Append(toUI, Note)
      BY <3>2, AppendTyped
    <3>. QED  BY <1>11, <3>1, <3>2 DEF SvcSnapWritten
  <2>. QED  BY <1>11, <2>1 DEF SvcSnapWritten, Writers
<1>12. CASE SvcReadTop
  BY <1>12 DEF SvcReadTop
<1>13. CASE SvcRead
  BY <1>13 DEF SvcRead
<1>14. CASE SvcReadFrame
  <2>0. Head(fromUI) \in [id : Ids, answer : Answers] /\ fromUI' \in Seq([id : Ids, answer : Answers])
    BY <1>14, HeadTailTyped DEF SvcReadFrame
  <2>1. Head(fromUI).id \in Ids /\ Head(fromUI).answer \in Answers
    BY <2>0
  <2>2. promise' \in [Ids -> Answers \cup {Unset}] /\ pending_confirms' \subseteq Ids
    BY <1>14, <2>1, HandleReadTyped DEF SvcReadFrame
  <2>. QED  BY <1>14, <2>0, <2>2 DEF SvcReadFrame
<1>15. CASE SvcReadFails
  BY <1>15 DEF SvcReadFails
<1>16. CASE SvcDrop
  BY <1>16 DEF SvcDrop
<1>17. CASE SvcCancel
  BY <1>17, CancelTyped DEF SvcCancel
<1>18. CASE SvcClear
  BY <1>18 DEF SvcClear
<1>19. CASE SvcClose
  BY <1>19 DEF SvcClose, ClosePipe
<1>. QED
  BY <1>1, <1>2, <1>3, <1>4, <1>5, <1>6, <1>7, <1>8, <1>9, <1>10, <1>11, <1>12, <1>13, <1>14, <1>15, <1>16, <1>17, <1>18, <1>19
     DEF SvcNext

LEMMA CallersTyped ==
    ASSUME TypeInv, CallersNext PROVE TypeInv'
<1> USE DEF TypeInv, TypeOK, CallerPoints, CallUnchanged, pipeVars, uiVars, INVALID
<1>1. ASSUME NEW a \in Askers, AskWhileDisconnected(a) PROVE TypeInv'
  BY <1>1, AnswerIsNotUnset DEF AskWhileDisconnected, Callers
<1>2. ASSUME NEW a \in Askers, AskConfirm(a) PROVE TypeInv'
  BY <1>2, BoundAssumption DEF AskConfirm, Ids, Callers
<1>3. ASSUME NEW p \in Pushers, Push(p) PROVE TypeInv'
  BY <1>3, ThreadAssumption DEF Push, Callers
<1>4. ASSUME NEW c \in Callers, LockAndCopyHandle(c) PROVE TypeInv'
  BY <1>4 DEF LockAndCopyHandle, Writers, Callers
<1>5. ASSUME NEW c \in Callers, WriteDelivers(c) PROVE TypeInv'
  <2>1. toUI' \in Seq(Ids \cup {Note})
    <3>1. (IF c \in Askers THEN confirm_id[c] ELSE Note) \in Ids \cup {Note}
      BY DEF Note
    <3>. QED  BY <1>5, <3>1, AppendTyped DEF WriteDelivers
  <2>. QED  BY <1>5, <2>1 DEF WriteDelivers, WriteUnchanged, Writers, Callers
<1>6. ASSUME NEW c \in Callers, WriteFails(c) PROVE TypeInv'
  BY <1>6 DEF WriteFails, WriteUnchanged, Writers, Callers
<1>7. ASSUME NEW a \in Askers, RegisterPromise(a) PROVE TypeInv'
  BY <1>7 DEF RegisterPromise, Callers
<1>8. ASSUME NEW a \in Askers, UnregisterFailed(a) PROVE TypeInv'
  BY <1>8, AnswerIsNotUnset DEF UnregisterFailed, ReturnUnchanged, Callers
<1>9. ASSUME NEW a \in Askers, TakeAnswer(a) PROVE TypeInv'
  <2>1. promise[confirm_id[a]] \in Answers
    BY <1>9 DEF TakeAnswer
  <2>2. result' \in [Askers -> Answers]
    BY <1>9, <2>1 DEF TakeAnswer
  <2>. QED  BY <1>9, <2>2 DEF TakeAnswer, ReturnUnchanged, Callers
<1>10. ASSUME NEW a \in Askers, TimeOut(a) PROVE TypeInv'
  BY <1>10 DEF TimeOut, ReturnUnchanged, Callers
<1>11. ASSUME NEW a \in Askers, DecideTimedOut(a) PROVE TypeInv'
  BY <1>11, AnswerIsNotUnset DEF DecideTimedOut, ReturnUnchanged, Callers
<1>. QED
  BY <1>1, <1>2, <1>3, <1>4, <1>5, <1>6, <1>7, <1>8, <1>9, <1>10, <1>11
     DEF CallersNext, CallerStep, Callers

LEMMA MainTyped ==
    ASSUME TypeInv, Start \/ Stop \/ StopSteps PROVE TypeInv'
<1> USE DEF TypeInv, TypeOK, SvcPoints, MainPoints, MainUnchanged, pipeVars, uiVars
<1>1. CASE Start
  BY <1>1 DEF Start
<1>2. CASE Stop
  BY <1>2, ZenonT(30) DEF Stop
<1>3. CASE StopCancelIo
  BY <1>3 DEF StopCancelIo, Outstanding, Writers
<1>4. CASE StopCancelPending
  BY <1>4, CancelTyped DEF StopCancelPending
<1>5. CASE StopJoin
  BY <1>5 DEF StopJoin
<1>6. CASE StopFinish
  BY <1>6, ZenonT(30) DEF StopFinish
<1>. QED  BY <1>1, <1>2, <1>3, <1>4, <1>5, <1>6 DEF StopSteps

LEMMA UITyped ==
    ASSUME TypeInv, UINext PROVE TypeInv'
<1> USE DEF TypeInv, TypeOK, UIUnchanged, Note
<1>1. CASE UIConnect
  BY <1>1, BoundAssumption DEF UIConnect
<1>2. CASE UIRead
  <2>1. Head(toUI) \in Ids \cup {Note} /\ toUI' \in Seq(Ids \cup {Note})
    BY <1>2, HeadTailTyped DEF UIRead
  <2>. QED  BY <1>2, <2>1 DEF UIRead
<1>3. CASE UIClose
  <2>1. toUI' \in Seq(Ids \cup {Note})
    <3>1. toUI' = <<>> \/ toUI' = toUI
      BY <1>3 DEF UIClose
    <3>2. CASE toUI' = <<>>
      BY <3>2
    <3>. QED  BY <3>1, <3>2
  <2>2. pipe' \in {"none", "listening", "open", "broken"}
    BY <1>3 DEF UIClose
  <2>. QED  BY <1>3, <2>1, <2>2 DEF UIClose
<1>4. CASE UINoticesDisconnect
  BY <1>4, BoundAssumption DEF UINoticesDisconnect
<1>5. ASSUME NEW v \in Answers, UserAnswers(v) PROVE TypeInv'
  <2>1. dialog \in Ids /\ [id |-> dialog, answer |-> v] \in [id : Ids, answer : Answers]
    BY <1>5 DEF UserAnswers
  <2>2. fromUI' \in Seq([id : Ids, answer : Answers])
    BY <1>5, <2>1, AppendTyped DEF UserAnswers
  <2>. QED  BY <1>5, <2>1, <2>2 DEF UserAnswers
<1>. QED  BY <1>1, <1>2, <1>3, <1>4, <1>5 DEF UINext

LEMMA TypeInductive ==
    ASSUME TypeInv, [Next]_vars PROVE TypeInv'
<1>1. CASE UNCHANGED vars
  BY <1>1 DEF TypeInv, TypeOK, vars, pipeVars, uiVars
<1>. QED  BY <1>1, SvcTyped, CallersTyped, MainTyped, UITyped DEF Next

\* Every variable keeps its type: confirm ids, queue contents and handles stay
\* what the code can hold, at every program point of every thread.
THEOREM TypeCorrect == Spec => []TypeOK
<1>1. TypeInv => TypeOK
  BY DEF TypeInv
<1>. QED  BY <1>1, TypeInit, TypeInductive, PTL DEF Spec

-----------------------------------------------------------------------------
(* The handle stop() cancels I/O on.  It is published before the first wait *)
(* on a pipe instance and withdrawn before the instance is closed, and only *)
(* the service thread opens, publishes, withdraws or closes one; the client *)
(* can break a pipe but not close the server's end.                         *)

Exposed == {"connect", "connecting", "check", "snap", "snapping", "read_top",
            "read", "reading", "drop", "cancel"}

IoInv ==
    /\ svc \in Exposed => pipe_handle = instance
    /\ svc \in Exposed \cup {"register"} => pipe # "none"

LEMMA IoInductive ==
    ASSUME IoInv, [Next]_vars PROVE IoInv'
<1> USE DEF IoInv, Exposed
<1>1. CASE SvcNext
  <2> USE DEF SvcUnchanged, pipeVars
  <2>1. CASE SvcCreate \/ SvcLeave \/ SvcRegister \/ SvcConnect \/ SvcConnectError
    BY <2>1 DEF SvcCreate, SvcLeave, SvcRegister, SvcConnect, SvcConnectError
  <2>2. CASE SvcConnected \/ SvcConnectAborted \/ SvcStoppedAfterConnect \/ SvcSetConnected
    BY <2>2 DEF SvcConnected, SvcConnectAborted, SvcStoppedAfterConnect, SvcSetConnected
  <2>3. CASE SvcSnapLock \/ SvcSnapWritten \/ SvcReadTop \/ SvcRead
    BY <2>3 DEF SvcSnapLock, SvcSnapWritten, SvcReadTop, SvcRead
  <2>4. CASE SvcReadFrame \/ SvcReadFails \/ SvcDrop \/ SvcCancel \/ SvcClear \/ SvcClose
    BY <2>4 DEF SvcReadFrame, SvcReadFails, SvcDrop, SvcCancel, SvcClear, SvcClose
  <2>. QED  BY <1>1, <2>1, <2>2, <2>3, <2>4 DEF SvcNext
<1>2. CASE CallersNext
  <2>1. UNCHANGED <<svc, pipe_handle, instance, pipe>>
    BY <1>2 DEF CallersNext, CallerStep, AskWhileDisconnected, AskConfirm, Push,
        LockAndCopyHandle, WriteDelivers, WriteFails, RegisterPromise, UnregisterFailed,
        TakeAnswer, TimeOut, DecideTimedOut, CallUnchanged, WriteUnchanged,
        ReturnUnchanged, pipeVars
  <2>. QED  BY <2>1
<1>3. CASE Start \/ Stop \/ StopSteps
  BY <1>3 DEF Start, Stop, StopSteps, StopCancelIo, StopCancelPending, StopJoin, StopFinish,
      MainUnchanged, pipeVars
<1>4. CASE UINext
  BY <1>4 DEF UINext, UIConnect, UIRead, UIClose, UINoticesDisconnect, UserAnswers, UIUnchanged
<1>5. CASE UNCHANGED vars
  BY <1>5 DEF vars, pipeVars
<1>. QED  BY <1>1, <1>2, <1>3, <1>4, <1>5 DEF Next

\* Wherever the service thread blocks on its pipe, stop() finds the handle of
\* that very pipe instance to cancel the I/O on.
THEOREM BlockedIoCorrect == Spec => []BlockedIoIsRegistered
<1>1. Init => IoInv
  BY DEF Init, IoInv, Exposed
<1>2. IoInv => BlockedIoIsRegistered
  BY DEF IoInv, Exposed, BlockedIoIsRegistered
<1>. QED  BY <1>1, <1>2, IoInductive, PTL DEF Spec

-----------------------------------------------------------------------------
(* The promises.  Ids are handed out in order, so a request's promise is    *)
(* untouched until its caller registers it, and two callers never share one. *)

PromiseInv ==
    /\ PromiseDiscipline
    /\ \A a \in Askers : confirm_id[a] < next_id
    /\ \A a \in Askers : caller[a] = "register" => promise[confirm_id[a]] = Unset
    /\ \A id \in Ids : id >= next_id => promise[id] = Unset

\* A step that moves callers only between points that hold their promise, or
\* not at all, leaves the invariant alone.
LEMMA PromiseFrame ==
    ASSUME TypeInv, PromiseInv,
           UNCHANGED <<promise, pending_confirms, confirm_id, next_id>>,
           \A a \in Askers :
              \/ caller'[a] = caller[a]
              \/ caller[a] \in Registered /\ caller'[a] \in Registered
    PROVE  PromiseInv'
  BY DEF PromiseInv, PromiseDiscipline, Holding, Registered

\* Cancelling keeps every pending promise once.
LEMMA PromiseCancel ==
    ASSUME TypeInv, PromiseInv, CancelAllPendingConfirms,
           UNCHANGED <<caller, confirm_id, next_id>>
    PROVE  PromiseInv'
<1> USE DEF TypeInv, TypeOK
<1>1. ASSUME NEW id \in Ids
      PROVE  promise'[id] = IF id \in pending_confirms THEN Deny ELSE promise[id]
  BY DEF CancelAllPendingConfirms
<1>2. PromiseDiscipline'
  BY <1>1, AnswerIsNotUnset DEF CancelAllPendingConfirms, PromiseInv, PromiseDiscipline, Holding,
     Registered
<1>3. ASSUME NEW id \in Ids, id \in pending_confirms
      PROVE  \E a \in Askers : caller[a] # "register" /\ confirm_id[a] = id
  BY <1>3 DEF PromiseInv, PromiseDiscipline, Holding, Registered
<1>4. ASSUME NEW a \in Askers, caller'[a] = "register" PROVE promise'[confirm_id'[a]] = Unset
  <2>1. confirm_id[a] \in Ids /\ confirm_id[a] # 0
    BY <1>4 DEF Ids
  <2>2. confirm_id[a] \notin pending_confirms
    BY <1>3, <1>4, <2>1 DEF PromiseInv, PromiseDiscipline
  <2>. QED  BY <1>1, <1>4, <2>1, <2>2 DEF PromiseInv
<1>5. ASSUME NEW id \in Ids, id >= next_id' PROVE promise'[id] = Unset
  <2>1. id \notin pending_confirms
    BY <1>3, <1>5 DEF PromiseInv, Ids
  <2>. QED  BY <1>1, <1>5, <2>1 DEF PromiseInv
<1>. QED  BY <1>2, <1>4, <1>5 DEF PromiseInv

LEMMA PromiseAnswered ==
    ASSUME TypeInv, PromiseInv, NEW i \in Ids, NEW v \in Answers, HandleRead(i, v),
           UNCHANGED <<caller, confirm_id, next_id>>
    PROVE  PromiseInv'
<1> USE DEF TypeInv, TypeOK
<1>1. CASE i \notin pending_confirms
  BY <1>1, PromiseFrame DEF HandleRead
<1>2. CASE i \in pending_confirms
  <2>1. promise' = [promise EXCEPT ![i] = v] /\ pending_confirms' = pending_confirms \ {i}
    BY <1>2 DEF HandleRead
  <2>2. v # Unset
    BY AnswerIsNotUnset
  <2>3. PICK b \in Askers : Holding(b, i)
    BY <1>2 DEF PromiseInv, PromiseDiscipline
  <2>4. PromiseDiscipline'
    BY <2>1, <2>2 DEF PromiseInv, PromiseDiscipline, Holding, Registered
  <2>5. ASSUME NEW a \in Askers, caller'[a] = "register" PROVE promise'[confirm_id'[a]] = Unset
    <3>1. confirm_id[a] # i
      BY <2>3, <2>5 DEF PromiseInv, PromiseDiscipline, Holding, Registered, Ids
    <3>. QED  BY <2>1, <2>5, <3>1 DEF PromiseInv
  <2>6. ASSUME NEW id \in Ids, id >= next_id' PROVE promise'[id] = Unset
    <3>1. id # i
      BY <2>3, <2>6 DEF PromiseInv, Holding, Ids
    <3>. QED  BY <2>1, <2>6, <3>1 DEF PromiseInv
  <2>. QED  BY <2>4, <2>5, <2>6 DEF PromiseInv
<1>. QED  BY <1>1, <1>2

\* A caller that gives its request up, or takes its answer, leaves no entry.
LEMMA PromiseReturned ==
    ASSUME TypeInv, PromiseInv, NEW a \in Askers, caller[a] # "register",
           caller' = [caller EXCEPT ![a] = "idle"],
           \/ pending_confirms' = pending_confirms \ {confirm_id[a]}
           \/ pending_confirms' = pending_confirms /\ confirm_id[a] \notin pending_confirms,
           UNCHANGED <<promise, confirm_id, next_id>>
    PROVE  PromiseInv'
<1> USE DEF TypeInv, TypeOK
<1>0. pending_confirms' \subseteq pending_confirms /\ confirm_id[a] \notin pending_confirms'
  OBVIOUS
<1>1. \A b \in Askers : b # a => caller'[b] = caller[b]
  BY DEF Callers
<1>2. caller'[a] = "idle"
  BY DEF Callers
<1>3. ASSUME NEW id \in pending_confirms'
      PROVE  promise'[id] = Unset /\ \E b \in Askers : confirm_id'[b] = id /\ caller'[b] \in Registered
  BY <1>0, <1>1 DEF PromiseInv, PromiseDiscipline, Holding
<1>4. ASSUME NEW b \in Askers, caller'[b] \in Registered
      PROVE  confirm_id'[b] \in pending_confirms' \/ promise'[confirm_id'[b]] # Unset
  <2>1. b # a /\ caller[b] \in Registered /\ confirm_id[b] \in Ids
    BY <1>1, <1>2, <1>4 DEF Registered
  <2>2. CASE confirm_id[b] = confirm_id[a]
    BY <2>1, <2>2 DEF PromiseInv, PromiseDiscipline, Ids
  <2>3. CASE confirm_id[b] # confirm_id[a]
    BY <2>1, <2>3 DEF PromiseInv, PromiseDiscipline
  <2>. QED  BY <2>2, <2>3
<1>. QED
  BY <1>1, <1>2, <1>3, <1>4 DEF PromiseInv, PromiseDiscipline, Holding

LEMMA PromiseCallers ==
    ASSUME TypeInv, PromiseInv, CallersNext PROVE PromiseInv'
<1> USE DEF TypeInv, TypeOK, CallUnchanged, ReturnUnchanged, WriteUnchanged
<1>1. ASSUME NEW a \in Askers, AskWhileDisconnected(a) PROVE PromiseInv'
  <2>1. /\ confirm_id' = [confirm_id EXCEPT ![a] = 0]
        /\ caller[a] = "idle"
        /\ UNCHANGED <<promise, pending_confirms, next_id, caller>>
    BY <1>1 DEF AskWhileDisconnected
  <2>2. confirm_id'[a] = 0 /\ \A b \in Askers : b # a => confirm_id'[b] = confirm_id[b]
    BY <2>1
  <2>3. \A b \in Askers : caller[b] # "idle" => confirm_id'[b] = confirm_id[b]
    BY <2>1, <2>2
  <2>4. \A id \in pending_confirms : \E b \in Askers : caller[b] # "idle" /\ Holding(b, id)
    BY DEF PromiseInv, PromiseDiscipline, Holding, Registered
  <2>5. PromiseDiscipline'
    BY <2>1, <2>2, <2>3, <2>4 DEF PromiseInv, PromiseDiscipline, Holding, Registered
  <2>. QED  BY <2>1, <2>2, <2>3, <2>5 DEF PromiseInv
<1>2. ASSUME NEW a \in Askers, AskConfirm(a) PROVE PromiseInv'
  <2>1. /\ confirm_id' = [confirm_id EXCEPT ![a] = next_id]
        /\ caller' = [caller EXCEPT ![a] = "register"]
        /\ caller[a] = "idle" /\ next_id \in Ids /\ next_id' = next_id + 1
        /\ UNCHANGED <<promise, pending_confirms>>
    BY <1>2, BoundAssumption DEF AskConfirm, Ids
  <2>2. promise[next_id] = Unset
    BY <2>1 DEF PromiseInv, Ids
  <2>3. \A b \in Askers : /\ b # a => caller'[b] = caller[b] /\ confirm_id'[b] = confirm_id[b]
                          /\ confirm_id[b] < next_id /\ confirm_id[b] \in Nat
    BY <2>1 DEF PromiseInv, Ids, Callers
  <2>4. caller'[a] = "register" /\ confirm_id'[a] = next_id
    BY <2>1 DEF Callers
  <2>5. \A id \in pending_confirms : \E b \in Askers : b # a /\ Holding(b, id)
    BY <2>1 DEF PromiseInv, PromiseDiscipline, Holding, Registered
  <2>6. \A b, c \in Askers : b # c /\ confirm_id'[b] = confirm_id'[c] => confirm_id'[b] = 0
    BY <2>3, <2>4, SMTT(20) DEF PromiseInv, PromiseDiscipline
  <2>7. PromiseDiscipline'
    <3>1. \A id \in pending_confirms' : promise'[id] = Unset /\ \E b \in Askers : Holding(b, id)'
      BY <2>1, <2>3, <2>5 DEF PromiseInv, PromiseDiscipline, Holding
    <3>2. \A b \in Askers : caller'[b] \in Registered =>
              confirm_id'[b] \in pending_confirms' \/ promise'[confirm_id'[b]] # Unset
      BY <2>1, <2>3, <2>4 DEF PromiseInv, PromiseDiscipline, Registered
    <3>. QED  BY <2>6, <3>1, <3>2 DEF PromiseDiscipline
  <2>8. \A id \in Ids : id >= next_id' => promise'[id] = Unset
    BY <2>1 DEF PromiseInv, Ids
  <2>. QED  BY <2>1, <2>2, <2>3, <2>4, <2>7, <2>8 DEF PromiseInv
<1>3. ASSUME NEW p \in Pushers, Push(p) PROVE PromiseInv'
  <2>1. \A a \in Askers : caller'[a] = caller[a]
    BY <1>3, ThreadAssumption DEF Push, Callers
  <2>. QED  BY <1>3, <2>1, PromiseFrame DEF Push
<1>4. ASSUME NEW c \in Callers, LockAndCopyHandle(c) PROVE PromiseInv'
  <2>1. \A a \in Askers : caller'[a] = caller[a] \/ (caller[a] = "lock" /\ caller'[a] = "writing")
    BY <1>4 DEF LockAndCopyHandle, Callers
  <2>. QED  BY <1>4, <2>1, PromiseFrame DEF LockAndCopyHandle, Registered
<1>5. ASSUME NEW c \in Callers, WriteDelivers(c) PROVE PromiseInv'
  <2>1. \A a \in Askers : caller'[a] = caller[a] \/ (caller[a] = "writing" /\ caller'[a] = "wait")
    BY <1>5 DEF WriteDelivers, Callers
  <2>. QED  BY <1>5, <2>1, PromiseFrame DEF WriteDelivers, Registered
<1>6. ASSUME NEW c \in Callers, WriteFails(c) PROVE PromiseInv'
  <2>1. \A a \in Askers :
            caller'[a] = caller[a] \/ (caller[a] = "writing" /\ caller'[a] = "unregister")
    BY <1>6 DEF WriteFails, Callers
  <2>. QED  BY <1>6, <2>1, PromiseFrame DEF WriteFails, Registered
<1>7. ASSUME NEW a \in Askers, RegisterPromise(a) PROVE PromiseInv'
  <2>1. /\ pending_confirms' = pending_confirms \cup {confirm_id[a]}
        /\ caller' = [caller EXCEPT ![a] = "lock"] /\ caller[a] = "register"
        /\ UNCHANGED <<promise, confirm_id, next_id>>
    BY <1>7 DEF RegisterPromise
  <2>2. promise[confirm_id[a]] = Unset
    BY <2>1 DEF PromiseInv
  <2>3. caller'[a] = "lock" /\ \A b \in Askers : b # a => caller'[b] = caller[b]
    BY <2>1 DEF Callers
  <2>4. \A b \in Askers : caller[b] \in Registered => caller'[b] \in Registered
    BY <2>3 DEF Registered
  <2>5. ASSUME NEW id \in pending_confirms'
        PROVE  promise'[id] = Unset /\ \E b \in Askers : confirm_id'[b] = id /\ caller'[b] \in Registered
    <3>1. CASE id = confirm_id[a]
      BY <2>1, <2>2, <2>3, <3>1 DEF Registered
    <3>2. CASE id \in pending_confirms
      BY <2>1, <2>4, <3>2 DEF PromiseInv, PromiseDiscipline, Holding
    <3>. QED  BY <2>1, <2>5, <3>1, <3>2
  <2>6. ASSUME NEW b \in Askers, caller'[b] \in Registered
        PROVE  confirm_id'[b] \in pending_confirms' \/ promise'[confirm_id'[b]] # Unset
    BY <2>1, <2>3, <2>6 DEF PromiseInv, PromiseDiscipline
  <2>. QED  BY <2>1, <2>3, <2>5, <2>6 DEF PromiseInv, PromiseDiscipline, Holding
<1>8. ASSUME NEW a \in Askers, UnregisterFailed(a) PROVE PromiseInv'
  BY <1>8, PromiseReturned DEF UnregisterFailed
<1>9. ASSUME NEW a \in Askers, TakeAnswer(a) PROVE PromiseInv'
  <2>1. confirm_id[a] \notin pending_confirms
    BY <1>9 DEF TakeAnswer, PromiseInv, PromiseDiscipline
  <2>. QED  BY <1>9, <2>1, PromiseReturned DEF TakeAnswer
<1>10. ASSUME NEW a \in Askers, TimeOut(a) PROVE PromiseInv'
  <2>1. \A b \in Askers : caller'[b] = caller[b] \/ (caller[b] = "wait" /\ caller'[b] = "timedout")
    BY <1>10 DEF TimeOut, Callers
  <2>. QED  BY <1>10, <2>1, PromiseFrame DEF TimeOut, Registered
<1>11. ASSUME NEW a \in Askers, DecideTimedOut(a) PROVE PromiseInv'
  BY <1>11, PromiseReturned DEF DecideTimedOut
<1>. QED
  BY <1>1, <1>2, <1>3, <1>4, <1>5, <1>6, <1>7, <1>8, <1>9, <1>10, <1>11
     DEF CallersNext, CallerStep

LEMMA PromiseInductive ==
    ASSUME TypeInv, PromiseInv, [Next]_vars PROVE PromiseInv'
<1>1. CASE SvcReadFrame
  <2>0. Head(fromUI) \in [id : Ids, answer : Answers]
    BY <1>1, HeadTailTyped DEF SvcReadFrame, TypeInv, TypeOK
  <2>1. Head(fromUI).id \in Ids /\ Head(fromUI).answer \in Answers
    BY <2>0
  <2>. QED  BY <1>1, <2>1, PromiseAnswered DEF SvcReadFrame, SvcUnchanged
<1>2. CASE SvcCancel
  BY <1>2, PromiseCancel DEF SvcCancel, SvcUnchanged
<1>3. CASE SvcNext /\ ~SvcReadFrame /\ ~SvcCancel
  <2>1. UNCHANGED <<promise, pending_confirms, confirm_id, next_id, caller>>
    BY <1>3 DEF SvcNext, SvcCreate, SvcLeave, SvcRegister, SvcConnect, SvcConnectError,
        SvcConnected, SvcConnectAborted, SvcStoppedAfterConnect, SvcSetConnected, SvcSnapLock,
        SvcSnapWritten, SvcReadTop, SvcRead, SvcReadFails, SvcDrop, SvcClear, SvcClose,
        SvcUnchanged
  <2>. QED  BY <2>1, PromiseFrame
<1>4. CASE StopCancelPending
  BY <1>4, PromiseCancel DEF StopCancelPending, MainUnchanged
<1>5. CASE Start \/ Stop \/ StopCancelIo \/ StopJoin \/ StopFinish \/ UINext \/ UNCHANGED vars
  <2>1. UNCHANGED <<promise, pending_confirms, confirm_id, next_id, caller>>
    BY <1>5 DEF Start, Stop, StopCancelIo, StopJoin, StopFinish, UINext, UIConnect, UIRead,
        UIClose, UINoticesDisconnect, UserAnswers, MainUnchanged, UIUnchanged, vars
  <2>. QED  BY <2>1, PromiseFrame
<1>. QED  BY <1>1, <1>2, <1>3, <1>4, <1>5, PromiseCallers DEF Next, StopSteps

\* A confirmation's promise is kept exactly once, whoever comes first - the
\* answer, the disconnect, the timeout, the failed write or stop() - and no
\* entry outlives its caller.
THEOREM PromiseCorrect == Spec => []PromiseDiscipline
<1>1. Init => PromiseInv
  BY DEF Init, PromiseInv, PromiseDiscipline, Holding, Registered, Callers, Ids
<1>2. PromiseInv => PromiseDiscipline
  BY DEF PromiseInv
<1>. QED  BY <1>1, <1>2, TypeInit, TypeInductive, PromiseInductive, PTL DEF Spec

-----------------------------------------------------------------------------
(* The answers.  A request is in one place at a time - with its caller, in  *)
(* the UI's queue, in the dialog - until its user has answered it, and the  *)
(* answer then is the same in the pipe, in the promise and in the result.   *)

Unsent == {"register", "lock", "writing"}
Queue == 1 .. Len(toUI)

AnswersMatch ==
    /\ \A i \in 1 .. Len(fromUI) : fromUI[i].answer = said[fromUI[i].id]
    /\ \A id \in Ids : promise[id].confirmed => promise[id] = said[id]

UnsentIsUnsaid ==
    \A a \in Askers : caller[a] \in Unsent =>
        /\ said[confirm_id[a]] = Unset
        /\ confirm_id[a] # dialog
        /\ \A i \in Queue : toUI[i] # confirm_id[a]

QueuedIsUnsaid ==
    \A i \in Queue : toUI[i] # Note =>
        /\ said[toUI[i]] = Unset
        /\ toUI[i] # dialog
        /\ toUI[i] < next_id
        /\ \A j \in Queue : i # j => toUI[i] # toUI[j]

DialogIsUnsaid == dialog # 0 => said[dialog] = Unset /\ dialog < next_id

CauseInv ==
    /\ ApprovalHasCause
    /\ AnswersMatch
    /\ UnsentIsUnsaid
    /\ QueuedIsUnsaid
    /\ DialogIsUnsaid
    /\ ui # "dialog" => dialog = 0
    /\ \A id \in Ids : id >= next_id => said[id] = Unset

\* What Append and Tail leave at each index.
LEMMA AppendAt ==
    ASSUME NEW S, NEW s \in Seq(S), NEW e \in S, NEW i \in 1 .. Len(Append(s, e))
    PROVE  \/ i \in 1 .. Len(s) /\ Append(s, e)[i] = s[i]
           \/ i = Len(s) + 1 /\ Append(s, e)[i] = e
  OBVIOUS

LEMMA TailAt ==
    ASSUME NEW S, NEW s \in Seq(S), s # <<>>, NEW i \in 1 .. Len(Tail(s))
    PROVE  i + 1 \in 1 .. Len(s) /\ i + 1 # 1 /\ Tail(s)[i] = s[i + 1] /\ 1 \in 1 .. Len(s)
  OBVIOUS

\* The queues may only be emptied and everything else stays.
LEMMA CauseFrame ==
    ASSUME TypeInv, CauseInv,
           UNCHANGED <<promise, confirm_id, next_id, said, result, dialog>>,
           toUI' = toUI \/ toUI' = <<>>, fromUI' = fromUI \/ fromUI' = <<>>,
           ui' = ui \/ (ui' # "dialog" /\ dialog = 0),
           \A a \in Askers : /\ caller'[a] = "idle" => caller[a] = "idle"
                             /\ caller'[a] \in Unsent => caller[a] \in Unsent
    PROVE  CauseInv'
<1> USE DEF CauseInv
<1>1. Len(<<>>) = 0
  OBVIOUS
<1>2. ApprovalHasCause' /\ DialogIsUnsaid' /\ (ui' # "dialog" => dialog' = 0)
  BY DEF ApprovalHasCause, DialogIsUnsaid
<1>3. AnswersMatch'
  BY <1>1 DEF AnswersMatch
<1>4. UnsentIsUnsaid'
  BY <1>1 DEF UnsentIsUnsaid, Queue
<1>5. QueuedIsUnsaid'
  BY <1>1 DEF QueuedIsUnsaid, Queue
<1>. QED  BY <1>2, <1>3, <1>4, <1>5

\* A note in the queue changes nothing.
LEMMA CauseNote ==
    ASSUME TypeInv, CauseInv, toUI' = Append(toUI, Note),
           UNCHANGED <<promise, confirm_id, next_id, said, result, dialog, fromUI, ui>>,
           \A a \in Askers : caller'[a] = caller[a]
    PROVE  CauseInv'
<1> USE DEF CauseInv
<1>1. \A i \in Queue' : (i \in Queue /\ toUI'[i] = toUI[i]) \/ toUI'[i] = Note
  BY AppendAt DEF Queue, TypeInv, TypeOK
<1>2. ApprovalHasCause' /\ DialogIsUnsaid' /\ AnswersMatch'
  BY DEF ApprovalHasCause, DialogIsUnsaid, AnswersMatch
<1>3. UnsentIsUnsaid'
  <2> SUFFICES ASSUME NEW a \in Askers, caller[a] \in Unsent, NEW i \in Queue'
               PROVE  toUI'[i] # confirm_id[a]
    BY DEF UnsentIsUnsaid
  <2>1. confirm_id[a] # Note
    BY DEF Unsent, TypeInv, Ids, Note
  <2>. QED  BY <1>1, <2>1 DEF UnsentIsUnsaid
<1>4. QueuedIsUnsaid'
  BY <1>1 DEF QueuedIsUnsaid
<1>. QED  BY <1>2, <1>3, <1>4

LEMMA CauseCancel ==
    ASSUME TypeInv, CauseInv, CancelAllPendingConfirms,
           UNCHANGED <<confirm_id, next_id, said, result, dialog, toUI, fromUI, ui, caller>>
    PROVE  CauseInv'
<1>1. \A id \in Ids : promise'[id].confirmed => promise'[id] = promise[id]
  BY DEF CancelAllPendingConfirms, Deny, TypeInv, TypeOK
<1>2. AnswersMatch'
  BY <1>1 DEF CauseInv, AnswersMatch
<1>. QED
  BY <1>2 DEF CauseInv, ApprovalHasCause, UnsentIsUnsaid, QueuedIsUnsaid, DialogIsUnsaid, Queue

LEMMA CauseRead ==
    ASSUME TypeInv, CauseInv, SvcReadFrame PROVE CauseInv'
<1> DEFINE m == Head(fromUI)
<1>0. fromUI \in Seq([id : Ids, answer : Answers]) /\ fromUI # <<>>
  BY DEF SvcReadFrame, TypeInv, TypeOK
<1>1. m \in [id : Ids, answer : Answers] /\ m = fromUI[1] /\ 1 \in 1 .. Len(fromUI)
  <2>1. m \in [id : Ids, answer : Answers]
    BY <1>0, HeadTailTyped
  <2>2. m = fromUI[1] /\ 1 \in 1 .. Len(fromUI)
    BY <1>0
  <2>. QED  BY <2>1, <2>2
<1>2. m.id \in Ids /\ m.answer = said[m.id]
  BY <1>1 DEF CauseInv, AnswersMatch
<1>3. \A id \in Ids : promise'[id].confirmed => promise'[id] = said[id]
  <2>1. \A id \in Ids : promise'[id] = promise[id] \/ (id = m.id /\ promise'[id] = m.answer)
    BY <1>2 DEF SvcReadFrame, HandleRead, TypeInv, TypeOK
  <2>. QED  BY <1>2, <2>1 DEF CauseInv, AnswersMatch
<1>4. \A i \in 1 .. Len(fromUI') : fromUI'[i].answer = said[fromUI'[i].id]
  <2> SUFFICES ASSUME NEW i \in 1 .. Len(Tail(fromUI))
               PROVE  Tail(fromUI)[i].answer = said[Tail(fromUI)[i].id]
    BY DEF SvcReadFrame
  <2>1. i + 1 \in 1 .. Len(fromUI) /\ Tail(fromUI)[i] = fromUI[i + 1]
    BY TailAt DEF SvcReadFrame, TypeInv, TypeOK
  <2>. QED  BY <2>1 DEF CauseInv, AnswersMatch
<1>5. UNCHANGED <<caller, confirm_id, next_id, said, result, dialog, toUI, ui>>
  BY DEF SvcReadFrame, SvcUnchanged, uiVars
<1>6. AnswersMatch'
  BY <1>3, <1>4, <1>5 DEF AnswersMatch
<1>. QED
  BY <1>5, <1>6 DEF CauseInv, ApprovalHasCause, UnsentIsUnsaid, QueuedIsUnsaid, DialogIsUnsaid, Queue

LEMMA CauseSvc ==
    ASSUME TypeInv, CauseInv, SvcNext PROVE CauseInv'
<1> USE DEF SvcUnchanged, uiVars, pipeVars, ClosePipe
<1>1. CASE SvcReadFrame
  BY <1>1, CauseRead
<1>2. CASE SvcCancel
  BY <1>2, CauseCancel DEF SvcCancel
<1>3. CASE SvcSnapWritten
  <2>1. toUI' = toUI \/ toUI' = Append(toUI, Note)
    BY <1>3 DEF SvcSnapWritten
  <2>2. UNCHANGED <<promise, confirm_id, next_id, said, result, dialog, fromUI, ui, caller>>
    BY <1>3 DEF SvcSnapWritten
  <2>. QED  BY <2>1, <2>2, CauseNote, CauseFrame
<1>4. CASE SvcNext /\ ~SvcReadFrame /\ ~SvcCancel /\ ~SvcSnapWritten
  <2>1. /\ UNCHANGED <<promise, confirm_id, next_id, said, result, dialog, ui, caller>>
        /\ toUI' = toUI \/ toUI' = <<>>
        /\ fromUI' = fromUI \/ fromUI' = <<>>
    BY <1>4 DEF SvcNext, SvcCreate, SvcLeave, SvcRegister, SvcConnect, SvcConnectError,
        SvcConnected, SvcConnectAborted, SvcStoppedAfterConnect, SvcSetConnected, SvcSnapLock,
        SvcReadTop, SvcRead, SvcReadFails, SvcDrop, SvcClear, SvcClose
  <2>. QED  BY <2>1, CauseFrame
<1>. QED  BY <1>1, <1>2, <1>3, <1>4

\* A caller returns with the verdict v; a verdict that approves has a cause.
LEMMA CauseReturn ==
    ASSUME TypeInv, CauseInv, NEW a \in Askers, NEW v \in Answers,
           caller' = [caller EXCEPT ![a] = "idle"],
           result' = [result EXCEPT ![a] = v],
           v.confirmed => /\ confirm_id'[a] # 0
                          /\ v = said[confirm_id'[a]] \/ (v = Allow /\ TimeoutMode = "timeout_allow"),
           \A b \in Askers : b # a => confirm_id'[b] = confirm_id[b],
           UNCHANGED <<promise, next_id, said, dialog, toUI, fromUI, ui>>
    PROVE  CauseInv'
<1>1. caller'[a] = "idle" /\ result'[a] = v
  BY DEF TypeInv, TypeOK, Callers
<1>2. \A b \in Askers : b # a => caller'[b] = caller[b] /\ result'[b] = result[b]
  BY DEF TypeInv, TypeOK, Callers
<1>3. ApprovalHasCause'
  BY <1>1, <1>2 DEF CauseInv, ApprovalHasCause
<1>4. UnsentIsUnsaid'
  BY <1>1, <1>2 DEF CauseInv, UnsentIsUnsaid, Unsent, Queue
<1>. QED
  BY <1>3, <1>4 DEF CauseInv, AnswersMatch, QueuedIsUnsaid, DialogIsUnsaid, Queue

LEMMA CauseCallers ==
    ASSUME TypeInv, PromiseInv, CauseInv, CallersNext PROVE CauseInv'
<1> USE DEF CallUnchanged, ReturnUnchanged, WriteUnchanged, uiVars, pipeVars
<1>1. ASSUME NEW a \in Askers, AskWhileDisconnected(a) PROVE CauseInv'
  <2>1. caller' = [caller EXCEPT ![a] = "idle"] /\ ~Deny.confirmed
    BY <1>1 DEF AskWhileDisconnected, TypeInv, TypeOK, Deny
  <2>2. \A b \in Askers : b # a => confirm_id'[b] = confirm_id[b]
    BY <1>1 DEF AskWhileDisconnected, TypeInv, TypeOK
  <2>. QED  BY <1>1, <2>1, <2>2, AnswerIsNotUnset, CauseReturn DEF AskWhileDisconnected
<1>2. ASSUME NEW a \in Askers, AskConfirm(a) PROVE CauseInv'
  <2>1. /\ confirm_id'[a] = next_id /\ caller'[a] = "register"
        /\ \A b \in Askers : b # a => caller'[b] = caller[b] /\ confirm_id'[b] = confirm_id[b]
        /\ next_id \in Ids /\ next_id' = next_id + 1
        /\ UNCHANGED <<promise, said, result, dialog, toUI, fromUI, ui>>
    BY <1>2, BoundAssumption DEF AskConfirm, TypeInv, TypeOK, Callers, Ids
  <2>2. said[next_id] = Unset /\ next_id # dialog /\ next_id # Note /\ dialog \in Nat
    BY <2>1 DEF CauseInv, DialogIsUnsaid, TypeInv, TypeOK, Ids, Note
  <2>3. \A i \in Queue : toUI[i] # next_id
    BY <2>1, <2>2 DEF CauseInv, QueuedIsUnsaid, Ids
  <2>4. ApprovalHasCause'
    BY <2>1 DEF CauseInv, ApprovalHasCause
  <2>5. UnsentIsUnsaid'
    BY <2>1, <2>2, <2>3 DEF CauseInv, UnsentIsUnsaid, Queue
  <2>6. QueuedIsUnsaid'
    <3> SUFFICES ASSUME NEW i \in Queue, toUI[i] # Note PROVE toUI[i] < next_id + 1
      BY <2>1 DEF CauseInv, QueuedIsUnsaid, Queue
    <3>1. toUI[i] \in Nat
      BY DEF Queue, TypeInv, TypeOK, Ids, Note
    <3>. QED  BY <2>1, <3>1 DEF CauseInv, QueuedIsUnsaid, Ids
  <2>7. DialogIsUnsaid' /\ \A id \in Ids : id >= next_id' => said'[id] = Unset
    BY <2>1, <2>2 DEF CauseInv, DialogIsUnsaid, Ids
  <2>. QED  BY <2>1, <2>4, <2>5, <2>6, <2>7 DEF CauseInv, AnswersMatch
<1>3. ASSUME NEW p \in Pushers, Push(p) PROVE CauseInv'
  <2>1. \A a \in Askers : caller'[a] = caller[a]
    BY <1>3, ThreadAssumption DEF Push, Callers, TypeInv, TypeOK
  <2>. QED  BY <1>3, <2>1, CauseFrame DEF Push
<1>4. ASSUME NEW c \in Callers, LockAndCopyHandle(c) PROVE CauseInv'
  <2>1. \A a \in Askers : caller'[a] = caller[a] \/ (caller[a] = "lock" /\ caller'[a] = "writing")
    BY <1>4 DEF LockAndCopyHandle, Callers, TypeInv, TypeOK
  <2>. QED  BY <1>4, <2>1, CauseFrame DEF LockAndCopyHandle, Unsent
<1>5. ASSUME NEW c \in Callers, WriteDelivers(c), c \notin Askers PROVE CauseInv'
  <2>1. \A a \in Askers : caller'[a] = caller[a]
    BY <1>5 DEF WriteDelivers, Callers, TypeInv, TypeOK
  <2>. QED  BY <1>5, <2>1, CauseNote DEF WriteDelivers
<1>6. ASSUME NEW c \in Askers, WriteDelivers(c) PROVE CauseInv'
  <2> DEFINE id == confirm_id[c]
  <2>1. /\ caller[c] = "writing" /\ caller'[c] = "wait" /\ id \in Ids
        /\ \A b \in Askers : b # c => caller'[b] = caller[b]
        /\ toUI' = Append(toUI, id)
        /\ UNCHANGED <<promise, confirm_id, next_id, said, result, dialog, fromUI, ui>>
    BY <1>6 DEF WriteDelivers, Callers, TypeInv, TypeOK
  <2>2. said[id] = Unset /\ id # dialog /\ id < next_id /\ \A i \in Queue : toUI[i] # id
    BY <2>1 DEF CauseInv, UnsentIsUnsaid, Unsent, PromiseInv
  <2>3. \A i \in Queue' : \/ i \in Queue /\ toUI'[i] = toUI[i]
                          \/ i = Len(toUI) + 1 /\ toUI'[i] = id
    BY <2>1, AppendAt DEF Queue, TypeInv, TypeOK
  <2>4. ApprovalHasCause' /\ AnswersMatch' /\ DialogIsUnsaid'
    BY <2>1 DEF CauseInv, ApprovalHasCause, AnswersMatch, DialogIsUnsaid
  <2>5. UnsentIsUnsaid'
    <3> SUFFICES ASSUME NEW b \in Askers, caller'[b] \in Unsent, NEW i \in Queue'
                 PROVE  toUI'[i] # confirm_id[b]
      BY <2>1 DEF CauseInv, UnsentIsUnsaid, Unsent
    <3>1. b # c /\ caller[b] \in Unsent /\ confirm_id[b] # id
      BY <2>1 DEF Unsent, PromiseInv, PromiseDiscipline, Ids
    <3>. QED  BY <2>3, <3>1 DEF CauseInv, UnsentIsUnsaid
  <2>6. QueuedIsUnsaid'
    BY <2>1, <2>2, <2>3, ZenonT(30) DEF CauseInv, QueuedIsUnsaid
  <2>. QED  BY <2>1, <2>4, <2>5, <2>6 DEF CauseInv
<1>7. ASSUME NEW c \in Callers, WriteFails(c) PROVE CauseInv'
  <2>1. \A a \in Askers :
            caller'[a] = caller[a] \/ (caller[a] = "writing" /\ caller'[a] = "unregister")
    BY <1>7 DEF WriteFails, Callers, TypeInv, TypeOK
  <2>. QED  BY <1>7, <2>1, CauseFrame DEF WriteFails, Unsent
<1>8. ASSUME NEW a \in Askers, RegisterPromise(a) PROVE CauseInv'
  <2>1. \A b \in Askers : caller'[b] = caller[b] \/ (caller[b] = "register" /\ caller'[b] = "lock")
    BY <1>8 DEF RegisterPromise, Callers, TypeInv, TypeOK
  <2>. QED  BY <1>8, <2>1, CauseFrame DEF RegisterPromise, Unsent
<1>9. ASSUME NEW a \in Askers, UnregisterFailed(a) PROVE CauseInv'
  <2>1. ~Deny.confirmed
    BY DEF Deny
  <2>. QED  BY <1>9, <2>1, AnswerIsNotUnset, CauseReturn DEF UnregisterFailed
<1>10. ASSUME NEW a \in Askers, TakeAnswer(a) PROVE CauseInv'
  <2> DEFINE v == promise[confirm_id[a]]
  <2>1. confirm_id[a] \in Ids /\ v \in Answers /\ confirm_id[a] # 0
    BY <1>10 DEF TakeAnswer, TypeInv, TypeOK, Ids
  <2>2. v.confirmed => v = said[confirm_id[a]]
    BY <2>1 DEF CauseInv, AnswersMatch
  <2>. QED  BY <1>10, <2>1, <2>2, CauseReturn DEF TakeAnswer
<1>11. ASSUME NEW a \in Askers, TimeOut(a) PROVE CauseInv'
  <2>1. \A b \in Askers : caller'[b] = caller[b] \/ (caller[b] = "wait" /\ caller'[b] = "timedout")
    BY <1>11 DEF TimeOut, Callers, TypeInv, TypeOK
  <2>. QED  BY <1>11, <2>1, CauseFrame DEF TimeOut, Unsent
<1>12. ASSUME NEW a \in Askers, DecideTimedOut(a) PROVE CauseInv'
  <2> DEFINE v == IF TimeoutMode = "timeout_allow" THEN Allow ELSE Deny
  <2>1. confirm_id[a] # 0 /\ v \in Answers
    BY <1>12, AnswerIsNotUnset DEF DecideTimedOut, TypeInv, Ids
  <2>2. v.confirmed => v = Allow /\ TimeoutMode = "timeout_allow"
    BY DEF Deny
  <2>. QED  BY <1>12, <2>1, <2>2, CauseReturn DEF DecideTimedOut
<1>. QED
  BY <1>1, <1>2, <1>3, <1>4, <1>5, <1>6, <1>7, <1>8, <1>9, <1>10, <1>11, <1>12
     DEF CallersNext, CallerStep

LEMMA CauseUI ==
    ASSUME TypeInv, CauseInv, UINext PROVE CauseInv'
<1> USE DEF UIUnchanged
<1>1. CASE UIConnect
  BY <1>1, CauseFrame DEF UIConnect, CauseInv
<1>2. CASE UINoticesDisconnect
  BY <1>2, CauseFrame DEF UINoticesDisconnect, CauseInv
<1>3. CASE UIClose
  <2>1. /\ dialog' = 0 /\ ui' = "away"
        /\ toUI' = toUI \/ toUI' = <<>>
        /\ UNCHANGED <<promise, confirm_id, next_id, said, result, fromUI, caller>>
    BY <1>3 DEF UIClose
  <2>2. ASSUME NEW id \in Nat, id # 0 PROVE id # dialog'
    BY <2>1, <2>2
  <2>3. Len(<<>>) = 0
    OBVIOUS
  <2>4. UnsentIsUnsaid'
    <3>1. \A a \in Askers : caller[a] \in Unsent => confirm_id[a] # 0
      BY DEF Unsent, TypeInv, Ids
    <3>. QED  BY <2>1, <2>3, <3>1 DEF CauseInv, UnsentIsUnsaid, Queue
  <2>5. QueuedIsUnsaid'
    BY <2>1, <2>3 DEF CauseInv, QueuedIsUnsaid, Queue, Note
  <2>. QED
    BY <2>1, <2>4, <2>5 DEF CauseInv, ApprovalHasCause, AnswersMatch, DialogIsUnsaid
<1>4. CASE UIRead
  <2>1. /\ toUI # <<>> /\ ui = "reading" /\ toUI' = Tail(toUI) /\ dialog = 0
        /\ UNCHANGED <<promise, confirm_id, next_id, said, result, fromUI, caller>>
    BY <1>4 DEF UIRead, CauseInv
  <2>2. \A i \in Queue' : /\ i + 1 \in Queue /\ i + 1 # 1 /\ i \in Nat
                          /\ toUI'[i] = toUI[i + 1] /\ 1 \in Queue
    BY <2>1, TailAt DEF Queue, TypeInv, TypeOK
  <2>3. toUI[1] = Head(toUI) /\ 1 \in Queue
    BY <2>1 DEF Queue, TypeInv, TypeOK
  <2>4. ApprovalHasCause' /\ AnswersMatch'
    BY <2>1 DEF CauseInv, ApprovalHasCause, AnswersMatch
  <2>5. CASE Head(toUI) = Note
    <3>1. UNCHANGED <<ui, dialog>>
      BY <1>4, <2>5 DEF UIRead
    <3>2. UnsentIsUnsaid'
      BY <2>1, <2>2, <3>1 DEF CauseInv, UnsentIsUnsaid
    <3>3. QueuedIsUnsaid'
      <4>1. ASSUME NEW i \in Queue', NEW j \in Queue', toUI'[i] # Note, i # j
            PROVE  toUI'[i] # toUI'[j]
        <5>1. i + 1 \in Queue /\ j + 1 \in Queue /\ i + 1 # j + 1
          BY <2>2, <4>1
        <5>. QED  BY <2>2, <4>1, <5>1 DEF CauseInv, QueuedIsUnsaid
      <4>2. ASSUME NEW i \in Queue', toUI'[i] # Note
            PROVE  said[toUI'[i]] = Unset /\ toUI'[i] # dialog' /\ toUI'[i] < next_id
        BY <2>2, <4>2, <3>1 DEF CauseInv, QueuedIsUnsaid
      <4>. QED  BY <2>1, <4>1, <4>2 DEF QueuedIsUnsaid
    <3>. QED  BY <2>1, <2>4, <3>1, <3>2, <3>3 DEF CauseInv, DialogIsUnsaid
  <2>6. CASE Head(toUI) # Note
    <3>1. ui' = "dialog" /\ dialog' = toUI[1]
      BY <1>4, <2>3, <2>6 DEF UIRead
    <3>2. \A i \in Queue' : toUI'[i] # Note => toUI'[i] # dialog'
      BY <2>2, <2>3, <2>6, <3>1 DEF CauseInv, QueuedIsUnsaid
    <3>3. UnsentIsUnsaid'
      BY <2>1, <2>2, <2>3, <3>1 DEF CauseInv, UnsentIsUnsaid
    <3>4. QueuedIsUnsaid'
      <4>1. ASSUME NEW i \in Queue', NEW j \in Queue', toUI'[i] # Note, i # j
            PROVE  toUI'[i] # toUI'[j]
        <5>1. i + 1 \in Queue /\ j + 1 \in Queue /\ i + 1 # j + 1
          BY <2>2, <4>1
        <5>. QED  BY <2>2, <4>1, <5>1 DEF CauseInv, QueuedIsUnsaid
      <4>2. ASSUME NEW i \in Queue', toUI'[i] # Note
            PROVE  said[toUI'[i]] = Unset /\ toUI'[i] # dialog' /\ toUI'[i] < next_id
        BY <2>2, <4>2, <3>2 DEF CauseInv, QueuedIsUnsaid
      <4>. QED  BY <2>1, <4>1, <4>2 DEF QueuedIsUnsaid
    <3>5. DialogIsUnsaid'
      BY <2>1, <2>3, <2>6, <3>1 DEF CauseInv, QueuedIsUnsaid, DialogIsUnsaid
    <3>. QED  BY <2>1, <2>4, <3>1, <3>3, <3>4, <3>5 DEF CauseInv
  <2>. QED  BY <2>5, <2>6
<1>5. ASSUME NEW v \in Answers, UserAnswers(v) PROVE CauseInv'
  <2> DEFINE m == [id |-> dialog, answer |-> v]
  <2>1. /\ dialog \in Ids /\ dialog # 0 /\ said[dialog] = Unset /\ dialog < next_id
        /\ dialog' = 0 /\ ui' = "reading"
        /\ said'[dialog] = v /\ v # Unset
        /\ \A id \in Ids : id # dialog => said'[id] = said[id]
        /\ UNCHANGED <<promise, confirm_id, next_id, result, toUI, caller>>
    BY <1>5, AnswerIsNotUnset DEF UserAnswers, CauseInv, DialogIsUnsaid, TypeInv, TypeOK, Ids
  <2>2. ApprovalHasCause'
    <3> SUFFICES ASSUME NEW a \in Askers, caller[a] = "idle", result[a].confirmed,
                        result[a] = said[confirm_id[a]], confirm_id[a] # 0
                 PROVE  result[a] = said'[confirm_id[a]]
      BY <2>1 DEF CauseInv, ApprovalHasCause
    <3>1. confirm_id[a] # dialog /\ confirm_id[a] \in Ids
      BY <2>1, AnswerIsNotUnset DEF TypeInv, TypeOK
    <3>. QED  BY <2>1, <3>1
  <2>3. \A i \in 1 .. Len(fromUI) :
            fromUI[i].id \in Ids /\ fromUI[i].answer \in Answers /\ fromUI[i].id # dialog
    <3> SUFFICES ASSUME NEW i \in 1 .. Len(fromUI)
                 PROVE  fromUI[i] \in [id : Ids, answer : Answers] /\ fromUI[i].id # dialog
      OBVIOUS
    <3>1. fromUI[i] \in [id : Ids, answer : Answers]
      BY ElementTyped DEF TypeInv, TypeOK
    <3>. QED  BY <2>1, <3>1, AnswerIsNotUnset DEF CauseInv, AnswersMatch
  <2>4. \A i \in 1 .. Len(fromUI') :
            \/ i \in 1 .. Len(fromUI) /\ fromUI'[i] = fromUI[i]
            \/ fromUI'[i] = m
    <3>1. CASE fromUI' = fromUI
      BY <3>1
    <3>2. CASE fromUI' = Append(fromUI, m)
      <4>1. m \in [id : Ids, answer : Answers]
        BY <2>1
      <4>. QED  BY <3>2, <4>1, AppendAt DEF TypeInv, TypeOK
    <3>. QED  BY <1>5, <3>1, <3>2 DEF UserAnswers
  <2>5. \A i \in 1 .. Len(fromUI') : fromUI'[i].answer = said'[fromUI'[i].id]
    BY <2>1, <2>3, <2>4 DEF CauseInv, AnswersMatch
  <2>6. ASSUME NEW id \in Ids, promise[id].confirmed PROVE promise[id] = said'[id]
    <3>1. promise[id] = said[id]
      BY <2>6 DEF CauseInv, AnswersMatch
    <3>2. promise[id] # Unset
      BY <2>6 DEF Unset
    <3>. QED  BY <2>1, <3>1, <3>2
  <2>7. UnsentIsUnsaid'
    <3>1. \A a \in Askers : caller[a] \in Unsent => confirm_id[a] \in Ids /\ confirm_id[a] # 0
      BY DEF Unsent, TypeInv, Ids
    <3>. QED  BY <2>1, <3>1 DEF CauseInv, UnsentIsUnsaid, Queue
  <2>8. QueuedIsUnsaid'
    <3>1. \A i \in Queue : toUI[i] # Note => toUI[i] \in Ids /\ toUI[i] # 0
      BY DEF Queue, TypeInv, TypeOK, Ids, Note
    <3>. QED  BY <2>1, <3>1 DEF CauseInv, QueuedIsUnsaid, Queue
  <2>9. \A id \in Ids : id >= next_id' => said'[id] = Unset
    BY <2>1 DEF CauseInv, TypeInv, TypeOK, Ids
  <2>. QED
    BY <2>1, <2>2, <2>5, <2>6, <2>7, <2>8, <2>9 DEF CauseInv, AnswersMatch, DialogIsUnsaid
<1>. QED  BY <1>1, <1>2, <1>3, <1>4, <1>5 DEF UINext

LEMMA CauseInductive ==
    ASSUME TypeInv, PromiseInv, CauseInv, [Next]_vars PROVE CauseInv'
<1>1. CASE StopCancelPending
  BY <1>1, CauseCancel DEF StopCancelPending, MainUnchanged, uiVars, pipeVars
<1>2. CASE Start \/ Stop \/ StopCancelIo \/ StopJoin \/ StopFinish \/ UNCHANGED vars
  <2>1. UNCHANGED <<promise, confirm_id, next_id, said, result, dialog, ui, caller, toUI, fromUI>>
    BY <1>2 DEF Start, Stop, StopCancelIo, StopJoin, StopFinish, MainUnchanged, vars, uiVars, pipeVars
  <2>. QED  BY <2>1, CauseFrame
<1>. QED  BY <1>1, <1>2, CauseSvc, CauseCallers, CauseUI DEF Next, StopSteps

\* Consent is never invented, mixed up or upgraded: an approval is what the
\* user said under that confirm id, or a timeout under timeout_allow - through
\* stale handles, reconnections, lost messages and late answers.
THEOREM ApprovalCorrect == Spec => []ApprovalHasCause
<1>1. Init => CauseInv
  <2> SUFFICES ASSUME Init PROVE CauseInv
    OBVIOUS
  <2>1. Len(toUI) = 0 /\ Len(fromUI) = 0
    BY DEF Init
  <2>2. ~Deny.confirmed /\ ~Unset.confirmed
    BY DEF Deny, Unset
  <2>. QED
    BY <2>1, <2>2 DEF Init, CauseInv, ApprovalHasCause, AnswersMatch, UnsentIsUnsaid,
       QueuedIsUnsaid, DialogIsUnsaid, Queue, Unsent, Callers
<1>2. CauseInv => ApprovalHasCause
  BY DEF CauseInv
<1>3. Init => PromiseInv
  BY DEF Init, PromiseInv, PromiseDiscipline, Holding, Registered, Callers, Ids
<1>. QED
  BY <1>1, <1>2, <1>3, TypeInit, TypeInductive, PromiseInductive, CauseInductive, PTL DEF Spec

-----------------------------------------------------------------------------
(* The gate.  Every step of the service is one of the gate's or a stutter.  *)

open == {a \in Askers : caller[a] # "idle"}
heard == [a \in Askers |->
            IF caller[a] # "idle" /\ said[confirm_id[a]] # Unset
            THEN {said[confirm_id[a]]} ELSE {}]

LEMMA SameAnswers ==
    /\ Gate!Deny = Deny /\ Gate!Allow = Allow /\ Gate!AllowAndTrust = AllowAndTrust
    /\ Gate!Answers = Answers
  BY DEF Gate!Deny, Gate!Allow, Gate!AllowAndTrust, Gate!Answers, Deny, Allow, AllowAndTrust, Answers

\* A step that neither opens nor closes a request is invisible to the gate.
LEMMA GateStutter ==
    ASSUME UNCHANGED <<confirm_id, said, result>>,
           \A a \in Askers : caller'[a] = caller[a] \/ (caller[a] # "idle" /\ caller'[a] # "idle")
    PROVE  UNCHANGED <<open, heard, result>>
  BY DEF open, heard

\* A caller's return closes its request with a verdict the gate allows.
LEMMA GateReturn ==
    ASSUME TypeInv, NEW a \in Askers, NEW v \in Answers, caller[a] # "idle",
           caller' = [caller EXCEPT ![a] = "idle"],
           result' = [result EXCEPT ![a] = v],
           UNCHANGED <<confirm_id, said>>,
           v \in heard[a] \cup {Deny} \cup (IF TimeoutMode = "timeout_allow" THEN {Allow} ELSE {})
    PROVE  Gate!Return(a, v)
<1>1. caller'[a] = "idle" /\ \A b \in Askers : b # a => caller'[b] = caller[b]
  BY DEF TypeInv, TypeOK, Callers
<1>2. open' = open \ {a} /\ a \in open
  BY <1>1 DEF open
<1>3. heard' = [heard EXCEPT ![a] = {}]
  BY <1>1 DEF heard
<1>. QED  BY <1>2, <1>3, SameAnswers DEF Gate!Return, Gate!MayReturn, open, heard

LEMMA GateCallers ==
    ASSUME TypeInv, CauseInv, CallersNext
    PROVE  (\E a \in Askers : Gate!Refuse(a) \/ Gate!Ask(a) \/ \E v \in Answers : Gate!Return(a, v))
           \/ UNCHANGED <<open, heard, result>>
<1> USE DEF CallUnchanged, ReturnUnchanged, WriteUnchanged, uiVars
<1>1. ASSUME NEW a \in Askers, AskWhileDisconnected(a) PROVE Gate!Refuse(a)
  <2>1. /\ caller[a] = "idle" /\ UNCHANGED <<caller, said>>
        /\ result' = [result EXCEPT ![a] = Deny]
        /\ \A b \in Askers : b # a => confirm_id'[b] = confirm_id[b]
    BY <1>1 DEF AskWhileDisconnected, TypeInv, TypeOK
  <2>2. open' = open /\ a \notin open
    BY <2>1 DEF open
  <2>3. heard' = heard
    BY <2>1 DEF heard
  <2>. QED  BY <2>1, <2>2, <2>3, SameAnswers DEF Gate!Refuse, open, heard
<1>2. ASSUME NEW a \in Askers, AskConfirm(a) PROVE Gate!Ask(a)
  <2>1. /\ caller[a] = "idle" /\ caller'[a] = "register"
        /\ confirm_id'[a] = next_id /\ next_id \in Ids
        /\ \A b \in Askers : b # a => caller'[b] = caller[b] /\ confirm_id'[b] = confirm_id[b]
        /\ UNCHANGED <<said, result>>
    BY <1>2, BoundAssumption DEF AskConfirm, TypeInv, TypeOK, Callers, Ids
  <2>2. said[next_id] = Unset
    BY <2>1 DEF CauseInv, Ids
  <2>3. open' = open \cup {a} /\ a \notin open
    BY <2>1 DEF open
  <2>4. heard' = heard
    BY <2>1, <2>2 DEF heard
  <2>. QED  BY <2>1, <2>3, <2>4 DEF Gate!Ask, open, heard
<1>3. ASSUME NEW p \in Pushers, Push(p) PROVE UNCHANGED <<open, heard, result>>
  <2>1. \A a \in Askers : caller'[a] = caller[a]
    BY <1>3, ThreadAssumption DEF Push, Callers, TypeInv, TypeOK
  <2>. QED  BY <1>3, <2>1, GateStutter DEF Push
<1>4. ASSUME NEW c \in Callers,
             LockAndCopyHandle(c) \/ WriteDelivers(c) \/ WriteFails(c)
                \/ (c \in Askers /\ (RegisterPromise(c) \/ TimeOut(c)))
      PROVE UNCHANGED <<open, heard, result>>
  <2>1. UNCHANGED <<confirm_id, said, result>>
    BY <1>4 DEF LockAndCopyHandle, WriteDelivers, WriteFails, RegisterPromise, TimeOut
  <2>2. \A a \in Askers : caller'[a] = caller[a] \/ (caller[a] # "idle" /\ caller'[a] # "idle")
    BY <1>4 DEF LockAndCopyHandle, WriteDelivers, WriteFails, RegisterPromise, TimeOut,
       TypeInv, TypeOK, Callers
  <2>. QED  BY <2>1, <2>2, GateStutter
<1>5. ASSUME NEW a \in Askers, UnregisterFailed(a) PROVE Gate!Return(a, Deny)
  BY <1>5, AnswerIsNotUnset, GateReturn DEF UnregisterFailed
<1>6. ASSUME NEW a \in Askers, TakeAnswer(a) PROVE \E v \in Answers : Gate!Return(a, v)
  <2>1. /\ caller[a] = "wait" /\ confirm_id[a] \in Ids /\ promise[confirm_id[a]] \in Answers
        /\ caller' = [caller EXCEPT ![a] = "idle"]
        /\ result' = [result EXCEPT ![a] = promise[confirm_id[a]]]
        /\ UNCHANGED <<confirm_id, said>>
    BY <1>6 DEF TakeAnswer, TypeInv, TypeOK
  <2>2. PICK v \in Answers : v = promise[confirm_id[a]]
    BY <2>1
  <2>3. v.confirmed => v \in heard[a]
    <3>1. v.confirmed => v = said[confirm_id[a]]
      BY <2>1, <2>2 DEF CauseInv, AnswersMatch
    <3>. QED  BY <2>1, <3>1, AnswerIsNotUnset DEF heard
  <2>4. ~v.confirmed => v = Deny
    BY OnlyDenyDenies
  <2>5. Gate!Return(a, v)
    BY <2>1, <2>2, <2>3, <2>4, GateReturn
  <2>. QED  BY <2>5
<1>7. ASSUME NEW a \in Askers, DecideTimedOut(a) PROVE \E v \in Answers : Gate!Return(a, v)
  <2>1. Gate!Return(a, IF TimeoutMode = "timeout_allow" THEN Allow ELSE Deny)
    BY <1>7, AnswerIsNotUnset, GateReturn DEF DecideTimedOut
  <2>. QED  BY <2>1, AnswerIsNotUnset
<1>. QED
  BY <1>1, <1>2, <1>3, <1>4, <1>5, <1>6, <1>7, AnswerIsNotUnset DEF CallersNext, CallerStep

\* The user's answer is heard by the one asker whose request is in the dialog.
LEMMA GateAnswer ==
    ASSUME TypeInv, PromiseInv, CauseInv, NEW v \in Answers, UserAnswers(v)
    PROVE  (\E a \in Askers : Gate!Hear(a, v)) \/ UNCHANGED <<open, heard, result>>
<1>1. /\ dialog \in Ids /\ dialog # 0 /\ said[dialog] = Unset
      /\ said'[dialog] = v /\ v # Unset
      /\ \A id \in Ids : id # dialog => said'[id] = said[id]
      /\ UNCHANGED <<confirm_id, result, caller>>
  BY AnswerIsNotUnset DEF UserAnswers, CauseInv, DialogIsUnsaid, TypeInv, TypeOK, Ids, UIUnchanged
<1>2. open' = open
  BY <1>1 DEF open
<1>3. CASE \E a \in Askers : caller[a] # "idle" /\ confirm_id[a] = dialog
  <2>1. PICK a \in Askers : caller[a] # "idle" /\ confirm_id[a] = dialog
    BY <1>3
  <2>2. \A b \in Askers : b # a => confirm_id[b] # dialog
    BY <1>1, <2>1 DEF PromiseInv, PromiseDiscipline
  <2>3. \A b \in Askers : caller[b] # "idle" => confirm_id[b] \in Ids
    BY DEF TypeInv
  <2>4. heard[a] = {} /\ heard' = [heard EXCEPT ![a] = {v}]
    BY <1>1, <2>1, <2>2, <2>3 DEF heard
  <2>5. Gate!Hear(a, v)
    BY <1>1, <1>2, <2>1, <2>4 DEF Gate!Hear, open, heard
  <2>. QED  BY <2>5
<1>4. CASE \A a \in Askers : caller[a] # "idle" => confirm_id[a] # dialog
  <2>1. \A b \in Askers : caller[b] # "idle" => confirm_id[b] \in Ids
    BY DEF TypeInv
  <2>2. heard' = heard
    BY <1>1, <1>4, <2>1 DEF heard
  <2>. QED  BY <1>1, <1>2, <2>2
<1>. QED  BY <1>3, <1>4

LEMMA GateStep ==
    ASSUME TypeInv, PromiseInv, CauseInv, [Next]_vars
    PROVE  [Gate!Next]_<<open, heard, result>>
<1>1. CASE CallersNext
  BY <1>1, GateCallers, SameAnswers DEF Gate!Next
<1>2. ASSUME NEW v \in Answers, UserAnswers(v) PROVE [Gate!Next]_<<open, heard, result>>
  BY <1>2, GateAnswer, SameAnswers DEF Gate!Next
<1>3. CASE SvcNext
  <2>1. UNCHANGED <<confirm_id, said, result, caller>>
    BY <1>3 DEF SvcNext, SvcCreate, SvcLeave, SvcRegister, SvcConnect, SvcConnectError,
        SvcConnected, SvcConnectAborted, SvcStoppedAfterConnect, SvcSetConnected, SvcSnapLock,
        SvcSnapWritten, SvcReadTop, SvcRead, SvcReadFrame, SvcReadFails, SvcDrop, SvcCancel,
        SvcClear, SvcClose, SvcUnchanged, uiVars
  <2>. QED  BY <2>1, GateStutter
<1>4. CASE Start \/ Stop \/ StopSteps \/ UNCHANGED vars
  <2>1. UNCHANGED <<confirm_id, said, result, caller>>
    BY <1>4 DEF Start, Stop, StopSteps, StopCancelIo, StopCancelPending, StopJoin, StopFinish,
       MainUnchanged, vars, uiVars
  <2>. QED  BY <2>1, GateStutter
<1>5. CASE UIConnect \/ UIRead \/ UIClose \/ UINoticesDisconnect
  <2>1. UNCHANGED <<confirm_id, said, result, caller>>
    BY <1>5 DEF UIConnect, UIRead, UIClose, UINoticesDisconnect, UIUnchanged
  <2>. QED  BY <2>1, GateStutter
<1>. QED  BY <1>1, <1>2, <1>3, <1>4, <1>5 DEF Next, UINext

\* askConfirm() implements the abstract gate for any number of askers: every
\* refusal, request, answer and return is one the gate allows.
THEOREM GateCorrect == Spec => ImplementsGate
<1>1. Init => Gate!Init
  BY SameAnswers DEF Init, Gate!Init, Callers
<1>2. Init => PromiseInv /\ CauseInv
  <2> SUFFICES ASSUME Init PROVE PromiseInv /\ CauseInv
    OBVIOUS
  <2>1. Len(toUI) = 0 /\ Len(fromUI) = 0
    BY DEF Init
  <2>2. ~Deny.confirmed /\ ~Unset.confirmed
    BY DEF Deny, Unset
  <2>3. PromiseInv
    BY DEF Init, PromiseInv, PromiseDiscipline, Holding, Registered, Callers, Ids
  <2>. QED
    BY <2>1, <2>2, <2>3 DEF Init, CauseInv, ApprovalHasCause, AnswersMatch, UnsentIsUnsaid,
       QueuedIsUnsaid, DialogIsUnsaid, Queue, Unsent, Callers
<1>3. TypeInv /\ PromiseInv /\ CauseInv /\ [Next]_vars => [Gate!Next]_Gate!gateVars
  BY GateStep DEF Gate!gateVars, open, heard
<1>. QED
  BY <1>1, <1>2, <1>3, TypeInit, TypeInductive, PromiseInductive, CauseInductive, PTL
     DEF Spec, ImplementsGate, Gate!Spec

=============================================================================
