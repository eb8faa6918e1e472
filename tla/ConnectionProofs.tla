-------------------------- MODULE ConnectionProofs --------------------------
(***************************************************************************)
(* What holds of an instance for any list of ports and any bounds, however *)
(* its threads and its timeouts are scheduled, while the application       *)
(* configures and frees it: every variable keeps its type, and abandoned   *)
(* is set only while a thread disconnects.  TypeOK is inductive by itself; *)
(* with it so is AbandonEnds.                                              *)
(***************************************************************************)
EXTENDS Connection, SequenceTheorems, TLAPS

USE DEF sync, local, world

Budgets == [calls : Nat, moves : Nat, configs : Nat, failures : Nat]

\* A call that fails leaves a budget.
LEMMA FailsType == ASSUME TypeOK, Fails PROVE budget' \in Budgets
  BY DEF TypeOK, Fails, Budgets

\* What is known of the parts of TypeOK that most steps leave alone.
LEMMA RestType == ASSUME TypeOK, UNCHANGED rest, PcOK' PROVE TypeOK'
  BY DEF TypeOK, rest, flags, port, reader, device

\* Where a thread goes is one of its labels.
LEMMA GotoType ==
  ASSUME TypeOK, NEW t \in Threads, NEW next \in Pcs(t),
         Goto(t, next)
  PROVE  PcOK'
  BY DEF TypeOK, PcOK, Labels, Goto

LEMMA JumpType ==
  ASSUME TypeOK, NEW t \in Threads, NEW label, NEW next \in Pcs(t), Jump(t, label, next)
  PROVE  TypeOK'
<1>1. PcOK'
  BY GotoType DEF Jump
<1> QED
  BY <1>1, RestType DEF Jump

LEMMA CrashType ==
  ASSUME TypeOK, NEW why \in Faults, Crash(why)
  PROVE  TypeOK'
  BY DEF TypeOK, PcOK, Crash, flags, port, reader, device

\* The labels of a procedure belong to every thread that runs it.
LEMMA ProcedureLabels ==
  /\ \A t \in Closers : t \in Threads /\ CloserPcs \subseteq Pcs(t)
  /\ \A t \in Testers : t \in Threads /\ TesterPcs \subseteq Pcs(t)
  /\ \A t \in Workers : t \in Threads /\ WorkerPcs \subseteq Pcs(t)
  BY DEF Closers, Testers, Workers, Threads, Pcs

-----------------------------------------------------------------------------
(***************************************************************************)
(* TypeOK: one lemma for each procedure or thread.                         *)
(***************************************************************************)
LEMMA InitType == Init => TypeOK
<1> SUFFICES ASSUME Init PROVE TypeOK
  OBVIOUS
<1>1. PcOK
  BY DEF Init, PcOK, Labels, Pcs, Threads, Workers, WorkerPcs
<1>2. 1 \in 1 .. Len(PortList)
  BY PortListNonEmpty, EmptySeq, LenProperties
<1>3. <<>> \in Seq({"answer", "call"})
  BY EmptySeq
<1>4. budget \in Budgets
  BY BoundsNat DEF Init, Budgets
<1> QED
  BY <1>1, <1>2, <1>3, <1>4 DEF Init, TypeOK, Workers, Budgets

\* t starts w and goes on at next or, while it has yet to store the handle,
\* at store.
LEMMA StartThreadType ==
  ASSUME TypeOK, NEW t \in Threads, NEW w \in Workers, NEW next \in Pcs(t), "store" \in Pcs(t), t # w,
         StartThread(t, w, next),
         UNCHANGED <<flags, port, evDetected, writeMutex, oldTesting, idx,
                     reader, device, lastEvent, budget>>,
         overlap' \in BOOLEAN
  PROVE  TypeOK'
<1>1. PcOK' /\ hThread' \subseteq Workers /\ fault' \in Faults \union {"none"}
  <2> USE DEF TypeOK
  <2>1. CASE w \in hThread
    BY <2>1, GotoType DEF StartThread
  <2>2. CASE w \notin hThread /\ pc[w] = "off"
    <3>1. w \in Threads /\ "entry" \in Pcs(w)
      BY ProcedureLabels DEF WorkerPcs
    <3> QED
      BY <2>2, <3>1 DEF StartThread, PcOK, Labels
  <2>3. CASE w \notin hThread /\ pc[w] # "off"
    BY <2>3 DEF StartThread, PcOK, Faults
  <2> QED
    BY <2>1, <2>2, <2>3
<1> QED
  BY <1>1 DEF TypeOK, flags, port, reader, device

LEMMA StoreHandleType ==
  ASSUME TypeOK, NEW t \in Threads, StoreHandle(t)
  PROVE  TypeOK'
<1>1. AfterStore(t) \in Pcs(t) /\ Starts(t) \in Workers
  BY DEF AfterStore, Starts, Pcs, Threads, Workers, WorkerPcs, TesterPcs
<1>2. PcOK'
  BY <1>1, GotoType DEF StoreHandle
<1> QED
  BY <1>1, <1>2 DEF StoreHandle, TypeOK, flags, port, reader, device

\* Where a thread goes when the thread it waits for has ended.
LEMMA JoinLabels ==
  ASSUME NEW t \in Threads, NEW label \in Joining, label \in Pcs(t)
  PROVE  AfterJoin(label) \in Pcs(t)
  BY DEF Joining, AfterJoin, Pcs, Threads, Workers, WorkerPcs, TesterPcs, CloserPcs

LEMMA JoinType ==
  ASSUME TypeOK, NEW t \in Threads, NEW before, NEW label \in Joining,
         label \in Pcs(t), Join(t, before, label)
  PROVE  TypeOK'
  BY JoinLabels, JumpType DEF Join

LEMMA ThreadEndType ==
  ASSUME TypeOK, NEW w \in Workers, ThreadEnd(w)
  PROVE  TypeOK'
<1>1. ASSUME NEW t \in Threads
      PROVE  pc'[t] \in Pcs(t)
  <2>1. CASE t = w
    BY <2>1, ProcedureLabels DEF ThreadEnd, WorkerPcs
  <2>2. CASE t # w
    BY <2>2, JoinLabels DEF ThreadEnd, TypeOK, PcOK
  <2> QED
    BY <2>1, <2>2
<1>2. PcOK'
  BY <1>1 DEF PcOK, Labels, ThreadEnd
<1> QED
  BY <1>2 DEF ThreadEnd, TypeOK, flags, port, reader, device

LEMMA DisconnectType ==
  ASSUME TypeOK, NEW t \in Closers, Disconnect(t)
  PROVE  TypeOK'
<1>1. t \in Threads /\ CloserPcs \subseteq Pcs(t)
  BY ProcedureLabels
<1> USE <1>1 DEF CloserPcs
<1>2. CASE Abandon(t)
  <2>1. PcOK'
    BY <1>2, GotoType DEF Abandon
  <2> QED
    BY <1>2, <2>1 DEF Abandon, TypeOK, flags, port, reader, device
<1>3. CASE CancelIo(t)
  <2>1. PcOK'
    BY <1>3, GotoType DEF CancelIo
  <2> QED
    BY <1>3, <2>1 DEF CancelIo, TypeOK, flags, port, reader, device
<1>4. CASE JoinReceive(t)
  BY <1>4, JoinType DEF JoinReceive, Joining
<1>5. CASE FreeComm(t)
  <2>1. CASE comm # NoPort /\ pc["receive"] = "reading" /\ rcomm = comm
    BY <1>5, <2>1, CrashType DEF FreeComm, Faults
  <2>2. CASE ~(comm # NoPort /\ pc["receive"] = "reading" /\ rcomm = comm)
    <3>1. PcOK'
      BY <1>5, <2>2, GotoType DEF FreeComm
    <3>2. line' \in Seq({"answer", "call"})
      BY <1>5, <2>2, EmptySeq DEF FreeComm, TypeOK
    <3> QED
      BY <1>5, <2>2, <3>1, <3>2 DEF FreeComm, TypeOK, flags, port, reader, device
  <2> QED
    BY <2>1, <2>2
<1>6. CASE NullComm(t)
  <2>1. PcOK'
    BY <1>6, GotoType DEF NullComm
  <2> QED
    BY <1>6, <2>1 DEF NullComm, TypeOK, flags, port, reader, device
<1>7. CASE Unabandon(t)
  <2>1. AfterDisconnect(t) \in Pcs(t)
    BY DEF AfterDisconnect, Closers, Pcs
  <2>2. PcOK'
    BY <1>7, <2>1, GotoType DEF Unabandon
  <2>3. /\ abandoned' \in BOOLEAN
        /\ UNCHANGED <<canceled, testing, port, evDetected, writeMutex, hThread,
                       oldTesting, idx, reader, device, lastEvent, overlap, budget, fault>>
    BY <1>7 DEF Unabandon
  <2> QED
    BY <2>2, <2>3 DEF TypeOK, port, reader, device
<1> QED
  BY <1>2, <1>3, <1>4, <1>5, <1>6, <1>7 DEF Disconnect

LEMMA PushType ==
  ASSUME TypeOK, NEW t \in Threads, NEW e \in {"none", "connected", "disconnected"},
         NEW next \in Pcs(t), Push(t, e, next)
  PROVE  TypeOK'
<1>1. PcOK'
  BY GotoType DEF Push
<1> QED
  BY <1>1 DEF Push, TypeOK, flags, port, reader, device

LEMMA EchoTestType ==
  ASSUME TypeOK, NEW t \in Testers, EchoTest(t)
  PROVE  TypeOK'
<1>1. t \in Threads /\ TesterPcs \subseteq Pcs(t)
  BY ProcedureLabels
<1> USE <1>1 DEF TesterPcs
<1>2. CASE EchoBegin(t)
  <2>1. PcOK'
    BY <1>2, GotoType DEF EchoBegin
  <2> QED
    BY <1>2, <2>1 DEF EchoBegin, TypeOK, flags, port, reader, device
<1>3. CASE EchoArm(t)
  <2>1. PcOK'
    BY <1>3, GotoType DEF EchoArm
  <2> QED
    BY <1>3, <2>1 DEF EchoArm, TypeOK, flags, port, reader, device
<1>4. CASE EchoSend(t)
  <2>1. CASE comm = NoPort
    BY <1>4, <2>1, CrashType DEF EchoSend, Faults
  <2>2. CASE comm # NoPort
    <3>1. PcOK'
      BY <1>4, <2>2, GotoType DEF EchoSend
    <3>2. asked' \in Nat /\ cancelSig' \subseteq Ports
      BY <1>4, <2>2 DEF EchoSend, TypeOK
    <3>3. budget' \in Budgets
      BY <1>4, <2>2, FailsType DEF EchoSend, TypeOK, Budgets
    <3>4. UNCHANGED <<flags, comm, opened, sync, local, dev, line, lastEvent, overlap, fault>>
      BY <1>4, <2>2 DEF EchoSend
    <3> QED
      BY <3>1, <3>2, <3>3, <3>4 DEF TypeOK, Budgets, flags, reader
  <2> QED
    BY <2>1, <2>2
<1>5. CASE EchoWait(t)
  <2>1. PcOK'
    BY <1>5, GotoType DEF EchoWait
  <2>2. /\ evDetected' \in BOOLEAN
        /\ UNCHANGED <<flags, port, writeMutex, hThread, oldTesting, idx, reader,
                       device, lastEvent, overlap, budget, fault>>
    BY <1>5 DEF EchoWait
  <2> QED
    BY <2>1, <2>2 DEF TypeOK, flags, port, reader, device
<1>6. CASE EchoEnd(t)
  <2>1. AfterEcho(t) \in Pcs(t)
    BY <1>6 DEF EchoEnd, AfterEcho, Testers, Pcs, CloserPcs, WorkerPcs
  <2>2. PcOK'
    BY <1>6, <2>1, GotoType DEF EchoEnd
  <2>3. testing' \in BOOLEAN
    BY <1>6 DEF EchoEnd, TypeOK
  <2> QED
    BY <1>6, <2>2, <2>3 DEF EchoEnd, TypeOK, flags, port, reader, device
<1> QED
  BY <1>2, <1>3, <1>4, <1>5, <1>6 DEF EchoTest

LEMMA ConnectType == ASSUME TypeOK, Connect PROVE TypeOK'
<1> DEFINE t == "connect"
<1>1. t \in Threads /\ t \in Workers /\ t \in Testers /\ t \in Closers
  BY DEF Threads, Workers, Testers, Closers
<1>2. {"exit", "round", "open", "next", "start", "echo", "up", "tail", "sleep",
       "store"} \subseteq Pcs(t)
  BY DEF Pcs, WorkerPcs, TesterPcs
<1> HIDE DEF t
<1>3. CASE ConnectEntry \/ ConnectTail
  BY <1>1, <1>2, <1>3, JumpType DEF ConnectEntry, ConnectTail, t
<1>4. CASE ConnectRound
  <2>1. PcOK'
    BY <1>1, <1>2, <1>4, GotoType DEF ConnectRound, t
  <2>2. idx' \in 1 .. Len(PortList)
    BY <1>4, PortListNonEmpty, EmptySeq, LenProperties DEF ConnectRound
  <2> QED
    BY <1>4, <2>1, <2>2 DEF ConnectRound, TypeOK, flags, port, reader, device
<1>5. CASE ConnectOpen
  <2>1. PcOK'
    BY <1>1, <1>2, <1>5, GotoType DEF ConnectOpen, t
  <2>2. PortList[idx] \in Ports
    BY PortListNonEmpty DEF TypeOK, Ports
  <2>3. budget' \in Budgets
    BY <1>5, FailsType DEF ConnectOpen, TypeOK, Budgets
  <2>4. comm' \in Ports \union {NoPort} /\ opened' \subseteq Ports
    BY <1>5, <2>2 DEF ConnectOpen, TypeOK
  <2>5. UNCHANGED <<flags, cancelSig, sync, local, device, lastEvent, overlap, fault>>
    BY <1>5 DEF ConnectOpen
  <2> QED
    BY <2>1, <2>3, <2>4, <2>5 DEF TypeOK, Budgets, flags, reader, device
<1>6. CASE ConnectStart
  BY <1>1, <1>2, <1>6, StartThreadType DEF ConnectStart, TypeOK, Workers, t
<1>7. CASE ConnectUp
  BY <1>1, <1>2, <1>7, PushType DEF ConnectUp, t
<1>8. CASE ConnectNext
  <2>1. PcOK'
    BY <1>1, <1>2, <1>8, GotoType DEF ConnectNext, t
  <2>2. idx' \in 1 .. Len(PortList)
    BY <1>8, PortListNonEmpty, LenProperties DEF ConnectNext, TypeOK
  <2> QED
    BY <1>8, <2>1, <2>2 DEF ConnectNext, TypeOK, flags, port, reader, device
<1>9. CASE EchoTest(t) \/ Disconnect(t) \/ StoreHandle(t) \/ ThreadEnd(t)
  BY <1>1, <1>9, EchoTestType, DisconnectType, StoreHandleType, ThreadEndType
<1> QED
  BY <1>3, <1>4, <1>5, <1>6, <1>7, <1>8, <1>9 DEF Connect, t

LEMMA ReceiveType == ASSUME TypeOK, Receive PROVE TypeOK'
<1> DEFINE t == "receive"
<1>1. t \in Threads /\ t \in Workers
  BY DEF Threads, Workers
<1>2. {"loop", "exit", "read", "reading", "checked", "silent", "execute",
       "judge", "withdraw", "push", "store"} \subseteq Pcs(t)
  BY DEF Pcs, WorkerPcs
<1> HIDE DEF t
<1>3. CASE ReceiveEntry \/ ReceiveLoop \/ ReceiveJudge
  BY <1>1, <1>2, <1>3, JumpType DEF ReceiveEntry, ReceiveLoop, ReceiveJudge, t
<1>4. CASE ReceiveChecked
  <2> DEFINE next == CASE Stopping -> "loop"
                       [] ~Stopping /\ rmsg = "none" -> "silent"
                       [] ~Stopping /\ rmsg # "none" -> "execute"
  <2>1. next \in Pcs(t)
    BY <1>2
  <2> HIDE DEF next
  <2>2. Jump("receive", "checked", next)
    BY <1>4 DEF ReceiveChecked, next
  <2> QED
    BY <1>1, <2>1, <2>2, JumpType DEF t
<1>5. CASE ReceiveRead
  <2>1. CASE comm = NoPort
    BY <1>5, <2>1, CrashType DEF ReceiveRead, Faults
  <2>2. CASE comm # NoPort
    <3>1. PcOK'
      BY <1>1, <1>2, <1>5, <2>2, GotoType DEF ReceiveRead, t
    <3> QED
      BY <1>5, <2>2, <3>1 DEF ReceiveRead, TypeOK, flags, port, reader, device
  <2> QED
    BY <2>1, <2>2
<1>6. CASE ReceiveData
  <2>1. PcOK'
    BY <1>1, <1>2, <1>6, GotoType DEF ReceiveData, t
  <2>2. rmsg' \in {"answer", "call"} /\ line' \in Seq({"answer", "call"})
    BY <1>6, HeadTailProperties DEF ReceiveData, TypeOK
  <2> QED
    BY <1>6, <2>1, <2>2 DEF ReceiveData, TypeOK, flags, port, reader, device
<1>7. CASE ReceiveCanceled
  <2>1. PcOK'
    BY <1>1, <1>2, <1>7, GotoType DEF ReceiveCanceled, t
  <2> QED
    BY <1>7, <2>1 DEF ReceiveCanceled, TypeOK, flags, port, reader, device
<1>8. CASE ReceiveSilent
  <2>1. CASE testing
    <3>1. PcOK'
      BY <1>1, <1>2, <1>8, <2>1, GotoType DEF ReceiveSilent, t
    <3> QED
      BY <1>8, <2>1, <3>1 DEF ReceiveSilent, TypeOK, flags, port, reader, device
  <2>2. CASE ~testing
    <3>1. overlap' \in BOOLEAN
      BY <1>8, <2>2 DEF ReceiveSilent, TypeOK
    <3> QED
      BY <1>1, <1>2, <1>8, <2>2, <3>1, StartThreadType DEF ReceiveSilent, Workers, t
  <2> QED
    BY <2>1, <2>2
<1>9. CASE ReceiveExecute
  <2> DEFINE next == IF rmsg = "answer" THEN "loop" ELSE "judge"
  <2>1. PcOK' /\ evDetected' \in BOOLEAN
    <3>1. next \in Pcs(t)
      BY <1>2
    <3>2. PostDetected(next)
      BY <1>9 DEF ReceiveExecute
    <3> HIDE DEF next
    <3>3. CASE evDetected' = TRUE /\ Goto("receive", next)
      BY <1>1, <3>1, <3>3, GotoType DEF t
    <3>4. ASSUME NEW u \in Testers, UNCHANGED evDetected,
                 pc' = [pc EXCEPT !["receive"] = next, ![u] = "found"]
          PROVE  PcOK' /\ evDetected' \in BOOLEAN
      <4>1. u \in Threads /\ "found" \in Pcs(u)
        BY ProcedureLabels DEF TesterPcs
      <4> QED
        BY <1>1, <3>1, <3>4, <4>1 DEF TypeOK, PcOK, Labels, t
    <3> QED
      BY <3>2, <3>3, <3>4 DEF PostDetected
  <2>2. UNCHANGED <<flags, port, writeMutex, hThread, oldTesting, idx, reader,
                    device, lastEvent, overlap, budget, fault>>
    BY <1>9 DEF ReceiveExecute
  <2> QED
    BY <2>1, <2>2 DEF TypeOK, flags, port, reader, device
<1>10. CASE ReceiveWithdraw
  <2>1. PcOK'
    BY <1>1, <1>2, <1>10, GotoType DEF ReceiveWithdraw, t
  <2>2. /\ evDetected' \in BOOLEAN
        /\ UNCHANGED <<flags, port, writeMutex, hThread, oldTesting, idx, reader,
                       device, lastEvent, overlap, budget, fault>>
    BY <1>10 DEF ReceiveWithdraw
  <2> QED
    BY <2>1, <2>2 DEF TypeOK, flags, port, reader, device
<1>11. CASE ReceivePush
  BY <1>1, <1>2, <1>11, PushType DEF ReceivePush, TypeOK, t
<1>12. CASE StoreHandle(t) \/ ThreadEnd(t)
  BY <1>1, <1>12, StoreHandleType, ThreadEndType
<1>13. CASE ReceiveFailed
  <2>1. PcOK'
    BY <1>1, <1>2, <1>13, GotoType DEF ReceiveFailed, t
  <2>2. budget' \in Budgets
    BY <1>13, FailsType DEF ReceiveFailed
  <2> QED
    BY <1>13, <2>1, <2>2 DEF ReceiveFailed, TypeOK, Budgets, flags, port, device
<1> QED
  BY <1>3, <1>4, <1>5, <1>6, <1>7, <1>8, <1>9, <1>10, <1>11, <1>12, <1>13 DEF Receive, t

LEMMA AliveType == ASSUME TypeOK, Alive PROVE TypeOK'
<1> DEFINE t == "alive"
<1>1. t \in Threads /\ t \in Workers /\ t \in Testers /\ t \in Closers
  BY DEF Threads, Workers, Testers, Closers
<1>2. {"echo", "exit", "abandon", "restart", "store"} \subseteq Pcs(t)
  BY DEF Pcs, WorkerPcs, TesterPcs, CloserPcs
<1> HIDE DEF t
<1>3. CASE AliveEntry \/ AliveMissed
  BY <1>1, <1>2, <1>3, JumpType DEF AliveEntry, AliveMissed, t
<1>4. CASE AliveReport
  BY <1>1, <1>2, <1>4, PushType DEF AliveReport, t
<1>5. CASE AliveRestart
  BY <1>1, <1>2, <1>5, StartThreadType DEF AliveRestart, TypeOK, Workers, t
<1>6. CASE EchoTest(t) \/ Disconnect(t) \/ StoreHandle(t) \/ ThreadEnd(t)
  BY <1>1, <1>6, EchoTestType, DisconnectType, StoreHandleType, ThreadEndType
<1> QED
  BY <1>3, <1>4, <1>5, <1>6 DEF Alive, t

LEMMA AppType == ASSUME TypeOK, App \/ SetConfiguration \/ Free PROVE TypeOK'
<1> DEFINE t == "app"
<1>1. t \in Threads /\ t \in Closers
  BY DEF Threads, Closers
<1>2. {"idle", "configure", "abandon", "restart", "store", "joinAlive",
       "joiningAlive", "joiningReceive", "joiningConnect"} \subseteq Pcs(t)
  BY DEF Pcs, CloserPcs, Joining
<1> HIDE DEF t
<1>3. CASE AppConfigure
  <2>1. CASE comm = NoPort
    BY <1>3, <2>1, CrashType DEF AppConfigure, Faults
  <2>2. CASE comm # NoPort
    BY <1>1, <1>2, <1>3, <2>2, GotoType, RestType DEF AppConfigure, t
  <2> QED
    BY <2>1, <2>2
<1>4. CASE AppReport
  BY <1>1, <1>2, <1>4, PushType DEF AppReport, t
<1>5. CASE AppRestart
  BY <1>1, <1>2, <1>5, StartThreadType DEF AppRestart, TypeOK, Workers, t
<1>6. CASE FreeJoin
  BY <1>1, <1>2, <1>6, JoinType DEF FreeJoin, Joining, t
<1>7. CASE Disconnect(t) \/ StoreHandle(t)
  BY <1>1, <1>7, DisconnectType, StoreHandleType
<1>8. CASE SetConfiguration
  <2>1. PcOK'
    BY <1>1, <1>2, <1>8, GotoType DEF SetConfiguration, t
  <2>2. budget' \in Budgets
    BY <1>8 DEF SetConfiguration, TypeOK, Budgets
  <2> QED
    BY <1>8, <2>1, <2>2 DEF SetConfiguration, TypeOK, Budgets, flags, port, reader, device
<1>9. CASE Free
  <2>1. PcOK'
    BY <1>1, <1>2, <1>9, GotoType DEF Free, t
  <2> QED
    BY <1>9, <2>1 DEF Free, TypeOK, flags, port, reader, device
<1> QED
  BY <1>3, <1>4, <1>5, <1>6, <1>7, <1>8, <1>9 DEF App, t

LEMMA TimeoutType == ASSUME TypeOK, Timeout PROVE TypeOK'
<1>1. CASE ReadTimeout
  <2>1. "receive" \in Threads /\ "checked" \in Pcs("receive")
    BY DEF Threads, Workers, Pcs
  <2>2. PcOK'
    BY <1>1, <2>1, GotoType DEF ReadTimeout
  <2> QED
    BY <1>1, <2>2 DEF ReadTimeout, TypeOK, flags, port, reader, device
<1>2. ASSUME NEW t \in Testers, EchoTimeout(t) PROVE TypeOK'
  BY <1>2, ProcedureLabels, JumpType DEF EchoTimeout, TesterPcs
<1>3. CASE RetryTimeout
  <2>1. "connect" \in Threads /\ "round" \in Pcs("connect")
    BY DEF Threads, Workers, Pcs
  <2> QED
    BY <1>3, <2>1, JumpType DEF RetryTimeout
<1>4. ASSUME NEW t \in Testers, EchoLate(t) PROVE TypeOK'
  <2>1. PcOK'
    BY <1>4, ProcedureLabels, GotoType DEF EchoLate, TesterPcs
  <2>2. budget' \in Budgets
    BY <1>4, FailsType DEF EchoLate
  <2> QED
    BY <1>4, <2>1, <2>2 DEF EchoLate, TypeOK, Budgets, flags, port, reader, device
<1> QED
  BY <1>1, <1>2, <1>3, <1>4 DEF Timeout

LEMMA DeviceType ==
  ASSUME TypeOK, DeviceAnswer \/ DeviceCall \/ DeviceMove
  PROVE  TypeOK'
<1> USE DEF TypeOK, PcOK, Budgets, flags, port, reader, device
<1>1. CASE DeviceAnswer
  <2>1. line' \in Seq({"answer", "call"})
    BY <1>1, AppendProperties DEF DeviceAnswer, Hear
  <2>2. /\ asked' \in Nat
        /\ UNCHANGED <<flags, port, evDetected, writeMutex, hThread, pc,
                       oldTesting, idx, reader, dev, lastEvent, overlap, budget, fault>>
    BY <1>1 DEF DeviceAnswer
  <2> QED
    BY <2>1, <2>2
<1>2. CASE DeviceCall
  <2>1. line' \in Seq({"answer", "call"})
    BY <1>2, AppendProperties DEF DeviceCall, Hear
  <2>2. budget' \in Budgets
    BY <1>2 DEF DeviceCall
  <2> QED
    BY <1>2, <2>1, <2>2 DEF DeviceCall
<1>3. CASE DeviceMove
  <2>1. line' \in Seq({"answer", "call"})
    BY <1>3, EmptySeq DEF DeviceMove
  <2>2. budget' \in Budgets
    BY <1>3 DEF DeviceMove
  <2>3. /\ asked' \in Nat
        /\ dev' \in Ports \union {NoPort}
        /\ UNCHANGED <<flags, port, evDetected, writeMutex, hThread, pc,
                       oldTesting, idx, reader, lastEvent, overlap, fault>>
    BY <1>3 DEF DeviceMove
  <2> QED
    BY <2>1, <2>2, <2>3
<1> QED
  BY <1>1, <1>2, <1>3

LEMMA NextType == TypeOK /\ [Next]_vars => TypeOK'
<1> SUFFICES ASSUME TypeOK, [Next]_vars PROVE TypeOK'
  OBVIOUS
<1>1. CASE UNCHANGED vars
  BY <1>1 DEF vars, rest, TypeOK, PcOK, flags, port, reader, device
<1>2. CASE Next
  BY <1>2, ConnectType, ReceiveType, AliveType, AppType, TimeoutType, DeviceType
     DEF Next
<1> QED
  BY <1>1, <1>2

\* Every variable of an instance keeps its type, under any schedule.
THEOREM ConnectionTypeCorrect == SafeSpec => []TypeOK
  BY InitType, NextType, PTL DEF SafeSpec

-----------------------------------------------------------------------------
(***************************************************************************)
(* AbandonEnds.  Only Abandon sets the flag, and it puts its thread where  *)
(* AbandonEnds wants one; only Unabandon leaves those labels, and it       *)
(* resets the flag.  Every other step keeps the thread there.              *)
(***************************************************************************)
Inside == {"cancel", "join", "joining", "free", "null", "unabandon"}

LEMMA InsideIs == Inside = CloserPcs \ {"abandon"}
  BY DEF Inside, CloserPcs

\* A step that keeps abandoned as it is or resets it, and lets no thread out.
Harmless ==
  abandoned' => abandoned /\ \A c \in Closers : pc[c] \in Inside => pc'[c] \in Inside

LEMMA HarmlessStep == ASSUME AbandonEnds, Harmless PROVE AbandonEnds'
  BY InsideIs DEF AbandonEnds, Harmless

\* A jump from a label outside of the disconnecting ones is harmless.
LEMMA GotoHarmless ==
  ASSUME TypeOK, NEW t \in Threads, NEW next, pc[t] \notin Inside, Goto(t, next),
         UNCHANGED abandoned
  PROVE  Harmless
  BY DEF Harmless, Goto, TypeOK, PcOK

\* So is a jump from one disconnecting label to another.
LEMMA KeptInside ==
  ASSUME TypeOK, NEW t \in Threads, NEW next \in Inside, Goto(t, next),
         UNCHANGED abandoned
  PROVE  Harmless
  BY DEF Harmless, Goto, TypeOK, PcOK

LEMMA SameHarmless ==
  ASSUME UNCHANGED <<abandoned, pc>> PROVE Harmless
  BY DEF Harmless

LEMMA StartThreadHarmless ==
  ASSUME TypeOK, NEW t \in Threads, NEW w \in Workers, NEW next,
         pc[t] \notin Inside, t # w, StartThread(t, w, next), UNCHANGED abandoned
  PROVE  Harmless
<1>1. CASE w \in hThread
  BY <1>1, GotoHarmless DEF StartThread
<1>2. CASE w \notin hThread /\ pc[w] = "off"
  <2>1. \A c \in Threads : c # w /\ c # t => pc'[c] = pc[c]
    BY <1>2 DEF StartThread, TypeOK, PcOK
  <2>2. pc[w] \notin Inside
    BY <1>2 DEF Inside
  <2>3. \A c \in Closers : c \in Threads
    BY DEF Closers, Threads, Workers
  <2> QED
    BY <2>1, <2>2, <2>3 DEF Harmless
<1>3. CASE w \notin hThread /\ pc[w] # "off"
  BY <1>3 DEF StartThread, Harmless
<1> QED
  BY <1>1, <1>2, <1>3

LEMMA ThreadEndHarmless ==
  ASSUME TypeOK, NEW w \in Workers, ThreadEnd(w)
  PROVE  Harmless
<1>1. UNCHANGED abandoned /\ pc[w] = "exit"
  BY DEF ThreadEnd, flags
<1>2. ASSUME NEW c \in Closers, pc[c] \in Inside
      PROVE  pc'[c] \in Inside
  <2>1. c # w /\ c \in Threads
    BY <1>1, <1>2, ProcedureLabels DEF Inside
  <2>2. CASE pc[c] \in Joining /\ Awaited(pc[c]) = w
    <3>1. pc[c] = "joining"
      BY <1>2, <2>2 DEF Joining, Inside
    <3>2. pc'[c] = "free"
      BY <2>1, <2>2, <3>1 DEF ThreadEnd, AfterJoin
    <3> QED
      BY <3>2 DEF Inside
  <2>3. CASE ~(pc[c] \in Joining /\ Awaited(pc[c]) = w)
    BY <1>2, <2>1, <2>3 DEF ThreadEnd
  <2> QED
    BY <2>2, <2>3
<1> QED
  BY <1>1, <1>2 DEF Harmless

LEMMA StoreHandleHarmless ==
  ASSUME TypeOK, NEW t \in Threads, StoreHandle(t)
  PROVE  Harmless
<1>1. UNCHANGED abandoned /\ pc[t] \notin Inside /\ Goto(t, AfterStore(t))
  BY DEF StoreHandle, flags, Inside
<1> QED
  BY <1>1, GotoHarmless

LEMMA DisconnectAbandon ==
  ASSUME TypeOK, AbandonEnds, NEW t \in Closers, Disconnect(t)
  PROVE  AbandonEnds'
<1>1. t \in Threads
  BY ProcedureLabels
<1>2. CASE Abandon(t)
  <2>1. pc'[t] = "cancel"
    BY <1>1, <1>2 DEF Abandon, Goto, TypeOK, PcOK
  <2> QED
    BY <2>1, InsideIs DEF AbandonEnds, Inside
<1>3. CASE CancelIo(t)
  BY <1>1, <1>3, HarmlessStep DEF CancelIo, Harmless, Goto, Inside, TypeOK, PcOK, flags
<1>4. CASE JoinReceive(t)
  <2>1. /\ UNCHANGED abandoned
        /\ \/ Goto(t, "joining")
           \/ Goto(t, "free")
    BY <1>4 DEF JoinReceive, Join, Jump, AfterJoin, rest, flags
  <2> QED
    BY <1>1, <2>1, KeptInside, HarmlessStep DEF Inside
<1>5. CASE FreeComm(t)
  <2>1. UNCHANGED abandoned /\ (UNCHANGED pc \/ Goto(t, "null"))
    BY <1>5 DEF FreeComm, Crash, flags
  <2> QED
    BY <1>1, <2>1, KeptInside, SameHarmless, HarmlessStep DEF Inside
<1>6. CASE NullComm(t)
  BY <1>1, <1>6, HarmlessStep DEF NullComm, Harmless, Goto, Inside, TypeOK, PcOK, flags
<1>7. CASE Unabandon(t)
  <2>1. abandoned' = FALSE
    BY <1>7 DEF Unabandon
  <2> QED
    BY <2>1 DEF AbandonEnds
<1> QED
  BY <1>2, <1>3, <1>4, <1>5, <1>6, <1>7 DEF Disconnect

LEMMA EchoTestHarmless ==
  ASSUME TypeOK, NEW t \in Testers, EchoTest(t)
  PROVE  Harmless
<1>1. t \in Threads
  BY ProcedureLabels
<1>2. CASE EchoBegin(t)
  BY <1>1, <1>2, GotoHarmless DEF EchoBegin, Inside, flags
<1>3. CASE EchoArm(t)
  BY <1>1, <1>3, GotoHarmless DEF EchoArm, Inside
<1>4. CASE EchoSend(t)
  <2>1. CASE comm = NoPort
    BY <1>4, <2>1, SameHarmless DEF EchoSend, Crash, flags
  <2>2. CASE comm # NoPort
    BY <1>1, <1>4, <2>2, GotoHarmless DEF EchoSend, Inside, flags
  <2> QED
    BY <2>1, <2>2
<1>5. CASE EchoWait(t)
  BY <1>1, <1>5, GotoHarmless DEF EchoWait, Inside, flags
<1>6. CASE EchoEnd(t)
  BY <1>1, <1>6, GotoHarmless DEF EchoEnd, Inside
<1> QED
  BY <1>2, <1>3, <1>4, <1>5, <1>6 DEF EchoTest

LEMMA WorkersAbandon ==
  ASSUME TypeOK, AbandonEnds, Connect \/ Receive \/ Alive
  PROVE  AbandonEnds'
<1> USE DEF Inside, flags
<1>1. /\ "connect" \in Threads /\ "receive" \in Threads /\ "alive" \in Threads
      /\ "connect" \in Workers /\ "receive" \in Workers /\ "alive" \in Workers
      /\ "connect" \in Testers /\ "alive" \in Testers
      /\ "connect" \in Closers /\ "alive" \in Closers
  BY DEF Threads, Workers, Testers, Closers
<1>2. ASSUME ConnectEntry \/ ConnectTail \/ ReceiveEntry \/ ReceiveLoop
               \/ ReceiveChecked \/ ReceiveJudge \/ AliveEntry \/ AliveMissed
      PROVE  Harmless
  BY <1>1, <1>2, GotoHarmless
     DEF ConnectEntry, ConnectTail, ReceiveEntry, ReceiveLoop, ReceiveChecked,
         ReceiveJudge, AliveEntry, AliveMissed, Jump, rest
<1>3. ASSUME ConnectRound \/ ConnectOpen \/ ConnectNext
      PROVE  Harmless
  BY <1>1, <1>3, GotoHarmless DEF ConnectRound, ConnectOpen, ConnectNext
<1>4. ASSUME ConnectUp \/ ReceivePush \/ AliveReport
      PROVE  Harmless
  BY <1>1, <1>4, GotoHarmless DEF ConnectUp, ReceivePush, AliveReport, Push
<1>5. ASSUME ConnectStart \/ AliveRestart
      PROVE  Harmless
  BY <1>1, <1>5, StartThreadHarmless DEF ConnectStart, AliveRestart
<1>6. ASSUME ReceiveData \/ ReceiveCanceled \/ ReceiveFailed \/ ReceiveWithdraw
      PROVE  Harmless
  BY <1>1, <1>6, GotoHarmless DEF ReceiveData, ReceiveCanceled, ReceiveFailed, ReceiveWithdraw
<1>7. ASSUME ReceiveRead
      PROVE  Harmless
  <2>1. CASE comm = NoPort
    BY <1>7, <2>1, SameHarmless DEF ReceiveRead, Crash
  <2>2. CASE comm # NoPort
    BY <1>1, <1>7, <2>2, GotoHarmless DEF ReceiveRead
  <2> QED
    BY <2>1, <2>2
<1>8. ASSUME ReceiveSilent
      PROVE  Harmless
  <2>1. CASE testing
    BY <1>1, <1>8, <2>1, GotoHarmless DEF ReceiveSilent
  <2>2. CASE ~testing
    BY <1>1, <1>8, <2>2, StartThreadHarmless DEF ReceiveSilent
  <2> QED
    BY <2>1, <2>2
<1>9. ASSUME ReceiveExecute
      PROVE  Harmless
  <2> DEFINE next == IF rmsg = "answer" THEN "loop" ELSE "judge"
  <2>1. PostDetected(next) /\ UNCHANGED abandoned /\ pc["receive"] = "execute"
    BY <1>9 DEF ReceiveExecute
  <2> HIDE DEF next
  <2>2. CASE Goto("receive", next)
    BY <1>1, <2>1, <2>2, GotoHarmless
  <2>3. ASSUME NEW u \in Testers, pc[u] = "waiting",
               pc' = [pc EXCEPT !["receive"] = next, ![u] = "found"]
        PROVE  Harmless
    <3>1. pc[u] \notin Inside /\ pc["receive"] \notin Inside
      BY <2>1, <2>3
    <3>2. \A c \in Threads : c # "receive" /\ c # u => pc'[c] = pc[c]
      BY <2>3 DEF TypeOK, PcOK
    <3>3. \A c \in Closers : c \in Threads
      BY DEF Closers, Threads, Workers
    <3> QED
      BY <2>1, <3>1, <3>2, <3>3 DEF Harmless
  <2> QED
    BY <2>1, <2>2, <2>3 DEF PostDetected
<1>10. \A t \in Testers : EchoTest(t) => Harmless
  BY EchoTestHarmless
<1>11. \A t \in Workers : StoreHandle(t) \/ ThreadEnd(t) => Harmless
  BY StoreHandleHarmless, ThreadEndHarmless, ProcedureLabels
<1> QED
  BY <1>1, <1>2, <1>3, <1>4, <1>5, <1>6, <1>7, <1>8, <1>9, <1>10, <1>11,
     HarmlessStep, DisconnectAbandon
     DEF Connect, Receive, Alive

LEMMA OthersAbandon ==
  ASSUME TypeOK, AbandonEnds,
         App \/ SetConfiguration \/ Free \/ Timeout
           \/ DeviceAnswer \/ DeviceCall \/ DeviceMove
  PROVE  AbandonEnds'
<1> USE DEF Inside, flags
<1>1. "app" \in Threads /\ "app" \in Closers /\ "receive" \in Threads
      /\ "connect" \in Threads /\ "connect" \in Workers
  BY DEF Threads, Workers, Closers
<1>2. ASSUME AppConfigure PROVE Harmless
  <2>1. CASE comm = NoPort
    BY <1>2, <2>1, SameHarmless DEF AppConfigure, Crash
  <2>2. CASE comm # NoPort
    BY <1>1, <1>2, <2>2, GotoHarmless DEF AppConfigure, rest
  <2> QED
    BY <2>1, <2>2
<1>3. ASSUME AppReport PROVE Harmless
  BY <1>1, <1>3, GotoHarmless DEF AppReport, Push
<1>4. ASSUME AppRestart PROVE Harmless
  BY <1>1, <1>4, StartThreadHarmless DEF AppRestart
<1>5. ASSUME FreeJoin PROVE Harmless
  BY <1>1, <1>5, GotoHarmless DEF FreeJoin, Join, Jump, rest
<1>6. ASSUME SetConfiguration \/ Free PROVE Harmless
  <2>1. ASSUME NEW label, SetConfiguration, Goto("app", label) PROVE Harmless
    BY <1>1, <2>1, GotoHarmless DEF SetConfiguration
  <2>2. ASSUME Free PROVE Harmless
    BY <1>1, <2>2, GotoHarmless DEF Free
  <2> QED
    BY <1>6, <2>1, <2>2 DEF SetConfiguration
<1>7. ASSUME ReadTimeout \/ RetryTimeout PROVE Harmless
  BY <1>1, <1>7, GotoHarmless DEF ReadTimeout, RetryTimeout, Jump, rest
<1>8. ASSUME NEW t \in Testers, EchoTimeout(t) \/ EchoLate(t) PROVE Harmless
  BY <1>8, ProcedureLabels, GotoHarmless DEF EchoTimeout, EchoLate, Jump, rest
<1>9. ASSUME DeviceAnswer \/ DeviceCall \/ DeviceMove PROVE Harmless
  BY <1>9, SameHarmless DEF DeviceAnswer, DeviceCall, DeviceMove
<1> QED
  BY <1>1, <1>2, <1>3, <1>4, <1>5, <1>6, <1>7, <1>8, <1>9, HarmlessStep,
     DisconnectAbandon, StoreHandleHarmless
     DEF App, Timeout

LEMMA NextAbandon == TypeOK /\ AbandonEnds /\ [Next]_vars => AbandonEnds'
<1> SUFFICES ASSUME TypeOK, AbandonEnds, [Next]_vars PROVE AbandonEnds'
  OBVIOUS
<1>1. CASE UNCHANGED vars
  BY <1>1 DEF vars, rest, flags, AbandonEnds
<1>2. CASE Next
  BY <1>2, WorkersAbandon, OthersAbandon DEF Next
<1> QED
  BY <1>1, <1>2

\* The flag that stops every loop of the library never outlives the calls of
\* _IcBox_disconnect, however many of them overlap.
THEOREM AbandonIsTakenBack == SafeSpec => []AbandonEnds
<1>1. Init => AbandonEnds
  BY DEF Init, AbandonEnds
<1> QED
  BY <1>1, NextAbandon, ConnectionTypeCorrect, PTL DEF SafeSpec

=============================================================================
