----------------------------- MODULE FreeProofs -----------------------------
(***************************************************************************)
(* IcBox_free at any moment, for any list of ports and any number of moves *)
(* of the device and of reads, writes and opens that fail, if no calls     *)
(* come in, timeouts are punctual and handles are stored at once, until an *)
(* alive test is started while a search goes on (overlap): the instance    *)
(* that is freed has no port open and no thread running.  The argument: a  *)
(* reader that is started after the disconnect of IcBox_free hears         *)
(* nothing, and no answer is left over from before; so a search that opens *)
(* one more port finds nobody there and closes it again, and the alive     *)
(* test has nobody left to start it.                                       *)
(***************************************************************************)
EXTENDS AloneProofs

OnlyFreed == MaxCalls = 0 /\ MaxConfigs = 0 /\ ~LateAnswers /\ Punctual /\ PromptStore

\* Where the application is once it has set comm to NULL, has waited for the
\* reader, and has waited for the alive test.
Nulled ==
  {"unabandon", "report", "joinAlive", "joiningAlive", "joinReceive", "joiningReceive",
   "joinConnect", "joiningConnect", "freed"}
Joined == {"free", "null"} \union Nulled
AliveJoined == {"joinReceive", "joiningReceive", "joinConnect", "joiningConnect", "freed"}

AppInv ==
  /\ pc["app"] \in {"idle", "abandon", "cancel", "join", "joining"} \union Joined
  /\ canceled <=> pc["app"] # "idle"
  /\ budget.calls = 0 /\ budget.configs = 0

StopInv ==
  /\ ~canceled =>
       (abandoned <=> At({"cancel", "join", "joining", "free", "null", "unabandon"}))
  /\ \A t \in Closers : writeMutex = t <=> pc[t] = "null"

\* The reader does not read, and will not if the instance is canceled.
Leaving == canceled /\ pc["receive"] \in {"entry", "loop", "exit"}
Deaf == pc["receive"] = "off" \/ Leaving

DeafInv ==
  /\ NoReader \/ pc["app"] \in Joined => Deaf
  /\ ~canceled /\ pc["receive"] = "off" => NoReader \/ At({"cancel", "join"})
  /\ ~canceled /\ pc["receive"] = "exit" => abandoned
  /\ pc["receive"] = "reading" => rcomm = comm

\* A search that finds its port set to NULL here ends at "send".
Doomed == {"start", "echo", "arm", "send"}
\* Where a search is with a port it opened after the disconnect.
Late == Doomed \union {"wait", "waiting", "lost", "abandon", "cancel", "join", "joining",
                       "free", "null"}

OpenInv ==
  /\ NoComm => comm = NoPort
  /\ comm = NoPort => IF canceled THEN Deaf ELSE NoComm
  /\ pc["app"] \notin Nulled \union {"null"} =>
       opened = IF At({"null"}) THEN {} ELSE {comm} \ {NoPort}
  /\ pc["app"] = "null" => opened = {} \/ (pc["connect"] \in Doomed /\ opened = {comm})
  /\ pc["app"] \in Nulled /\ comm = NoPort => opened = {} \/ pc["connect"] \in Doomed
  /\ pc["app"] \in Nulled /\ comm # NoPort =>
       /\ pc["connect"] \in Late /\ ~evDetected
       /\ opened = IF pc["connect"] = "null" THEN {} ELSE {comm}

\* At most one answer is on its way, to the echo test that asked for it.
Waits == At({"wait", "waiting"})
Holding == pc["receive"] = "execute" \/ (pc["receive"] = "checked" /\ rmsg # "none")
Unheard == canceled /\ Deaf

AnswerInv ==
  /\ evDetected => At({"wait"})
  /\ Holding => Waits /\ ~evDetected
  /\ line # <<>> => Unheard \/ (Waits /\ ~evDetected /\ ~Holding /\ Len(line) = 1)
  /\ asked # 0 => Unheard \/ (Waits /\ ~evDetected /\ ~Holding /\ line = <<>> /\ asked = 1)
  /\ line # <<>> => dev \in opened

\* Who is left when the application has waited for the others.
LeaveInv ==
  /\ pc["app"] \in AliveJoined => pc["alive"] = "off"
  /\ pc["app"] = "freed" => pc["connect"] = "off"
  /\ pc["app"] \in Joined /\ pc["receive"] # "off" =>
       pc["connect"] \in Late \ {"start", "free", "null"} /\ ~evDetected

\* The one fault that is left: the echo test on a port that was closed.
OnlyWriteFault == fault \in {"none", "no port to write"}

FreeInv ==
  /\ AppInv /\ HandleInv /\ TurnInv /\ TestInv /\ StopInv /\ DeafInv
  /\ OpenInv /\ AnswerInv /\ LeaveInv /\ OnlyWriteFault

-----------------------------------------------------------------------------
LEMMA InitFreed == Init /\ OnlyFreed => FreeInv
<1> SUFFICES ASSUME Init, OnlyFreed PROVE FreeInv
  OBVIOUS
<1> USE Names DEF FreeInv, AppInv, HandleInv, TurnInv, TestInv, StopInv, DeafInv,
                  OpenInv, AnswerInv, LeaveInv, OnlyWriteFault, Leaving, Deaf, Doomed, Late,
                  Waits, Holding, Unheard, Nulled, Joined, AliveJoined,
                  At, NoComm, NoReader, Searching, Armed, Stopping,
                  flags, port, sync, local, world, reader, device, rest
<1>1. pc["connect"] = "entry" /\ pc["app"] = "idle" /\ pc["receive"] = "off" /\ pc["alive"] = "off"
  BY DEF Init
<1> QED
  BY <1>1 DEF Init, OnlyFreed

LEMMA DisconnectFreed ==
  ASSUME TypeOK, FreeInv, OnlyFreed, NEW t \in Testers, Disconnect(t)
  PROVE  FreeInv'
<1> USE Names DEF FreeInv, At, Nulled, Joined, AliveJoined, Leaving, Deaf, NoComm, NoReader,
                  Searching, Armed, Doomed, Late, Waits, Holding, Unheard, Stopping,
                  flags, port, sync, local, world, reader, device, rest
<1>0. t \in Threads
  OBVIOUS
<1>1. CASE Abandon(t)
  <2>1. /\ pc[t] = "abandon" /\ pc'[t] = "cancel" /\ \A u \in Threads \ {t} : pc'[u] = pc[u]
        /\ abandoned' /\ UNCHANGED <<canceled, testing, port, sync, local, world>>
    BY <1>0, <1>1, GotoIs DEF Abandon
  <2>2. AppInv' /\ HandleInv' /\ TurnInv'
    BY <2>1 DEF AppInv, HandleInv, TurnInv
  <2>3. TestInv' /\ StopInv'
    BY <2>1 DEF AppInv, TurnInv, TestInv, StopInv
  <2>4. DeafInv'
    BY <2>1 DEF AppInv, TurnInv, StopInv, DeafInv, OpenInv
  <2>5. OpenInv'
    BY <2>1 DEF AppInv, TurnInv, StopInv, DeafInv, OpenInv, AnswerInv
  <2>6. AnswerInv'
    BY <2>1 DEF AppInv, TurnInv, DeafInv, OpenInv, AnswerInv
  <2>7. LeaveInv' /\ OnlyWriteFault'
    BY <2>1 DEF AppInv, TurnInv, DeafInv, OpenInv, AnswerInv, LeaveInv, OnlyWriteFault
  <2> QED
    BY <2>2, <2>3, <2>4, <2>5, <2>6, <2>7
<1>2. CASE CancelIo(t)
  <2>1. /\ pc[t] = "cancel" /\ pc'[t] = "join" /\ \A u \in Threads \ {t} : pc'[u] = pc[u]
        /\ cancelSig' = cancelSig \union ({comm} \ {NoPort}) /\ writeMutex = "nobody"
        /\ UNCHANGED <<flags, comm, opened, sync, local, world>>
    BY <1>0, <1>2, GotoIs DEF CancelIo
  <2>2. AppInv' /\ HandleInv' /\ TurnInv'
    BY <2>1 DEF AppInv, HandleInv, TurnInv
  <2>3. TestInv' /\ StopInv'
    BY <2>1 DEF AppInv, TurnInv, TestInv, StopInv
  <2>4. DeafInv'
    BY <2>1 DEF AppInv, TurnInv, StopInv, DeafInv, OpenInv
  <2>5. OpenInv'
    BY <2>1 DEF AppInv, TurnInv, StopInv, DeafInv, OpenInv, AnswerInv
  <2>6. AnswerInv'
    BY <2>1 DEF AppInv, TurnInv, DeafInv, OpenInv, AnswerInv
  <2>7. LeaveInv' /\ OnlyWriteFault'
    BY <2>1 DEF AppInv, TurnInv, DeafInv, OpenInv, AnswerInv, LeaveInv, OnlyWriteFault
  <2> QED
    BY <2>2, <2>3, <2>4, <2>5, <2>6, <2>7
<1>3. CASE JoinReceive(t)
  <2>1. /\ pc[t] = "join" /\ UNCHANGED rest
        /\ pc'[t] = (IF pc["receive"] = "off" THEN "free" ELSE "joining")
        /\ \A u \in Threads \ {t} : pc'[u] = pc[u]
    BY <1>0, <1>3, GotoIs DEF JoinReceive, Join, Jump, Awaited, AfterJoin, HandleInv
  <2>2. AppInv' /\ HandleInv' /\ TurnInv'
    BY <2>1 DEF AppInv, HandleInv, TurnInv
  <2>3. TestInv' /\ StopInv'
    BY <2>1 DEF AppInv, TurnInv, TestInv, StopInv
  <2>4. DeafInv'
    BY <2>1 DEF AppInv, TurnInv, StopInv, DeafInv, OpenInv
  <2>5. OpenInv'
    BY <2>1 DEF AppInv, TurnInv, StopInv, DeafInv, OpenInv, AnswerInv
  <2>6. AnswerInv'
    BY <2>1 DEF AppInv, TurnInv, DeafInv, OpenInv, AnswerInv
  <2>7. LeaveInv' /\ OnlyWriteFault'
    BY <2>1 DEF AppInv, TurnInv, DeafInv, OpenInv, AnswerInv, LeaveInv, OnlyWriteFault
  <2> QED
    BY <2>2, <2>3, <2>4, <2>5, <2>6, <2>7
<1>4. CASE FreeComm(t)
  <2>1. pc[t] = "free" /\ pc["receive"] # "reading"
    BY <1>4 DEF FreeComm, DeafInv
  <2>2. /\ writeMutex = "nobody" /\ writeMutex' = t
        /\ opened' = opened \ {comm} /\ cancelSig' = cancelSig \ {comm}
        /\ line' = IF comm = dev THEN <<>> ELSE line
        /\ Goto(t, "null")
        /\ UNCHANGED <<flags, comm, evDetected, hThread, local, dev, asked, lastEvent, overlap,
                       budget, fault>>
    BY <1>4, <2>1 DEF FreeComm
  <2>3. pc'[t] = "null" /\ \A u \in Threads \ {t} : pc'[u] = pc[u]
    BY <1>0, <2>2, GotoIs
  <2>4. AppInv' /\ HandleInv' /\ TurnInv'
    BY <2>1, <2>2, <2>3 DEF AppInv, HandleInv, TurnInv
  <2>5. TestInv' /\ StopInv'
    BY <2>1, <2>2, <2>3 DEF AppInv, TurnInv, TestInv, StopInv
  <2>6. DeafInv'
    BY <2>1, <2>2, <2>3 DEF AppInv, TurnInv, StopInv, DeafInv, OpenInv
  <2>7. OpenInv'
    BY <2>1, <2>2, <2>3 DEF AppInv, TurnInv, StopInv, DeafInv, OpenInv, AnswerInv
  <2>8. AnswerInv'
    BY <2>1, <2>2, <2>3 DEF AppInv, TurnInv, DeafInv, OpenInv, AnswerInv
  <2>9. LeaveInv' /\ OnlyWriteFault'
    BY <2>1, <2>2, <2>3 DEF AppInv, TurnInv, DeafInv, OpenInv, AnswerInv, LeaveInv, OnlyWriteFault
  <2> QED
    BY <2>4, <2>5, <2>6, <2>7, <2>8, <2>9
<1>5. CASE NullComm(t)
  <2>1. /\ pc[t] = "null" /\ pc'[t] = "unabandon" /\ \A u \in Threads \ {t} : pc'[u] = pc[u]
        /\ comm' = NoPort /\ writeMutex' = "nobody"
        /\ UNCHANGED <<flags, opened, cancelSig, evDetected, hThread, local, world>>
    BY <1>0, <1>5, GotoIs DEF NullComm
  <2>2. AppInv' /\ HandleInv' /\ TurnInv'
    BY <2>1 DEF AppInv, HandleInv, TurnInv
  <2>3. TestInv' /\ StopInv'
    BY <2>1 DEF AppInv, TurnInv, TestInv, StopInv
  <2>4. DeafInv'
    BY <2>1 DEF AppInv, TurnInv, StopInv, DeafInv, OpenInv
  <2>5. OpenInv'
    BY <2>1 DEF AppInv, TurnInv, StopInv, DeafInv, OpenInv, AnswerInv
  <2>6. AnswerInv'
    BY <2>1 DEF AppInv, TurnInv, DeafInv, OpenInv, AnswerInv
  <2>7. LeaveInv' /\ OnlyWriteFault'
    BY <2>1 DEF AppInv, TurnInv, DeafInv, OpenInv, AnswerInv, LeaveInv, OnlyWriteFault
  <2> QED
    BY <2>2, <2>3, <2>4, <2>5, <2>6, <2>7
<1>6. CASE Unabandon(t)
  <2>1. /\ pc[t] = "unabandon" /\ pc'[t] = (IF t = "connect" THEN "next" ELSE "report")
        /\ \A u \in Threads \ {t} : pc'[u] = pc[u]
        /\ ~abandoned' /\ UNCHANGED <<canceled, testing, port, sync, local, world>>
    BY <1>0, <1>6, GotoIs DEF Unabandon, AfterDisconnect
  <2>2. AppInv' /\ HandleInv' /\ TurnInv'
    BY <2>1 DEF AppInv, HandleInv, TurnInv
  <2>3. TestInv' /\ StopInv'
    BY <2>1 DEF AppInv, TurnInv, TestInv, StopInv
  <2>4. DeafInv'
    BY <2>1 DEF AppInv, TurnInv, StopInv, DeafInv, OpenInv
  <2>5. OpenInv'
    BY <2>1 DEF AppInv, TurnInv, StopInv, DeafInv, OpenInv, AnswerInv
  <2>6. AnswerInv'
    BY <2>1 DEF AppInv, TurnInv, DeafInv, OpenInv, AnswerInv
  <2>7. LeaveInv' /\ OnlyWriteFault'
    BY <2>1 DEF AppInv, TurnInv, DeafInv, OpenInv, AnswerInv, LeaveInv, OnlyWriteFault
  <2> QED
    BY <2>2, <2>3, <2>4, <2>5, <2>6, <2>7
<1> QED
  BY <1>1, <1>2, <1>3, <1>4, <1>5, <1>6 DEF Disconnect

LEMMA EchoTestFreed ==
  ASSUME TypeOK, FreeInv, OnlyFreed, NEW t \in Testers, EchoTest(t)
  PROVE  FreeInv'
<1> USE Names DEF FreeInv, At, Nulled, Joined, AliveJoined, Leaving, Deaf, NoComm, NoReader,
                  Searching, Armed, Doomed, Late, Waits, Holding, Unheard, Stopping,
                  flags, port, sync, local, world, reader, device, rest
<1>0. t \in Threads
  OBVIOUS
<1>1. CASE EchoBegin(t)
  <2>1. /\ pc[t] = "echo" /\ pc'[t] = "arm" /\ \A u \in Threads \ {t} : pc'[u] = pc[u]
        /\ UNCHANGED <<flags, port, sync, idx, reader, world>>
    BY <1>0, <1>1, GotoIs DEF EchoBegin
  <2>2. oldTesting'[t] = testing /\ \A u \in Testers \ {t} : oldTesting'[u] = oldTesting[u]
    BY <1>1 DEF EchoBegin, TypeOK
  <2>3. AppInv' /\ HandleInv' /\ TurnInv'
    BY <2>1, <2>2 DEF AppInv, HandleInv, TurnInv
  <2>4. TestInv' /\ StopInv'
    BY <2>1, <2>2 DEF AppInv, TurnInv, TestInv, StopInv
  <2>5. DeafInv'
    BY <2>1, <2>2 DEF AppInv, TurnInv, StopInv, DeafInv, OpenInv
  <2>6. OpenInv'
    BY <2>1, <2>2 DEF AppInv, TurnInv, StopInv, DeafInv, OpenInv, AnswerInv
  <2>7. AnswerInv'
    BY <2>1, <2>2 DEF AppInv, TurnInv, DeafInv, OpenInv, AnswerInv
  <2>8. LeaveInv' /\ OnlyWriteFault'
    BY <2>1, <2>2 DEF AppInv, TurnInv, DeafInv, OpenInv, AnswerInv, LeaveInv, OnlyWriteFault
  <2> QED
    BY <2>3, <2>4, <2>5, <2>6, <2>7, <2>8
<1>2. CASE EchoArm(t)
  <2>1. /\ pc[t] = "arm" /\ pc'[t] = "send" /\ \A u \in Threads \ {t} : pc'[u] = pc[u]
        /\ testing' /\ UNCHANGED <<canceled, abandoned, port, sync, local, world>>
    BY <1>0, <1>2, GotoIs DEF EchoArm
  <2>2. AppInv' /\ HandleInv' /\ TurnInv'
    BY <2>1 DEF AppInv, HandleInv, TurnInv
  <2>3. TestInv' /\ StopInv'
    BY <2>1 DEF AppInv, TurnInv, TestInv, StopInv
  <2>4. DeafInv'
    BY <2>1 DEF AppInv, TurnInv, StopInv, DeafInv, OpenInv
  <2>5. OpenInv'
    BY <2>1 DEF AppInv, TurnInv, StopInv, DeafInv, OpenInv, AnswerInv
  <2>6. AnswerInv'
    BY <2>1 DEF AppInv, TurnInv, DeafInv, OpenInv, AnswerInv
  <2>7. LeaveInv' /\ OnlyWriteFault'
    BY <2>1 DEF AppInv, TurnInv, DeafInv, OpenInv, AnswerInv, LeaveInv, OnlyWriteFault
  <2> QED
    BY <2>2, <2>3, <2>4, <2>5, <2>6, <2>7
<1>3. CASE EchoSend(t)
  <2>1. CASE comm = NoPort
    <3>1. /\ fault' = "no port to write" /\ \A u \in Threads : pc'[u] = pc[u]
          /\ UNCHANGED <<flags, port, sync, local, device, lastEvent, overlap, budget>>
      BY <1>3, <2>1 DEF EchoSend, Crash
    <3>2. AppInv' /\ HandleInv' /\ TurnInv'
      BY <3>1 DEF AppInv, HandleInv, TurnInv
    <3>3. TestInv' /\ StopInv'
      BY <3>1 DEF AppInv, TurnInv, TestInv, StopInv
    <3>4. DeafInv'
      BY <3>1 DEF AppInv, TurnInv, StopInv, DeafInv, OpenInv
    <3>5. OpenInv'
      <4>1. UNCHANGED <<pc, comm, opened, canceled, evDetected>>
        BY <1>3, <2>1 DEF EchoSend, Crash
      <4> QED
        BY <4>1 DEF OpenInv
    <3>6. AnswerInv'
      BY <3>1 DEF AppInv, TurnInv, DeafInv, OpenInv, AnswerInv
    <3>7. LeaveInv' /\ OnlyWriteFault'
      BY <3>1 DEF AppInv, TurnInv, DeafInv, OpenInv, AnswerInv, LeaveInv, OnlyWriteFault
    <3> QED
      BY <3>2, <3>3, <3>4, <3>5, <3>6, <3>7
  <2>2. CASE comm # NoPort
    <3>1. /\ pc[t] = "send" /\ writeMutex = "nobody" /\ Goto(t, "wait")
          /\ asked' \in {asked, asked + 1}
          /\ budget'.calls = budget.calls /\ budget'.configs = budget.configs
          /\ cancelSig' \in {cancelSig, cancelSig \ {comm}}
          /\ UNCHANGED <<flags, comm, opened, sync, local, dev, line, lastEvent, overlap, fault>>
      BY <1>3, <2>2 DEF EchoSend, Fails, TypeOK
    <3>2. pc'[t] = "wait" /\ \A u \in Threads \ {t} : pc'[u] = pc[u]
      BY <1>0, <3>1, GotoIs
    <3>3. cancelSig' \subseteq cancelSig
      BY <3>1
    <3>4. AppInv' /\ HandleInv' /\ TurnInv'
      BY <2>2, <3>1, <3>2, <3>3 DEF AppInv, HandleInv, TurnInv
    <3>5. TestInv' /\ StopInv'
      BY <2>2, <3>1, <3>2, <3>3 DEF AppInv, TurnInv, TestInv, StopInv
    <3>6. DeafInv'
      BY <2>2, <3>1, <3>2, <3>3 DEF AppInv, TurnInv, StopInv, DeafInv, OpenInv
    <3>7. OpenInv'
      BY <2>2, <3>1, <3>2, <3>3 DEF AppInv, TurnInv, StopInv, DeafInv, OpenInv, AnswerInv
    <3>8. AnswerInv'
      BY <2>2, <3>1, <3>2, <3>3 DEF AppInv, TurnInv, DeafInv, OpenInv, AnswerInv
    <3>9. LeaveInv' /\ OnlyWriteFault'
      BY <2>2, <3>1, <3>2, <3>3 DEF AppInv, TurnInv, DeafInv, OpenInv, AnswerInv, LeaveInv, OnlyWriteFault
    <3> QED
      BY <3>4, <3>5, <3>6, <3>7, <3>8, <3>9
  <2> QED
    BY <2>1, <2>2
<1>4. CASE EchoWait(t)
  <2>1. /\ pc[t] = "wait" /\ pc'[t] = (IF evDetected THEN "found" ELSE "waiting")
        /\ \A u \in Threads \ {t} : pc'[u] = pc[u]
        /\ ~evDetected' /\ UNCHANGED <<flags, port, writeMutex, hThread, local, world>>
    BY <1>0, <1>4, GotoIs DEF EchoWait
  <2>2. AppInv' /\ HandleInv' /\ TurnInv'
    BY <2>1 DEF AppInv, HandleInv, TurnInv
  <2>3. TestInv' /\ StopInv'
    BY <2>1 DEF AppInv, TurnInv, TestInv, StopInv
  <2>4. DeafInv'
    BY <2>1 DEF AppInv, TurnInv, StopInv, DeafInv, OpenInv
  <2>5. OpenInv'
    BY <2>1 DEF AppInv, TurnInv, StopInv, DeafInv, OpenInv, AnswerInv
  <2>6. AnswerInv'
    BY <2>1 DEF AppInv, TurnInv, DeafInv, OpenInv, AnswerInv
  <2>7. LeaveInv' /\ OnlyWriteFault'
    BY <2>1 DEF AppInv, TurnInv, DeafInv, OpenInv, AnswerInv, LeaveInv, OnlyWriteFault
  <2> QED
    BY <2>2, <2>3, <2>4, <2>5, <2>6, <2>7
<1>5. CASE EchoEnd(t)
  <2>1. pc'[t] = AfterEcho(t) /\ \A u \in Threads \ {t} : pc'[u] = pc[u]
    BY <1>0, <1>5, GotoIs DEF EchoEnd
  <2>2. /\ pc[t] \in {"found", "lost"} /\ testing' = oldTesting[t]
        /\ UNCHANGED <<canceled, abandoned, port, sync, local, world>>
        /\ pc'[t] = IF pc[t] = "found" THEN IF t = "connect" THEN "up" ELSE "exit"
                                       ELSE IF t = "connect" THEN "abandon" ELSE "missed"
    BY <1>5, <2>1 DEF EchoEnd, AfterEcho
  <2>3. AppInv' /\ HandleInv' /\ TurnInv'
    BY <2>1, <2>2 DEF AppInv, HandleInv, TurnInv
  <2>4. TestInv' /\ StopInv'
    BY <2>1, <2>2 DEF AppInv, TurnInv, TestInv, StopInv
  <2>5. DeafInv'
    BY <2>1, <2>2 DEF AppInv, TurnInv, StopInv, DeafInv, OpenInv
  <2>6. OpenInv'
    BY <2>1, <2>2 DEF AppInv, TurnInv, StopInv, DeafInv, OpenInv, AnswerInv
  <2>7. AnswerInv'
    BY <2>1, <2>2 DEF AppInv, TurnInv, DeafInv, OpenInv, AnswerInv
  <2>8. LeaveInv' /\ OnlyWriteFault'
    BY <2>1, <2>2 DEF AppInv, TurnInv, DeafInv, OpenInv, AnswerInv, LeaveInv, OnlyWriteFault
  <2> QED
    BY <2>3, <2>4, <2>5, <2>6, <2>7, <2>8
<1> QED
  BY <1>1, <1>2, <1>3, <1>4, <1>5 DEF EchoTest

\* A thread that ends wakes those who wait for it.
LEMMA ThreadEndFreed ==
  ASSUME TypeOK, FreeInv, OnlyFreed, NEW w \in Workers, ThreadEnd(w)
  PROVE  FreeInv'
<1> USE Names DEF FreeInv, At, Nulled, Joined, AliveJoined, Leaving, Deaf, NoComm, NoReader,
                  Searching, Armed, Doomed, Late, Waits, Holding, Unheard, Stopping,
                  flags, port, sync, local, world, reader, device, rest
<1>1. /\ pc[w] = "exit" /\ pc'[w] = "off" /\ hThread' = hThread \ {w}
      /\ UNCHANGED <<flags, port, evDetected, writeMutex, local, world>>
      /\ \A u \in Threads \ {w} :
           pc'[u] = IF pc[u] \in Joining /\ Awaited(pc[u]) = w THEN AfterJoin(pc[u]) ELSE pc[u]
  BY DEF ThreadEnd
<1>2. \A u \in Workers : pc[u] \in Joining => u \in Testers /\ pc[u] = "joining"
  BY DEF TypeOK, PcOK, Pcs, Joining, WorkerPcs, TesterPcs, CloserPcs
<1>3. \A u \in Workers \ {w} :
        pc'[u] = IF u \in Testers /\ pc[u] = "joining" /\ w = "receive" THEN "free" ELSE pc[u]
  BY <1>1, <1>2 DEF Joining, Awaited, AfterJoin
<1>4. pc'["app"] = IF pc["app"] = "joining" /\ w = "receive" THEN "free"
                   ELSE IF pc["app"] = "joiningAlive" /\ w = "alive" THEN "joinReceive"
                   ELSE IF pc["app"] = "joiningReceive" /\ w = "receive" THEN "joinConnect"
                   ELSE IF pc["app"] = "joiningConnect" /\ w = "connect" THEN "freed"
                   ELSE pc["app"]
  BY <1>1 DEF Joining, Awaited, AfterJoin
<1>5. AppInv' /\ HandleInv' /\ TurnInv'
  BY <1>1, <1>3, <1>4 DEF AppInv, HandleInv, TurnInv
<1>6. TestInv' /\ StopInv'
  BY <1>1, <1>3, <1>4 DEF AppInv, TurnInv, TestInv, StopInv
<1>7. DeafInv'
  BY <1>1, <1>3, <1>4 DEF AppInv, TurnInv, StopInv, DeafInv, OpenInv
<1>8. OpenInv'
  BY <1>1, <1>3, <1>4 DEF AppInv, TurnInv, StopInv, DeafInv, OpenInv, AnswerInv
<1>9. AnswerInv'
  BY <1>1, <1>3, <1>4 DEF AppInv, TurnInv, DeafInv, OpenInv, AnswerInv
<1>10. LeaveInv' /\ OnlyWriteFault'
  BY <1>1, <1>3, <1>4 DEF AppInv, TurnInv, DeafInv, OpenInv, AnswerInv, LeaveInv, OnlyWriteFault
<1> QED
  BY <1>5, <1>6, <1>7, <1>8, <1>9, <1>10

LEMMA ConnectFreed ==
  ASSUME TypeOK, FreeInv, OnlyFreed, Connect
  PROVE  FreeInv'
<1> USE Names DEF FreeInv, At, Nulled, Joined, AliveJoined, Leaving, Deaf, NoComm, NoReader,
                  Searching, Armed, Doomed, Late, Waits, Holding, Unheard, Stopping,
                  flags, port, sync, local, world, reader, device, rest
<1>1. CASE ConnectEntry
  <2>1. /\ pc["connect"] = "entry" /\ pc'["connect"] = (IF Stopping THEN "exit" ELSE "round")
        /\ \A u \in Threads \ {"connect"} : pc'[u] = pc[u]
        /\ UNCHANGED rest
    BY <1>1, GotoIs DEF ConnectEntry, Jump
  <2>2. AppInv' /\ HandleInv' /\ TurnInv'
    BY <2>1 DEF AppInv, HandleInv, TurnInv
  <2>3. TestInv' /\ StopInv'
    BY <2>1 DEF AppInv, TurnInv, TestInv, StopInv
  <2>4. DeafInv'
    BY <2>1 DEF AppInv, TurnInv, StopInv, DeafInv, OpenInv
  <2>5. OpenInv'
    BY <2>1 DEF AppInv, TurnInv, StopInv, DeafInv, OpenInv, AnswerInv
  <2>6. AnswerInv'
    BY <2>1 DEF AppInv, TurnInv, DeafInv, OpenInv, AnswerInv
  <2>7. LeaveInv' /\ OnlyWriteFault'
    BY <2>1 DEF AppInv, TurnInv, DeafInv, OpenInv, AnswerInv, LeaveInv, OnlyWriteFault
  <2> QED
    BY <2>2, <2>3, <2>4, <2>5, <2>6, <2>7
<1>2. CASE ConnectRound
  <2>1. /\ pc["connect"] = "round" /\ pc'["connect"] \in {"exit", "open"}
        /\ pc'["connect"] = "exit" => Stopping
        /\ \A u \in Threads \ {"connect"} : pc'[u] = pc[u]
        /\ UNCHANGED <<flags, port, sync, oldTesting, reader, world>>
    BY <1>2, GotoIs DEF ConnectRound
  <2>2. AppInv' /\ HandleInv' /\ TurnInv'
    BY <2>1 DEF AppInv, HandleInv, TurnInv
  <2>3. TestInv' /\ StopInv'
    BY <2>1 DEF AppInv, TurnInv, TestInv, StopInv
  <2>4. DeafInv'
    BY <2>1 DEF AppInv, TurnInv, StopInv, DeafInv, OpenInv
  <2>5. OpenInv'
    BY <2>1 DEF AppInv, TurnInv, StopInv, DeafInv, OpenInv, AnswerInv
  <2>6. AnswerInv'
    BY <2>1 DEF AppInv, TurnInv, DeafInv, OpenInv, AnswerInv
  <2>7. LeaveInv' /\ OnlyWriteFault'
    BY <2>1 DEF AppInv, TurnInv, DeafInv, OpenInv, AnswerInv, LeaveInv, OnlyWriteFault
  <2> QED
    BY <2>2, <2>3, <2>4, <2>5, <2>6, <2>7
<1>3. CASE ConnectOpen
  <2>1. /\ pc["connect"] = "open" /\ pc'["connect"] \in {"start", "next"}
        /\ \A u \in Threads \ {"connect"} : pc'[u] = pc[u]
        /\ UNCHANGED <<flags, cancelSig, sync, local, device, lastEvent, overlap, fault>>
        /\ budget'.calls = budget.calls /\ budget'.configs = budget.configs
        /\ pc'["connect"] = "next" => UNCHANGED <<comm, opened>>
        /\ pc'["connect"] = "start" =>
             comm' = PortList[idx] /\ opened' = opened \union {PortList[idx]}
    BY <1>3, GotoIs DEF ConnectOpen, Fails, TypeOK
  <2>2. PortList[idx] # NoPort /\ comm = NoPort /\ opened = {}
    BY <2>1, NoPortIsNone DEF TypeOK, Ports, OpenInv, TurnInv, AppInv
  <2>3. AppInv' /\ HandleInv' /\ TurnInv'
    BY <2>1, <2>2 DEF AppInv, HandleInv, TurnInv
  <2>4. TestInv' /\ StopInv'
    BY <2>1, <2>2 DEF AppInv, TurnInv, TestInv, StopInv
  <2>5. DeafInv'
    BY <2>1, <2>2 DEF AppInv, TurnInv, StopInv, DeafInv, OpenInv
  <2>6. OpenInv'
    BY <2>1, <2>2 DEF AppInv, TurnInv, StopInv, DeafInv, OpenInv, AnswerInv
  <2>7. AnswerInv'
    BY <2>1, <2>2 DEF AppInv, TurnInv, DeafInv, OpenInv, AnswerInv
  <2>8. LeaveInv' /\ OnlyWriteFault'
    BY <2>1, <2>2 DEF AppInv, TurnInv, DeafInv, OpenInv, AnswerInv, LeaveInv, OnlyWriteFault
  <2> QED
    BY <2>3, <2>4, <2>5, <2>6, <2>7, <2>8
<1>4. CASE ConnectStart
  <2>1. /\ pc["connect"] = "start" /\ pc'["connect"] = "echo"
        /\ pc'["receive"] = (IF pc["receive"] = "off" THEN "entry" ELSE pc["receive"])
        /\ \A u \in Threads \ {"connect", "receive"} : pc'[u] = pc[u]
        /\ UNCHANGED fault /\ hThread' = hThread \union {"receive"}
        /\ UNCHANGED <<flags, port, evDetected, writeMutex, local, device, lastEvent, overlap, budget>>
    BY <1>4, StartThreadIs DEF ConnectStart, OnlyFreed
  <2>2. AppInv' /\ HandleInv' /\ TurnInv'
    BY <2>1 DEF AppInv, HandleInv, TurnInv
  <2>3. TestInv' /\ StopInv'
    BY <2>1 DEF AppInv, TurnInv, TestInv, StopInv
  <2>4. DeafInv'
    BY <2>1 DEF AppInv, TurnInv, StopInv, DeafInv, OpenInv
  <2>5. OpenInv'
    BY <2>1 DEF AppInv, TurnInv, StopInv, DeafInv, OpenInv, AnswerInv
  <2>6. AnswerInv'
    BY <2>1 DEF AppInv, TurnInv, DeafInv, OpenInv, AnswerInv
  <2>7. LeaveInv' /\ OnlyWriteFault'
    BY <2>1 DEF AppInv, TurnInv, DeafInv, OpenInv, AnswerInv, LeaveInv, OnlyWriteFault
  <2> QED
    BY <2>2, <2>3, <2>4, <2>5, <2>6, <2>7
<1>5. CASE ConnectUp
  <2>1. /\ pc["connect"] = "up" /\ pc'["connect"] = "exit"
        /\ \A u \in Threads \ {"connect"} : pc'[u] = pc[u]
        /\ UNCHANGED <<flags, port, sync, local, device, overlap, budget, fault>>
    BY <1>5, GotoIs DEF ConnectUp, Push
  <2>2. AppInv' /\ HandleInv' /\ TurnInv'
    BY <2>1 DEF AppInv, HandleInv, TurnInv
  <2>3. TestInv' /\ StopInv'
    BY <2>1 DEF AppInv, TurnInv, TestInv, StopInv
  <2>4. DeafInv'
    BY <2>1 DEF AppInv, TurnInv, StopInv, DeafInv, OpenInv
  <2>5. OpenInv'
    BY <2>1 DEF AppInv, TurnInv, StopInv, DeafInv, OpenInv, AnswerInv
  <2>6. AnswerInv'
    BY <2>1 DEF AppInv, TurnInv, DeafInv, OpenInv, AnswerInv
  <2>7. LeaveInv' /\ OnlyWriteFault'
    BY <2>1 DEF AppInv, TurnInv, DeafInv, OpenInv, AnswerInv, LeaveInv, OnlyWriteFault
  <2> QED
    BY <2>2, <2>3, <2>4, <2>5, <2>6, <2>7
<1>6. CASE ConnectNext
  <2>1. /\ pc["connect"] = "next" /\ pc'["connect"] \in {"open", "tail"}
        /\ \A u \in Threads \ {"connect"} : pc'[u] = pc[u]
        /\ UNCHANGED <<flags, port, sync, oldTesting, reader, world>>
    BY <1>6, GotoIs DEF ConnectNext
  <2>2. AppInv' /\ HandleInv' /\ TurnInv'
    BY <2>1 DEF AppInv, HandleInv, TurnInv
  <2>3. TestInv' /\ StopInv'
    BY <2>1 DEF AppInv, TurnInv, TestInv, StopInv
  <2>4. DeafInv'
    BY <2>1 DEF AppInv, TurnInv, StopInv, DeafInv, OpenInv
  <2>5. OpenInv'
    BY <2>1 DEF AppInv, TurnInv, StopInv, DeafInv, OpenInv, AnswerInv
  <2>6. AnswerInv'
    BY <2>1 DEF AppInv, TurnInv, DeafInv, OpenInv, AnswerInv
  <2>7. LeaveInv' /\ OnlyWriteFault'
    BY <2>1 DEF AppInv, TurnInv, DeafInv, OpenInv, AnswerInv, LeaveInv, OnlyWriteFault
  <2> QED
    BY <2>2, <2>3, <2>4, <2>5, <2>6, <2>7
<1>7. CASE ConnectTail
  <2>1. /\ pc["connect"] = "tail" /\ pc'["connect"] = (IF Stopping THEN "exit" ELSE "sleep")
        /\ \A u \in Threads \ {"connect"} : pc'[u] = pc[u]
        /\ UNCHANGED rest
    BY <1>7, GotoIs DEF ConnectTail, Jump
  <2>2. AppInv' /\ HandleInv' /\ TurnInv'
    BY <2>1 DEF AppInv, HandleInv, TurnInv
  <2>3. TestInv' /\ StopInv'
    BY <2>1 DEF AppInv, TurnInv, TestInv, StopInv
  <2>4. DeafInv'
    BY <2>1 DEF AppInv, TurnInv, StopInv, DeafInv, OpenInv
  <2>5. OpenInv'
    BY <2>1 DEF AppInv, TurnInv, StopInv, DeafInv, OpenInv, AnswerInv
  <2>6. AnswerInv'
    BY <2>1 DEF AppInv, TurnInv, DeafInv, OpenInv, AnswerInv
  <2>7. LeaveInv' /\ OnlyWriteFault'
    BY <2>1 DEF AppInv, TurnInv, DeafInv, OpenInv, AnswerInv, LeaveInv, OnlyWriteFault
  <2> QED
    BY <2>2, <2>3, <2>4, <2>5, <2>6, <2>7
<1>8. ~StoreHandle("connect")
  BY DEF StoreHandle, HandleInv
<1> QED
  BY <1>1, <1>2, <1>3, <1>4, <1>5, <1>6, <1>7, <1>8, EchoTestFreed, DisconnectFreed,
     ThreadEndFreed DEF Connect

LEMMA ReceiveFreed ==
  ASSUME TypeOK, FreeInv, OnlyFreed, Receive, ~overlap'
  PROVE  FreeInv'
<1> USE Names DEF FreeInv, At, Nulled, Joined, AliveJoined, Leaving, Deaf, NoComm, NoReader,
                  Searching, Armed, Doomed, Late, Waits, Holding, Unheard, Stopping,
                  flags, port, sync, local, world, reader, device, rest
<1>1. CASE ReceiveEntry
  <2>1. /\ pc["receive"] = "entry" /\ pc'["receive"] = "loop"
        /\ \A u \in Threads \ {"receive"} : pc'[u] = pc[u]
        /\ UNCHANGED rest
    BY <1>1, GotoIs DEF ReceiveEntry, Jump
  <2>2. AppInv' /\ HandleInv' /\ TurnInv'
    BY <2>1 DEF AppInv, HandleInv, TurnInv
  <2>3. TestInv' /\ StopInv'
    BY <2>1 DEF AppInv, TurnInv, TestInv, StopInv
  <2>4. DeafInv'
    BY <2>1 DEF AppInv, TurnInv, StopInv, DeafInv, OpenInv
  <2>5. OpenInv'
    BY <2>1 DEF AppInv, TurnInv, StopInv, DeafInv, OpenInv, AnswerInv
  <2>6. AnswerInv'
    BY <2>1 DEF AppInv, TurnInv, DeafInv, OpenInv, AnswerInv
  <2>7. LeaveInv' /\ OnlyWriteFault'
    BY <2>1 DEF AppInv, TurnInv, DeafInv, OpenInv, AnswerInv, LeaveInv, OnlyWriteFault
  <2> QED
    BY <2>2, <2>3, <2>4, <2>5, <2>6, <2>7
<1>2. CASE ReceiveLoop
  <2>1. /\ pc["receive"] = "loop" /\ pc'["receive"] = (IF Stopping THEN "exit" ELSE "read")
        /\ \A u \in Threads \ {"receive"} : pc'[u] = pc[u]
        /\ UNCHANGED rest
    BY <1>2, GotoIs DEF ReceiveLoop, Jump
  <2>2. AppInv' /\ HandleInv' /\ TurnInv'
    BY <2>1 DEF AppInv, HandleInv, TurnInv
  <2>3. TestInv' /\ StopInv'
    BY <2>1 DEF AppInv, TurnInv, TestInv, StopInv
  <2>4. DeafInv'
    BY <2>1 DEF AppInv, TurnInv, StopInv, DeafInv, OpenInv
  <2>5. OpenInv'
    BY <2>1 DEF AppInv, TurnInv, StopInv, DeafInv, OpenInv, AnswerInv
  <2>6. AnswerInv'
    BY <2>1 DEF AppInv, TurnInv, DeafInv, OpenInv, AnswerInv
  <2>7. LeaveInv' /\ OnlyWriteFault'
    BY <2>1 DEF AppInv, TurnInv, DeafInv, OpenInv, AnswerInv, LeaveInv, OnlyWriteFault
  <2> QED
    BY <2>2, <2>3, <2>4, <2>5, <2>6, <2>7
<1>3. CASE ReceiveRead
  <2>1. comm # NoPort
    BY <1>3 DEF ReceiveRead, OpenInv, DeafInv
  <2>2. /\ pc["receive"] = "read" /\ Goto("receive", "reading") /\ rcomm' = comm
        /\ UNCHANGED <<flags, port, sync, oldTesting, idx, rmsg, world>>
    BY <1>3, <2>1 DEF ReceiveRead
  <2>3. pc'["receive"] = "reading" /\ \A u \in Threads \ {"receive"} : pc'[u] = pc[u]
    BY <2>2, GotoIs
  <2>4. AppInv' /\ HandleInv' /\ TurnInv'
    BY <2>1, <2>2, <2>3 DEF AppInv, HandleInv, TurnInv
  <2>5. TestInv' /\ StopInv'
    BY <2>1, <2>2, <2>3 DEF AppInv, TurnInv, TestInv, StopInv
  <2>6. DeafInv'
    BY <2>1, <2>2, <2>3 DEF AppInv, TurnInv, StopInv, DeafInv, OpenInv
  <2>7. OpenInv'
    BY <2>1, <2>2, <2>3 DEF AppInv, TurnInv, StopInv, DeafInv, OpenInv, AnswerInv
  <2>8. AnswerInv'
    BY <2>1, <2>2, <2>3 DEF AppInv, TurnInv, DeafInv, OpenInv, AnswerInv
  <2>9. LeaveInv' /\ OnlyWriteFault'
    BY <2>1, <2>2, <2>3 DEF AppInv, TurnInv, DeafInv, OpenInv, AnswerInv, LeaveInv, OnlyWriteFault
  <2> QED
    BY <2>4, <2>5, <2>6, <2>7, <2>8, <2>9
<1>4. CASE ReceiveData
  <2>1. /\ pc["receive"] = "reading" /\ pc'["receive"] = "checked"
        /\ \A u \in Threads \ {"receive"} : pc'[u] = pc[u]
        /\ line # <<>> /\ line' = Tail(line) /\ rmsg' = Head(line)
        /\ UNCHANGED <<flags, port, sync, oldTesting, idx, dev, asked, lastEvent, overlap, budget, fault>>
    BY <1>4, GotoIs DEF ReceiveData
  <2>2. rmsg' # "none"
    <3>1. Head(line) \in {"answer", "call"}
      BY <2>1, HeadTailProperties DEF TypeOK
    <3> QED
      BY <2>1, <3>1
  <2>3. line' = <<>>
    <3>1. Len(line) = 1
      BY <2>1 DEF AnswerInv
    <3> QED
      BY <2>1, <3>1 DEF TypeOK
  <2>4. AppInv' /\ HandleInv' /\ TurnInv'
    BY <2>1, <2>2, <2>3 DEF AppInv, HandleInv, TurnInv
  <2>5. TestInv' /\ StopInv'
    BY <2>1, <2>2, <2>3 DEF AppInv, TurnInv, TestInv, StopInv
  <2>6. DeafInv'
    BY <2>1, <2>2, <2>3 DEF AppInv, TurnInv, StopInv, DeafInv, OpenInv
  <2>7. OpenInv'
    BY <2>1, <2>2, <2>3 DEF AppInv, TurnInv, StopInv, DeafInv, OpenInv, AnswerInv
  <2>8. AnswerInv'
    BY <2>1, <2>2, <2>3 DEF AppInv, TurnInv, DeafInv, OpenInv, AnswerInv
  <2>9. LeaveInv' /\ OnlyWriteFault'
    BY <2>1, <2>2, <2>3 DEF AppInv, TurnInv, DeafInv, OpenInv, AnswerInv, LeaveInv, OnlyWriteFault
  <2> QED
    BY <2>4, <2>5, <2>6, <2>7, <2>8, <2>9
<1>5. CASE ReceiveCanceled
  <2>1. /\ pc["receive"] = "reading" /\ pc'["receive"] = "checked" /\ rmsg' = "none"
        /\ \A u \in Threads \ {"receive"} : pc'[u] = pc[u]
        /\ UNCHANGED <<flags, comm, opened, sync, oldTesting, idx, world>>
    BY <1>5, GotoIs DEF ReceiveCanceled
  <2>2. AppInv' /\ HandleInv' /\ TurnInv'
    BY <2>1 DEF AppInv, HandleInv, TurnInv
  <2>3. TestInv' /\ StopInv'
    BY <2>1 DEF AppInv, TurnInv, TestInv, StopInv
  <2>4. DeafInv'
    BY <2>1 DEF AppInv, TurnInv, StopInv, DeafInv, OpenInv
  <2>5. OpenInv'
    BY <2>1 DEF AppInv, TurnInv, StopInv, DeafInv, OpenInv, AnswerInv
  <2>6. AnswerInv'
    BY <2>1 DEF AppInv, TurnInv, DeafInv, OpenInv, AnswerInv
  <2>7. LeaveInv' /\ OnlyWriteFault'
    BY <2>1 DEF AppInv, TurnInv, DeafInv, OpenInv, AnswerInv, LeaveInv, OnlyWriteFault
  <2> QED
    BY <2>2, <2>3, <2>4, <2>5, <2>6, <2>7
<1>6. CASE ReceiveChecked
  <2>1. /\ pc["receive"] = "checked" /\ pc'["receive"] \in {"loop", "silent", "execute"}
        /\ pc'["receive"] = "silent" => rmsg = "none" /\ ~Stopping
        /\ pc'["receive"] = "execute" => rmsg # "none" /\ ~Stopping
        /\ \A u \in Threads \ {"receive"} : pc'[u] = pc[u]
        /\ UNCHANGED rest
    BY <1>6, GotoIs DEF ReceiveChecked, Jump
  <2>2. AppInv' /\ HandleInv' /\ TurnInv'
    BY <2>1 DEF AppInv, HandleInv, TurnInv
  <2>3. TestInv' /\ StopInv'
    BY <2>1 DEF AppInv, TurnInv, TestInv, StopInv
  <2>4. DeafInv'
    BY <2>1 DEF AppInv, TurnInv, StopInv, DeafInv, OpenInv
  <2>5. OpenInv'
    BY <2>1 DEF AppInv, TurnInv, StopInv, DeafInv, OpenInv, AnswerInv
  <2>6. AnswerInv'
    BY <2>1 DEF AppInv, TurnInv, DeafInv, OpenInv, AnswerInv
  <2>7. LeaveInv' /\ OnlyWriteFault'
    BY <2>1 DEF AppInv, TurnInv, DeafInv, OpenInv, AnswerInv, LeaveInv, OnlyWriteFault
  <2> QED
    BY <2>2, <2>3, <2>4, <2>5, <2>6, <2>7
<1>7. CASE ReceiveSilent
  <2>1. CASE testing
    <3>1. /\ pc["receive"] = "silent" /\ pc'["receive"] = "loop"
          /\ \A u \in Threads \ {"receive"} : pc'[u] = pc[u]
          /\ UNCHANGED rest
      BY <1>7, <2>1, GotoIs DEF ReceiveSilent
    <3>2. AppInv' /\ HandleInv' /\ TurnInv'
      BY <3>1 DEF AppInv, HandleInv, TurnInv
    <3>3. TestInv' /\ StopInv'
      BY <3>1 DEF AppInv, TurnInv, TestInv, StopInv
    <3>4. DeafInv'
      BY <3>1 DEF AppInv, TurnInv, StopInv, DeafInv, OpenInv
    <3>5. OpenInv'
      BY <3>1 DEF AppInv, TurnInv, StopInv, DeafInv, OpenInv, AnswerInv
    <3>6. AnswerInv'
      BY <3>1 DEF AppInv, TurnInv, DeafInv, OpenInv, AnswerInv
    <3>7. LeaveInv' /\ OnlyWriteFault'
      BY <3>1 DEF AppInv, TurnInv, DeafInv, OpenInv, AnswerInv, LeaveInv, OnlyWriteFault
    <3> QED
      BY <3>2, <3>3, <3>4, <3>5, <3>6, <3>7
  <2>2. CASE ~testing
    <3>1. /\ pc["receive"] = "silent" /\ pc'["receive"] = "loop"
          /\ pc'["alive"] = (IF pc["alive"] = "off" THEN "entry" ELSE pc["alive"])
          /\ \A u \in Threads \ {"receive", "alive"} : pc'[u] = pc[u]
          /\ UNCHANGED fault /\ hThread' = hThread \union {"alive"}
          /\ UNCHANGED <<flags, port, evDetected, writeMutex, local, device, lastEvent, budget>>
      BY <1>7, <2>2, StartThreadIs DEF ReceiveSilent, OnlyFreed
    <3>2. (pc["connect"] = "off" \/ pc["alive"] # "off") /\ ~Deaf /\ pc["app"] \notin Joined
      BY <1>7, <2>2, <3>1 DEF ReceiveSilent, HandleInv, DeafInv
    <3>3. AppInv' /\ HandleInv' /\ TurnInv'
      BY <3>1, <3>2 DEF AppInv, HandleInv, TurnInv
    <3>4. TestInv' /\ StopInv'
      BY <3>1, <3>2 DEF AppInv, TurnInv, TestInv, StopInv
    <3>5. DeafInv'
      BY <3>1, <3>2 DEF AppInv, TurnInv, StopInv, DeafInv, OpenInv
    <3>6. OpenInv'
      BY <3>1, <3>2 DEF AppInv, TurnInv, StopInv, DeafInv, OpenInv, AnswerInv
    <3>7. AnswerInv'
      BY <3>1, <3>2 DEF AppInv, TurnInv, DeafInv, OpenInv, AnswerInv
    <3>8. LeaveInv' /\ OnlyWriteFault'
      BY <3>1, <3>2 DEF AppInv, TurnInv, DeafInv, OpenInv, AnswerInv, LeaveInv, OnlyWriteFault
    <3> QED
      BY <3>3, <3>4, <3>5, <3>6, <3>7, <3>8
  <2> QED
    BY <2>1, <2>2
<1>8. CASE ReceiveExecute
  <2> DEFINE next == IF rmsg = "answer" THEN "loop" ELSE "judge"
  <2>1. /\ PostDetected(next) /\ next \in {"loop", "judge"} /\ pc["receive"] = "execute"
        /\ UNCHANGED <<flags, port, writeMutex, hThread, local, world>>
    BY <1>8 DEF ReceiveExecute
  <2> HIDE DEF next
  <2>2. CASE evDetected' /\ Goto("receive", next) /\ \A t \in Testers : pc[t] # "waiting"
    <3>1. pc'["receive"] = next /\ \A u \in Threads \ {"receive"} : pc'[u] = pc[u]
      BY <2>2, GotoIs
    <3>2. AppInv' /\ HandleInv' /\ TurnInv'
      BY <2>1, <2>2, <3>1 DEF AppInv, HandleInv, TurnInv
    <3>3. TestInv' /\ StopInv'
      BY <2>1, <2>2, <3>1 DEF AppInv, TurnInv, TestInv, StopInv
    <3>4. DeafInv'
      BY <2>1, <2>2, <3>1 DEF AppInv, TurnInv, StopInv, DeafInv, OpenInv
    <3>5. OpenInv'
      BY <2>1, <2>2, <3>1 DEF AppInv, TurnInv, StopInv, DeafInv, OpenInv, AnswerInv
    <3>6. AnswerInv'
      BY <2>1, <2>2, <3>1 DEF AppInv, TurnInv, DeafInv, OpenInv, AnswerInv
    <3>7. LeaveInv' /\ OnlyWriteFault'
      BY <2>1, <2>2, <3>1 DEF AppInv, TurnInv, DeafInv, OpenInv, AnswerInv, LeaveInv, OnlyWriteFault
    <3> QED
      BY <3>2, <3>3, <3>4, <3>5, <3>6, <3>7
  <2>3. ASSUME NEW t \in Testers, pc[t] = "waiting", UNCHANGED evDetected,
               pc' = [pc EXCEPT !["receive"] = next, ![t] = "found"]
        PROVE  FreeInv'
    <3>1. /\ pc'["receive"] = next /\ pc'[t] = "found"
          /\ \A u \in Threads \ {"receive", t} : pc'[u] = pc[u]
      BY <2>3 DEF TypeOK, PcOK
    <3>2. AppInv' /\ HandleInv' /\ TurnInv'
      BY <2>1, <2>3, <3>1 DEF AppInv, HandleInv, TurnInv
    <3>3. TestInv' /\ StopInv'
      BY <2>1, <2>3, <3>1 DEF AppInv, TurnInv, TestInv, StopInv
    <3>4. DeafInv'
      BY <2>1, <2>3, <3>1 DEF AppInv, TurnInv, StopInv, DeafInv, OpenInv
    <3>5. OpenInv'
      BY <2>1, <2>3, <3>1 DEF AppInv, TurnInv, StopInv, DeafInv, OpenInv, AnswerInv
    <3>6. AnswerInv'
      BY <2>1, <2>3, <3>1 DEF AppInv, TurnInv, DeafInv, OpenInv, AnswerInv
    <3>7. LeaveInv' /\ OnlyWriteFault'
      BY <2>1, <2>3, <3>1 DEF AppInv, TurnInv, DeafInv, OpenInv, AnswerInv, LeaveInv, OnlyWriteFault
    <3> QED
      BY <3>2, <3>3, <3>4, <3>5, <3>6, <3>7
  <2> QED
    BY <2>1, <2>2, <2>3 DEF PostDetected
<1>9. CASE ReceiveJudge
  <2>1. /\ pc["receive"] = "judge" /\ pc'["receive"] \in {"loop", "withdraw"}
        /\ \A u \in Threads \ {"receive"} : pc'[u] = pc[u]
        /\ UNCHANGED rest
    BY <1>9, GotoIs DEF ReceiveJudge, Jump
  <2>2. AppInv' /\ HandleInv' /\ TurnInv'
    BY <2>1 DEF AppInv, HandleInv, TurnInv
  <2>3. TestInv' /\ StopInv'
    BY <2>1 DEF AppInv, TurnInv, TestInv, StopInv
  <2>4. DeafInv'
    BY <2>1 DEF AppInv, TurnInv, StopInv, DeafInv, OpenInv
  <2>5. OpenInv'
    BY <2>1 DEF AppInv, TurnInv, StopInv, DeafInv, OpenInv, AnswerInv
  <2>6. AnswerInv'
    BY <2>1 DEF AppInv, TurnInv, DeafInv, OpenInv, AnswerInv
  <2>7. LeaveInv' /\ OnlyWriteFault'
    BY <2>1 DEF AppInv, TurnInv, DeafInv, OpenInv, AnswerInv, LeaveInv, OnlyWriteFault
  <2> QED
    BY <2>2, <2>3, <2>4, <2>5, <2>6, <2>7
<1>10. CASE ReceiveWithdraw
  <2>1. /\ pc["receive"] = "withdraw" /\ pc'["receive"] = "push" /\ ~evDetected'
        /\ \A u \in Threads \ {"receive"} : pc'[u] = pc[u]
        /\ UNCHANGED <<flags, port, writeMutex, hThread, local, world>>
    BY <1>10, GotoIs DEF ReceiveWithdraw
  <2>2. AppInv' /\ HandleInv' /\ TurnInv'
    BY <2>1 DEF AppInv, HandleInv, TurnInv
  <2>3. TestInv' /\ StopInv'
    BY <2>1 DEF AppInv, TurnInv, TestInv, StopInv
  <2>4. DeafInv'
    BY <2>1 DEF AppInv, TurnInv, StopInv, DeafInv, OpenInv
  <2>5. OpenInv'
    BY <2>1 DEF AppInv, TurnInv, StopInv, DeafInv, OpenInv, AnswerInv
  <2>6. AnswerInv'
    BY <2>1 DEF AppInv, TurnInv, DeafInv, OpenInv, AnswerInv
  <2>7. LeaveInv' /\ OnlyWriteFault'
    BY <2>1 DEF AppInv, TurnInv, DeafInv, OpenInv, AnswerInv, LeaveInv, OnlyWriteFault
  <2> QED
    BY <2>2, <2>3, <2>4, <2>5, <2>6, <2>7
<1>11. CASE ReceivePush
  <2>1. /\ pc["receive"] = "push" /\ pc'["receive"] = "loop"
        /\ \A u \in Threads \ {"receive"} : pc'[u] = pc[u]
        /\ UNCHANGED <<flags, port, sync, local, device, overlap, budget, fault>>
    BY <1>11, GotoIs DEF ReceivePush, Push
  <2>2. AppInv' /\ HandleInv' /\ TurnInv'
    BY <2>1 DEF AppInv, HandleInv, TurnInv
  <2>3. TestInv' /\ StopInv'
    BY <2>1 DEF AppInv, TurnInv, TestInv, StopInv
  <2>4. DeafInv'
    BY <2>1 DEF AppInv, TurnInv, StopInv, DeafInv, OpenInv
  <2>5. OpenInv'
    BY <2>1 DEF AppInv, TurnInv, StopInv, DeafInv, OpenInv, AnswerInv
  <2>6. AnswerInv'
    BY <2>1 DEF AppInv, TurnInv, DeafInv, OpenInv, AnswerInv
  <2>7. LeaveInv' /\ OnlyWriteFault'
    BY <2>1 DEF AppInv, TurnInv, DeafInv, OpenInv, AnswerInv, LeaveInv, OnlyWriteFault
  <2> QED
    BY <2>2, <2>3, <2>4, <2>5, <2>6, <2>7
<1>13. CASE ReceiveFailed
  <2>1. /\ pc["receive"] = "reading" /\ pc'["receive"] = "checked" /\ rmsg' = "none"
        /\ \A u \in Threads \ {"receive"} : pc'[u] = pc[u]
        /\ UNCHANGED <<flags, port, sync, oldTesting, idx, device, lastEvent, overlap, fault>>
        /\ budget'.calls = budget.calls /\ budget'.configs = budget.configs
    BY <1>13, GotoIs DEF ReceiveFailed, Fails, TypeOK
  <2>2. AppInv' /\ HandleInv' /\ TurnInv'
    BY <2>1 DEF AppInv, HandleInv, TurnInv
  <2>3. TestInv' /\ StopInv'
    BY <2>1 DEF AppInv, TurnInv, TestInv, StopInv
  <2>4. DeafInv'
    BY <2>1 DEF AppInv, TurnInv, StopInv, DeafInv, OpenInv
  <2>5. OpenInv'
    BY <2>1 DEF AppInv, TurnInv, StopInv, DeafInv, OpenInv, AnswerInv
  <2>6. AnswerInv'
    BY <2>1 DEF AppInv, TurnInv, DeafInv, OpenInv, AnswerInv
  <2>7. LeaveInv' /\ OnlyWriteFault'
    BY <2>1 DEF AppInv, TurnInv, DeafInv, OpenInv, AnswerInv, LeaveInv, OnlyWriteFault
  <2> QED
    BY <2>2, <2>3, <2>4, <2>5, <2>6, <2>7
<1>12. ~StoreHandle("receive")
  BY DEF StoreHandle, HandleInv
<1> QED
  BY <1>1, <1>2, <1>3, <1>4, <1>5, <1>6, <1>7, <1>8, <1>9, <1>10, <1>11, <1>12, <1>13, ThreadEndFreed
     DEF Receive

LEMMA AliveFreed ==
  ASSUME TypeOK, FreeInv, OnlyFreed, Alive
  PROVE  FreeInv'
<1> USE Names DEF FreeInv, At, Nulled, Joined, AliveJoined, Leaving, Deaf, NoComm, NoReader,
                  Searching, Armed, Doomed, Late, Waits, Holding, Unheard, Stopping,
                  flags, port, sync, local, world, reader, device, rest
<1>1. CASE AliveEntry
  <2>1. /\ pc["alive"] = "entry" /\ pc'["alive"] = "echo"
        /\ \A u \in Threads \ {"alive"} : pc'[u] = pc[u]
        /\ UNCHANGED rest
    BY <1>1, GotoIs DEF AliveEntry, Jump
  <2>2. AppInv' /\ HandleInv' /\ TurnInv'
    BY <2>1 DEF AppInv, HandleInv, TurnInv
  <2>3. TestInv' /\ StopInv'
    BY <2>1 DEF AppInv, TurnInv, TestInv, StopInv
  <2>4. DeafInv'
    BY <2>1 DEF AppInv, TurnInv, StopInv, DeafInv, OpenInv
  <2>5. OpenInv'
    BY <2>1 DEF AppInv, TurnInv, StopInv, DeafInv, OpenInv, AnswerInv
  <2>6. AnswerInv'
    BY <2>1 DEF AppInv, TurnInv, DeafInv, OpenInv, AnswerInv
  <2>7. LeaveInv' /\ OnlyWriteFault'
    BY <2>1 DEF AppInv, TurnInv, DeafInv, OpenInv, AnswerInv, LeaveInv, OnlyWriteFault
  <2> QED
    BY <2>2, <2>3, <2>4, <2>5, <2>6, <2>7
<1>2. CASE AliveMissed
  <2>1. /\ pc["alive"] = "missed" /\ pc'["alive"] = (IF canceled THEN "exit" ELSE "abandon")
        /\ \A u \in Threads \ {"alive"} : pc'[u] = pc[u]
        /\ UNCHANGED rest
    BY <1>2, GotoIs DEF AliveMissed, Jump
  <2>2. AppInv' /\ HandleInv' /\ TurnInv'
    BY <2>1 DEF AppInv, HandleInv, TurnInv
  <2>3. TestInv' /\ StopInv'
    BY <2>1 DEF AppInv, TurnInv, TestInv, StopInv
  <2>4. DeafInv'
    BY <2>1 DEF AppInv, TurnInv, StopInv, DeafInv, OpenInv
  <2>5. OpenInv'
    BY <2>1 DEF AppInv, TurnInv, StopInv, DeafInv, OpenInv, AnswerInv
  <2>6. AnswerInv'
    BY <2>1 DEF AppInv, TurnInv, DeafInv, OpenInv, AnswerInv
  <2>7. LeaveInv' /\ OnlyWriteFault'
    BY <2>1 DEF AppInv, TurnInv, DeafInv, OpenInv, AnswerInv, LeaveInv, OnlyWriteFault
  <2> QED
    BY <2>2, <2>3, <2>4, <2>5, <2>6, <2>7
<1>3. CASE AliveReport
  <2>1. /\ pc["alive"] = "report" /\ pc'["alive"] = "restart"
        /\ \A u \in Threads \ {"alive"} : pc'[u] = pc[u]
        /\ UNCHANGED <<flags, port, sync, local, device, overlap, budget, fault>>
    BY <1>3, GotoIs DEF AliveReport, Push
  <2>2. AppInv' /\ HandleInv' /\ TurnInv'
    BY <2>1 DEF AppInv, HandleInv, TurnInv
  <2>3. TestInv' /\ StopInv'
    BY <2>1 DEF AppInv, TurnInv, TestInv, StopInv
  <2>4. DeafInv'
    BY <2>1 DEF AppInv, TurnInv, StopInv, DeafInv, OpenInv
  <2>5. OpenInv'
    BY <2>1 DEF AppInv, TurnInv, StopInv, DeafInv, OpenInv, AnswerInv
  <2>6. AnswerInv'
    BY <2>1 DEF AppInv, TurnInv, DeafInv, OpenInv, AnswerInv
  <2>7. LeaveInv' /\ OnlyWriteFault'
    BY <2>1 DEF AppInv, TurnInv, DeafInv, OpenInv, AnswerInv, LeaveInv, OnlyWriteFault
  <2> QED
    BY <2>2, <2>3, <2>4, <2>5, <2>6, <2>7
<1>4. CASE AliveRestart
  <2>1. pc["alive"] = "restart" /\ pc["connect"] = "off" /\ Deaf
    BY <1>4 DEF AliveRestart, TurnInv, DeafInv
  <2>2. /\ pc'["alive"] = "exit" /\ pc'["connect"] = "entry"
        /\ \A u \in Threads \ {"alive", "connect"} : pc'[u] = pc[u]
        /\ UNCHANGED fault /\ hThread' = hThread \union {"connect"}
        /\ UNCHANGED <<flags, port, evDetected, writeMutex, local, device, lastEvent, overlap, budget>>
    BY <1>4, <2>1, StartThreadIs DEF AliveRestart, OnlyFreed
  <2>3. AppInv' /\ HandleInv' /\ TurnInv'
    BY <2>1, <2>2 DEF AppInv, HandleInv, TurnInv
  <2>4. TestInv' /\ StopInv'
    BY <2>1, <2>2 DEF AppInv, TurnInv, TestInv, StopInv
  <2>5. DeafInv'
    BY <2>1, <2>2 DEF AppInv, TurnInv, StopInv, DeafInv, OpenInv
  <2>6. OpenInv'
    BY <2>1, <2>2 DEF AppInv, TurnInv, StopInv, DeafInv, OpenInv, AnswerInv
  <2>7. AnswerInv'
    BY <2>1, <2>2 DEF AppInv, TurnInv, DeafInv, OpenInv, AnswerInv
  <2>8. LeaveInv' /\ OnlyWriteFault'
    BY <2>1, <2>2 DEF AppInv, TurnInv, DeafInv, OpenInv, AnswerInv, LeaveInv, OnlyWriteFault
  <2> QED
    BY <2>3, <2>4, <2>5, <2>6, <2>7, <2>8
<1>5. ~StoreHandle("alive")
  BY DEF StoreHandle, HandleInv
<1> QED
  BY <1>1, <1>2, <1>3, <1>4, <1>5, EchoTestFreed, DisconnectFreed, ThreadEndFreed DEF Alive

LEMMA DisconnectByApp ==
  ASSUME TypeOK, FreeInv, OnlyFreed, Disconnect("app")
  PROVE  FreeInv'
<1> USE Names DEF FreeInv, At, Nulled, Joined, AliveJoined, Leaving, Deaf, NoComm, NoReader,
                  Searching, Armed, Doomed, Late, Waits, Holding, Unheard, Stopping,
                  flags, port, sync, local, world, reader, device, rest
<1>1. CASE Abandon("app")
  <2>1. /\ pc["app"] = "abandon" /\ pc'["app"] = "cancel"
        /\ \A u \in Threads \ {"app"} : pc'[u] = pc[u]
        /\ abandoned' /\ UNCHANGED <<canceled, testing, port, sync, local, world>>
    BY <1>1, GotoIs DEF Abandon
  <2>2. AppInv' /\ HandleInv' /\ TurnInv'
    BY <2>1 DEF AppInv, HandleInv, TurnInv
  <2>3. TestInv' /\ StopInv'
    BY <2>1 DEF AppInv, TurnInv, TestInv, StopInv
  <2>4. DeafInv'
    BY <2>1 DEF AppInv, TurnInv, StopInv, DeafInv, OpenInv
  <2>5. OpenInv'
    BY <2>1 DEF AppInv, TurnInv, StopInv, DeafInv, OpenInv, AnswerInv
  <2>6. AnswerInv'
    BY <2>1 DEF AppInv, TurnInv, DeafInv, OpenInv, AnswerInv
  <2>7. LeaveInv' /\ OnlyWriteFault'
    BY <2>1 DEF AppInv, TurnInv, DeafInv, OpenInv, AnswerInv, LeaveInv, OnlyWriteFault
  <2> QED
    BY <2>2, <2>3, <2>4, <2>5, <2>6, <2>7
<1>2. CASE CancelIo("app")
  <2>1. /\ pc["app"] = "cancel" /\ pc'["app"] = "join"
        /\ \A u \in Threads \ {"app"} : pc'[u] = pc[u]
        /\ UNCHANGED <<flags, comm, opened, sync, local, world>>
    BY <1>2, GotoIs DEF CancelIo
  <2>2. AppInv' /\ HandleInv' /\ TurnInv'
    BY <2>1 DEF AppInv, HandleInv, TurnInv
  <2>3. TestInv' /\ StopInv'
    BY <2>1 DEF AppInv, TurnInv, TestInv, StopInv
  <2>4. DeafInv'
    BY <2>1 DEF AppInv, TurnInv, StopInv, DeafInv, OpenInv
  <2>5. OpenInv'
    BY <2>1 DEF AppInv, TurnInv, StopInv, DeafInv, OpenInv, AnswerInv
  <2>6. AnswerInv'
    BY <2>1 DEF AppInv, TurnInv, DeafInv, OpenInv, AnswerInv
  <2>7. LeaveInv' /\ OnlyWriteFault'
    BY <2>1 DEF AppInv, TurnInv, DeafInv, OpenInv, AnswerInv, LeaveInv, OnlyWriteFault
  <2> QED
    BY <2>2, <2>3, <2>4, <2>5, <2>6, <2>7
<1>3. CASE JoinReceive("app")
  <2>1. /\ pc["app"] = "join" /\ pc'["app"] = (IF pc["receive"] = "off" THEN "free" ELSE "joining")
        /\ \A u \in Threads \ {"app"} : pc'[u] = pc[u]
        /\ UNCHANGED rest
    BY <1>3, GotoIs DEF JoinReceive, Join, Jump, Awaited, AfterJoin, HandleInv
  <2>2. AppInv' /\ HandleInv' /\ TurnInv'
    BY <2>1 DEF AppInv, HandleInv, TurnInv
  <2>3. TestInv' /\ StopInv'
    BY <2>1 DEF AppInv, TurnInv, TestInv, StopInv
  <2>4. DeafInv'
    BY <2>1 DEF AppInv, TurnInv, StopInv, DeafInv, OpenInv
  <2>5. OpenInv'
    BY <2>1 DEF AppInv, TurnInv, StopInv, DeafInv, OpenInv, AnswerInv
  <2>6. AnswerInv'
    BY <2>1 DEF AppInv, TurnInv, DeafInv, OpenInv, AnswerInv
  <2>7. LeaveInv' /\ OnlyWriteFault'
    BY <2>1 DEF AppInv, TurnInv, DeafInv, OpenInv, AnswerInv, LeaveInv, OnlyWriteFault
  <2> QED
    BY <2>2, <2>3, <2>4, <2>5, <2>6, <2>7
<1>4. CASE FreeComm("app")
  <2>1. pc["app"] = "free" /\ pc["receive"] # "reading"
    BY <1>4 DEF FreeComm, DeafInv
  <2>2. /\ writeMutex = "nobody" /\ writeMutex' = "app"
        /\ opened' = opened \ {comm} /\ cancelSig' = cancelSig \ {comm}
        /\ line' = IF comm = dev THEN <<>> ELSE line
        /\ Goto("app", "null")
        /\ UNCHANGED <<flags, comm, evDetected, hThread, local, dev, asked, lastEvent, overlap,
                       budget, fault>>
    BY <1>4, <2>1 DEF FreeComm
  <2>3. pc'["app"] = "null" /\ \A u \in Threads \ {"app"} : pc'[u] = pc[u]
    BY <2>2, GotoIs
  <2>4. AppInv' /\ HandleInv' /\ TurnInv'
    BY <2>1, <2>2, <2>3 DEF AppInv, HandleInv, TurnInv
  <2>5. TestInv' /\ StopInv'
    BY <2>1, <2>2, <2>3 DEF AppInv, TurnInv, TestInv, StopInv
  <2>6. DeafInv'
    BY <2>1, <2>2, <2>3 DEF AppInv, TurnInv, StopInv, DeafInv, OpenInv
  <2>7. OpenInv'
    BY <2>1, <2>2, <2>3 DEF AppInv, TurnInv, StopInv, DeafInv, OpenInv, AnswerInv
  <2>8. AnswerInv'
    BY <2>1, <2>2, <2>3 DEF AppInv, TurnInv, DeafInv, OpenInv, AnswerInv
  <2>9. LeaveInv' /\ OnlyWriteFault'
    BY <2>1, <2>2, <2>3 DEF AppInv, TurnInv, DeafInv, OpenInv, AnswerInv, LeaveInv, OnlyWriteFault
  <2> QED
    BY <2>4, <2>5, <2>6, <2>7, <2>8, <2>9
<1>5. CASE NullComm("app")
  <2>1. /\ pc["app"] = "null" /\ pc'["app"] = "unabandon"
        /\ comm' = NoPort /\ writeMutex' = "nobody"
        /\ \A u \in Threads \ {"app"} : pc'[u] = pc[u]
        /\ UNCHANGED <<flags, opened, cancelSig, evDetected, hThread, local, world>>
    BY <1>5, GotoIs DEF NullComm
  <2>2. AppInv' /\ HandleInv' /\ TurnInv'
    BY <2>1 DEF AppInv, HandleInv, TurnInv
  <2>3. TestInv' /\ StopInv'
    BY <2>1 DEF AppInv, TurnInv, TestInv, StopInv
  <2>4. DeafInv'
    BY <2>1 DEF AppInv, TurnInv, StopInv, DeafInv, OpenInv
  <2>5. OpenInv'
    BY <2>1 DEF AppInv, TurnInv, StopInv, DeafInv, OpenInv, AnswerInv
  <2>6. AnswerInv'
    BY <2>1 DEF AppInv, TurnInv, DeafInv, OpenInv, AnswerInv
  <2>7. LeaveInv' /\ OnlyWriteFault'
    BY <2>1 DEF AppInv, TurnInv, DeafInv, OpenInv, AnswerInv, LeaveInv, OnlyWriteFault
  <2> QED
    BY <2>2, <2>3, <2>4, <2>5, <2>6, <2>7
<1>6. CASE Unabandon("app")
  <2>1. /\ pc["app"] = "unabandon" /\ pc'["app"] = "report"
        /\ \A u \in Threads \ {"app"} : pc'[u] = pc[u]
        /\ UNCHANGED <<canceled, testing, port, sync, local, world>>
    BY <1>6, GotoIs DEF Unabandon, AfterDisconnect
  <2>2. AppInv' /\ HandleInv' /\ TurnInv'
    BY <2>1 DEF AppInv, HandleInv, TurnInv
  <2>3. TestInv' /\ StopInv'
    BY <2>1 DEF AppInv, TurnInv, TestInv, StopInv
  <2>4. DeafInv'
    BY <2>1 DEF AppInv, TurnInv, StopInv, DeafInv, OpenInv
  <2>5. OpenInv'
    BY <2>1 DEF AppInv, TurnInv, StopInv, DeafInv, OpenInv, AnswerInv
  <2>6. AnswerInv'
    BY <2>1 DEF AppInv, TurnInv, DeafInv, OpenInv, AnswerInv
  <2>7. LeaveInv' /\ OnlyWriteFault'
    BY <2>1 DEF AppInv, TurnInv, DeafInv, OpenInv, AnswerInv, LeaveInv, OnlyWriteFault
  <2> QED
    BY <2>2, <2>3, <2>4, <2>5, <2>6, <2>7
<1> QED
  BY <1>1, <1>2, <1>3, <1>4, <1>5, <1>6 DEF Disconnect

LEMMA AppFreed ==
  ASSUME TypeOK, FreeInv, OnlyFreed, App \/ SetConfiguration \/ Free
  PROVE  FreeInv'
<1> USE Names DEF FreeInv, At, Nulled, Joined, AliveJoined, Leaving, Deaf, NoComm, NoReader,
                  Searching, Armed, Doomed, Late, Waits, Holding, Unheard, Stopping,
                  flags, port, sync, local, world, reader, device, rest
<1>1. CASE Free
  <2>1. /\ pc["app"] = "idle" /\ pc'["app"] = "abandon" /\ canceled'
        /\ \A u \in Threads \ {"app"} : pc'[u] = pc[u]
        /\ UNCHANGED <<abandoned, testing, port, sync, local, world>>
    BY <1>1, GotoIs DEF Free
  <2>2. AppInv' /\ HandleInv' /\ TurnInv'
    BY <2>1 DEF AppInv, HandleInv, TurnInv
  <2>3. TestInv' /\ StopInv'
    BY <2>1 DEF AppInv, TurnInv, TestInv, StopInv
  <2>4. DeafInv'
    BY <2>1 DEF AppInv, TurnInv, StopInv, DeafInv, OpenInv
  <2>5. OpenInv'
    BY <2>1 DEF AppInv, TurnInv, StopInv, DeafInv, OpenInv, AnswerInv
  <2>6. AnswerInv'
    BY <2>1 DEF AppInv, TurnInv, DeafInv, OpenInv, AnswerInv
  <2>7. LeaveInv' /\ OnlyWriteFault'
    BY <2>1 DEF AppInv, TurnInv, DeafInv, OpenInv, AnswerInv, LeaveInv, OnlyWriteFault
  <2> QED
    BY <2>2, <2>3, <2>4, <2>5, <2>6, <2>7
<1>2. CASE AppReport
  <2>1. /\ pc["app"] = "report" /\ pc'["app"] = "joinAlive"
        /\ \A u \in Threads \ {"app"} : pc'[u] = pc[u]
        /\ UNCHANGED <<flags, port, sync, local, device, overlap, budget, fault>>
    BY <1>2, GotoIs DEF AppReport, Push, AppInv
  <2>2. AppInv' /\ HandleInv' /\ TurnInv'
    BY <2>1 DEF AppInv, HandleInv, TurnInv
  <2>3. TestInv' /\ StopInv'
    BY <2>1 DEF AppInv, TurnInv, TestInv, StopInv
  <2>4. DeafInv'
    BY <2>1 DEF AppInv, TurnInv, StopInv, DeafInv, OpenInv
  <2>5. OpenInv'
    BY <2>1 DEF AppInv, TurnInv, StopInv, DeafInv, OpenInv, AnswerInv
  <2>6. AnswerInv'
    BY <2>1 DEF AppInv, TurnInv, DeafInv, OpenInv, AnswerInv
  <2>7. LeaveInv' /\ OnlyWriteFault'
    BY <2>1 DEF AppInv, TurnInv, DeafInv, OpenInv, AnswerInv, LeaveInv, OnlyWriteFault
  <2> QED
    BY <2>2, <2>3, <2>4, <2>5, <2>6, <2>7
<1>3. CASE Join("app", "joinAlive", "joiningAlive")
  <2>1. /\ pc["app"] = "joinAlive" /\ UNCHANGED rest
        /\ pc'["app"] = (IF pc["alive"] = "off" THEN "joinReceive" ELSE "joiningAlive")
        /\ \A u \in Threads \ {"app"} : pc'[u] = pc[u]
    BY <1>3, GotoIs DEF Join, Jump, Awaited, AfterJoin, HandleInv
  <2>2. AppInv' /\ HandleInv' /\ TurnInv'
    BY <2>1 DEF AppInv, HandleInv, TurnInv
  <2>3. TestInv' /\ StopInv'
    BY <2>1 DEF AppInv, TurnInv, TestInv, StopInv
  <2>4. DeafInv'
    BY <2>1 DEF AppInv, TurnInv, StopInv, DeafInv, OpenInv
  <2>5. OpenInv'
    BY <2>1 DEF AppInv, TurnInv, StopInv, DeafInv, OpenInv, AnswerInv
  <2>6. AnswerInv'
    BY <2>1 DEF AppInv, TurnInv, DeafInv, OpenInv, AnswerInv
  <2>7. LeaveInv' /\ OnlyWriteFault'
    BY <2>1 DEF AppInv, TurnInv, DeafInv, OpenInv, AnswerInv, LeaveInv, OnlyWriteFault
  <2> QED
    BY <2>2, <2>3, <2>4, <2>5, <2>6, <2>7
<1>4. CASE Join("app", "joinReceive", "joiningReceive")
  <2>1. /\ pc["app"] = "joinReceive" /\ UNCHANGED rest
        /\ pc'["app"] = (IF pc["receive"] = "off" THEN "joinConnect" ELSE "joiningReceive")
        /\ \A u \in Threads \ {"app"} : pc'[u] = pc[u]
    BY <1>4, GotoIs DEF Join, Jump, Awaited, AfterJoin, HandleInv
  <2>2. AppInv' /\ HandleInv' /\ TurnInv'
    BY <2>1 DEF AppInv, HandleInv, TurnInv
  <2>3. TestInv' /\ StopInv'
    BY <2>1 DEF AppInv, TurnInv, TestInv, StopInv
  <2>4. DeafInv'
    BY <2>1 DEF AppInv, TurnInv, StopInv, DeafInv, OpenInv
  <2>5. OpenInv'
    BY <2>1 DEF AppInv, TurnInv, StopInv, DeafInv, OpenInv, AnswerInv
  <2>6. AnswerInv'
    BY <2>1 DEF AppInv, TurnInv, DeafInv, OpenInv, AnswerInv
  <2>7. LeaveInv' /\ OnlyWriteFault'
    BY <2>1 DEF AppInv, TurnInv, DeafInv, OpenInv, AnswerInv, LeaveInv, OnlyWriteFault
  <2> QED
    BY <2>2, <2>3, <2>4, <2>5, <2>6, <2>7
<1>5. CASE Join("app", "joinConnect", "joiningConnect")
  <2>1. /\ pc["app"] = "joinConnect" /\ UNCHANGED rest
        /\ pc'["app"] = (IF pc["connect"] = "off" THEN "freed" ELSE "joiningConnect")
        /\ \A u \in Threads \ {"app"} : pc'[u] = pc[u]
    BY <1>5, GotoIs DEF Join, Jump, Awaited, AfterJoin, HandleInv
  <2>2. AppInv' /\ HandleInv' /\ TurnInv'
    BY <2>1 DEF AppInv, HandleInv, TurnInv
  <2>3. TestInv' /\ StopInv'
    BY <2>1 DEF AppInv, TurnInv, TestInv, StopInv
  <2>4. DeafInv'
    BY <2>1 DEF AppInv, TurnInv, StopInv, DeafInv, OpenInv
  <2>5. OpenInv'
    BY <2>1 DEF AppInv, TurnInv, StopInv, DeafInv, OpenInv, AnswerInv
  <2>6. AnswerInv'
    BY <2>1 DEF AppInv, TurnInv, DeafInv, OpenInv, AnswerInv
  <2>7. LeaveInv' /\ OnlyWriteFault'
    BY <2>1 DEF AppInv, TurnInv, DeafInv, OpenInv, AnswerInv, LeaveInv, OnlyWriteFault
  <2> QED
    BY <2>2, <2>3, <2>4, <2>5, <2>6, <2>7
<1>6. pc["app"] \notin {"configure", "restart", "store"} /\ budget.configs = 0
  BY DEF AppInv
<1>7. ~AppConfigure /\ ~AppRestart /\ ~StoreHandle("app")
  BY <1>6 DEF AppConfigure, AppRestart, StoreHandle
<1>8. ~SetConfiguration
  BY <1>6 DEF SetConfiguration
<1> QED
  BY <1>1, <1>2, <1>3, <1>4, <1>5, <1>7, <1>8, DisconnectByApp DEF App, FreeJoin

LEMMA OthersFreed ==
  ASSUME TypeOK, FreeInv, OnlyFreed, Timeout \/ DeviceAnswer \/ DeviceCall \/ DeviceMove
  PROVE  FreeInv'
<1> USE Names DEF FreeInv, At, Nulled, Joined, AliveJoined, Leaving, Deaf, NoComm, NoReader,
                  Searching, Armed, Doomed, Late, Waits, Holding, Unheard, Stopping,
                  flags, port, sync, local, world, reader, device, rest
<1>0. ~DeviceCall
  BY DEF DeviceCall, AppInv
<1>1. CASE DeviceAnswer
  <2>1. /\ asked > 0 /\ asked' = asked - 1 /\ UNCHANGED <<flags, port, sync, pc, local, dev, lastEvent, overlap, budget, fault>>
        /\ line' = IF dev \in opened THEN Append(line, "answer") ELSE line
    BY <1>1 DEF DeviceAnswer, Hear
  <2>2. line = <<>> => Len(line') \in {0, 1}
    BY <2>1
  <2>3. AppInv' /\ HandleInv' /\ TurnInv'
    BY <2>1, <2>2 DEF AppInv, HandleInv, TurnInv
  <2>4. TestInv' /\ StopInv'
    BY <2>1, <2>2 DEF AppInv, TurnInv, TestInv, StopInv
  <2>5. DeafInv'
    BY <2>1, <2>2 DEF AppInv, TurnInv, StopInv, DeafInv, OpenInv
  <2>6. OpenInv'
    BY <2>1, <2>2 DEF AppInv, TurnInv, StopInv, DeafInv, OpenInv, AnswerInv
  <2>7. AnswerInv'
    BY <2>1, <2>2 DEF AppInv, TurnInv, DeafInv, OpenInv, AnswerInv
  <2>8. LeaveInv' /\ OnlyWriteFault'
    BY <2>1, <2>2 DEF AppInv, TurnInv, DeafInv, OpenInv, AnswerInv, LeaveInv, OnlyWriteFault
  <2> QED
    BY <2>3, <2>4, <2>5, <2>6, <2>7, <2>8
<1>2. CASE DeviceMove
  <2>1. /\ asked' = 0 /\ line' = <<>> /\ budget'.calls = budget.calls /\ budget'.configs = budget.configs
        /\ \A u \in Threads : pc'[u] = pc[u]
        /\ UNCHANGED <<flags, port, sync, local, lastEvent, fault>>
    BY <1>2 DEF DeviceMove, TypeOK
  <2>2. AppInv' /\ HandleInv' /\ TurnInv'
    BY <2>1 DEF AppInv, HandleInv, TurnInv
  <2>3. TestInv' /\ StopInv'
    BY <2>1 DEF AppInv, TurnInv, TestInv, StopInv
  <2>4. DeafInv'
    BY <2>1 DEF AppInv, TurnInv, StopInv, DeafInv, OpenInv
  <2>5. OpenInv'
    BY <2>1 DEF AppInv, TurnInv, StopInv, DeafInv, OpenInv, AnswerInv
  <2>6. AnswerInv'
    BY <2>1 DEF AppInv, TurnInv, DeafInv, OpenInv, AnswerInv
  <2>7. LeaveInv' /\ OnlyWriteFault'
    BY <2>1 DEF AppInv, TurnInv, DeafInv, OpenInv, AnswerInv, LeaveInv, OnlyWriteFault
  <2> QED
    BY <2>2, <2>3, <2>4, <2>5, <2>6, <2>7
<1>3. CASE ReadTimeout
  <2>1. pc["connect"] \in {"off", "waiting", "sleep", "joining"}
    BY <1>3 DEF ReadTimeout, TimePasses, Blocked, Joining, OnlyFreed, TypeOK, PcOK, Pcs,
                WorkerPcs, TesterPcs, CloserPcs
  <2>2. /\ pc["receive"] = "reading" /\ pc'["receive"] = "checked" /\ rmsg' = "none"
        /\ \A u \in Threads \ {"receive"} : pc'[u] = pc[u]
        /\ UNCHANGED <<flags, port, sync, oldTesting, idx, world>>
    BY <1>3, GotoIs DEF ReadTimeout
  <2>3. AppInv' /\ HandleInv' /\ TurnInv'
    BY <2>1, <2>2 DEF AppInv, HandleInv, TurnInv
  <2>4. TestInv' /\ StopInv'
    BY <2>1, <2>2 DEF AppInv, TurnInv, TestInv, StopInv
  <2>5. DeafInv'
    BY <2>1, <2>2 DEF AppInv, TurnInv, StopInv, DeafInv, OpenInv
  <2>6. OpenInv'
    BY <2>1, <2>2 DEF AppInv, TurnInv, StopInv, DeafInv, OpenInv, AnswerInv
  <2>7. AnswerInv'
    BY <2>1, <2>2 DEF AppInv, TurnInv, DeafInv, OpenInv, AnswerInv
  <2>8. LeaveInv' /\ OnlyWriteFault'
    BY <2>1, <2>2 DEF AppInv, TurnInv, DeafInv, OpenInv, AnswerInv, LeaveInv, OnlyWriteFault
  <2> QED
    BY <2>3, <2>4, <2>5, <2>6, <2>7, <2>8
<1>4. ASSUME NEW t \in Testers, EchoTimeout(t) PROVE FreeInv'
  <2>1. /\ pc[t] = "waiting" /\ UNCHANGED rest
        /\ pc'[t] = "lost" /\ \A u \in Threads \ {t} : pc'[u] = pc[u]
    BY <1>4, GotoIs DEF EchoTimeout, Jump
  <2>2. asked = 0 /\ \A u \in Threads : Blocked(u)
    BY <1>4 DEF EchoTimeout, TimePasses, OnlyFreed
  <2>3. /\ pc["receive"] = "off" \/ (pc["receive"] = "reading" /\ (rcomm = dev => line = <<>>))
        /\ \A u \in Testers : pc[u] \in {"off", "waiting", "sleep", "joining"}
    <3>1. Blocked("receive") /\ \A u \in Testers : Blocked(u)
      BY <2>2
    <3> QED
      BY <3>1 DEF Blocked, Joining, TypeOK, PcOK, Pcs, WorkerPcs, TesterPcs, CloserPcs
  <2>4. ~evDetected /\ ~Holding
    BY <2>3 DEF AnswerInv
  <2>5. line = <<>> \/ Unheard
    <3>1. CASE pc["receive"] = "off"
      BY <2>1, <2>3, <3>1 DEF DeafInv, TurnInv
    <3>2. CASE pc["receive"] = "reading"
      <4>1. ~Deaf
        BY <3>2
      <4>2. pc["app"] \notin Joined /\ rcomm = comm
        BY <3>2, <4>1 DEF DeafInv
      <4>3. opened = {comm} \ {NoPort}
        BY <2>3, <4>2 DEF OpenInv
      <4> QED
        BY <2>3, <3>2, <4>2, <4>3 DEF AnswerInv
    <3> QED
      BY <2>3, <3>1, <3>2
  <2>6. AppInv' /\ HandleInv' /\ TurnInv'
    BY <2>1 DEF AppInv, HandleInv, TurnInv
  <2>7. TestInv' /\ StopInv'
    BY <2>1 DEF AppInv, TurnInv, TestInv, StopInv
  <2>8. DeafInv'
    BY <2>1, <2>3 DEF AppInv, TurnInv, DeafInv
  <2>10. OpenInv'
    BY <2>1, <2>3, <2>4 DEF AppInv, TurnInv, StopInv, DeafInv, OpenInv, AnswerInv
  <2>11. AnswerInv'
    BY <2>1, <2>2, <2>3, <2>4, <2>5 DEF AppInv, TurnInv, DeafInv, OpenInv, AnswerInv
  <2>12. LeaveInv' /\ OnlyWriteFault'
    BY <2>1, <2>4 DEF AppInv, TurnInv, DeafInv, OpenInv, AnswerInv, LeaveInv, OnlyWriteFault
  <2> QED
    BY <2>6, <2>7, <2>8, <2>10, <2>11, <2>12
<1>5. CASE RetryTimeout
  <2>1. /\ pc["connect"] = "sleep" /\ pc'["connect"] = "round" /\ UNCHANGED rest
        /\ \A u \in Threads \ {"connect"} : pc'[u] = pc[u]
    BY <1>5, GotoIs DEF RetryTimeout, Jump
  <2>2. AppInv' /\ HandleInv' /\ TurnInv'
    BY <2>1 DEF AppInv, HandleInv, TurnInv
  <2>3. TestInv' /\ StopInv'
    BY <2>1 DEF AppInv, TurnInv, TestInv, StopInv
  <2>4. DeafInv'
    BY <2>1 DEF AppInv, TurnInv, StopInv, DeafInv, OpenInv
  <2>5. OpenInv'
    BY <2>1 DEF AppInv, TurnInv, StopInv, DeafInv, OpenInv, AnswerInv
  <2>6. AnswerInv'
    BY <2>1 DEF AppInv, TurnInv, DeafInv, OpenInv, AnswerInv
  <2>7. LeaveInv' /\ OnlyWriteFault'
    BY <2>1 DEF AppInv, TurnInv, DeafInv, OpenInv, AnswerInv, LeaveInv, OnlyWriteFault
  <2> QED
    BY <2>2, <2>3, <2>4, <2>5, <2>6, <2>7
<1>6. \A t \in Testers : ~EchoLate(t)
  BY DEF EchoLate, OnlyFreed
<1> QED
  BY <1>0, <1>1, <1>2, <1>3, <1>4, <1>5, <1>6 DEF Timeout

LEMMA FreeHolds == ASSUME OnlyFreed PROVE SafeSpec => [](TypeOK /\ (overlap \/ FreeInv))
<1>1. TypeOK /\ (overlap \/ FreeInv) /\ [Next]_vars => overlap' \/ FreeInv'
  <2> SUFFICES ASSUME TypeOK, FreeInv, [Next]_vars, ~overlap' PROVE FreeInv'
    BY OverlapStays
  <2>1. CASE Next
    <3>1. \/ Connect \/ Receive \/ Alive \/ (App \/ SetConfiguration \/ Free)
          \/ (Timeout \/ DeviceAnswer \/ DeviceCall \/ DeviceMove)
      BY <2>1 DEF Next
    <3> QED
      BY <3>1, ConnectFreed, ReceiveFreed, AliveFreed, AppFreed, OthersFreed
  <2>2. CASE UNCHANGED vars
    <3> USE <2>2 DEF vars, flags, port, sync, local, world, reader, device, rest, FreeInv
    <3>1. AppInv' /\ HandleInv' /\ TurnInv'
      BY DEF AppInv, HandleInv, TurnInv
    <3>2. TestInv' /\ StopInv'
      BY DEF TestInv, StopInv, At
    <3>3. DeafInv'
      BY DEF DeafInv, NoReader, NoComm, At, Deaf, Leaving, Stopping
    <3>4. OpenInv'
      BY DEF OpenInv, NoComm, At, Deaf, Leaving
    <3>5. AnswerInv'
      BY DEF AnswerInv, Waits, At, Holding, Unheard, Deaf, Leaving
    <3>6. LeaveInv' /\ OnlyWriteFault'
      BY DEF LeaveInv, OnlyWriteFault
    <3> QED
      BY <3>1, <3>2, <3>3, <3>4, <3>5, <3>6
  <2> QED
    BY <2>1, <2>2
<1> QED
  BY <1>1, InitFreed, ConnectionTypeCorrect, PTL DEF SafeSpec

-----------------------------------------------------------------------------
\* IcBox_free, called at any moment, closes every port the library ever opened
\* and ends every thread it ever started, before it frees what they use; unless
\* an alive test was started while a search went on.
THEOREM FreeLeavesNothing == ASSUME OnlyFreed PROVE SafeSpec => []FreedClean
<1>1. TypeOK /\ (overlap \/ FreeInv) => FreedClean
  BY Names DEF FreeInv, OpenInv, LeaveInv, FreedClean, Nulled, Joined, AliveJoined, Doomed, Late
<1> QED
  BY <1>1, FreeHolds, PTL

\* Whenever IcBox_free is called, and until an alive test is started while a
\* search goes on, the only thing that can go wrong is the echo test that writes
\* to a port IcBox_free has closed (the run free_while_connecting): nobody reads
\* a null port, no port is closed while it is read, and no thread is started
\* twice.
THEOREM FreeFaultsInWrite == ASSUME OnlyFreed PROVE SafeSpec => [](overlap \/ OnlyWriteFault)
<1>1. TypeOK /\ (overlap \/ FreeInv) => overlap \/ OnlyWriteFault
  BY DEF FreeInv
<1> QED
  BY <1>1, FreeHolds, PTL

=============================================================================
