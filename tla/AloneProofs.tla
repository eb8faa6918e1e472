---------------------------- MODULE AloneProofs ----------------------------
(***************************************************************************)
(* What holds of an instance that the application leaves alone, for any    *)
(* list of ports, any number of calls and moves of the device, of reads,   *)
(* writes and opens that fail and of timeouts at any moment, if handles    *)
(* are stored at once and until an alive test is started while a search    *)
(* goes on (overlap).  The argument is that thConnect and thAlive take     *)
(* turns: only one of them ever works, so the label it is at says what     *)
(* port, reader and flags are like.                                        *)
(***************************************************************************)
EXTENDS ConnectionProofs

LeftAlone == ~AppFrees /\ MaxConfigs = 0 /\ PromptStore

\* The application has nothing to do and nothing went wrong.
QuietInv == pc["app"] = "idle" /\ ~canceled /\ budget.configs = 0 /\ fault = "none"

\* A handle is set as long as its thread runs.
HandleInv == \A w \in Workers : (w \in hThread <=> pc[w] # "off") /\ pc[w] # "store"

\* The two threads that disconnect and test take turns.
TurnInv == pc["connect"] = "off" \/ pc["alive"] \in {"off", "exit"}

\* One of them is at one of these labels.
At(labels) == pc["connect"] \in labels \/ pc["alive"] \in labels

DisconnectInv ==
  /\ abandoned <=> At({"cancel", "join", "joining", "free", "null", "unabandon"})
  /\ \A t \in Testers : writeMutex = t <=> pc[t] = "null"
  /\ writeMutex # "app"

Searching == {"entry", "round", "open", "next", "tail", "sleep"}

\* No port is open, or nobody reads it.
NoComm == pc["connect"] \in Searching \/ pc["alive"] \in {"report", "restart"} \/ At({"unabandon"})

NoReader == NoComm \/ pc["connect"] = "start" \/ At({"free", "null"})

PortInv ==
  /\ comm = NoPort <=> NoComm
  /\ opened = IF At({"null"}) THEN {} ELSE {comm} \ {NoPort}
  /\ cancelSig # {} => At({"join", "joining", "free"})
  /\ cancelSig \subseteq opened

ReaderInv ==
  /\ NoReader => pc["receive"] = "off"
  /\ pc["receive"] = "off" => NoReader \/ At({"cancel", "join"})
  /\ pc["receive"] = "exit" => abandoned
  /\ pc["receive"] = "reading" => rcomm = comm

Armed == {"send", "wait", "waiting", "found", "lost"}

TestInv ==
  /\ testing <=> At(Armed)
  /\ \A t \in Testers : pc[t] \in Armed \union {"arm"} => ~oldTesting[t]

EventInv ==
  lastEvent = "connected" <=> pc["connect"] \in {"exit", "off"} /\ pc["alive"] # "restart"

AloneInv ==
  /\ QuietInv /\ HandleInv /\ TurnInv /\ DisconnectInv /\ PortInv /\ ReaderInv
  /\ TestInv /\ EventInv

-----------------------------------------------------------------------------
LEMMA Names ==
  /\ Threads = {"connect", "receive", "alive", "app"}
  /\ Workers = {"connect", "receive", "alive"}
  /\ Testers = {"connect", "alive"}
  /\ Closers = {"connect", "alive", "app"}
BY DEF Threads, Workers, Testers, Closers

LEMMA GotoIs ==
  ASSUME TypeOK, NEW t \in Threads, NEW next, Goto(t, next)
  PROVE  pc'[t] = next /\ \A u \in Threads \ {t} : pc'[u] = pc[u]
BY DEF TypeOK, PcOK, Goto

LEMMA InitAlone == Init /\ LeftAlone => AloneInv
<1> SUFFICES ASSUME Init, LeftAlone PROVE AloneInv
  OBVIOUS
<1>1. pc["connect"] = "entry" /\ pc["app"] = "idle" /\ pc["receive"] = "off" /\ pc["alive"] = "off"
  BY Names DEF Init
<1>2. QuietInv /\ HandleInv /\ TurnInv /\ DisconnectInv /\ EventInv
  BY <1>1, Names DEF Init, LeftAlone, QuietInv, HandleInv, TurnInv, DisconnectInv, EventInv, At
<1>3. PortInv /\ ReaderInv /\ TestInv
  BY <1>1, Names DEF Init, PortInv, ReaderInv, TestInv, At, NoComm, NoReader, Searching, Armed
<1> QED
  BY <1>2, <1>3 DEF AloneInv

LEMMA DisconnectAlone ==
  ASSUME TypeOK, AloneInv, LeftAlone, NEW t \in Testers, Disconnect(t)
  PROVE  AloneInv'
<1> USE Names DEF AloneInv, QuietInv, HandleInv, TurnInv, DisconnectInv, PortInv, ReaderInv,
                  TestInv, EventInv, At, NoComm, NoReader, Searching, Armed,
                  flags, port, sync, local, world, reader, device, rest
<1>0. t \in Threads
  OBVIOUS
<1>1. CASE Abandon(t)
  <2>1. pc'[t] = "cancel" /\ \A u \in Threads \ {t} : pc'[u] = pc[u]
    BY <1>0, <1>1, GotoIs DEF Abandon
  <2> QED
    BY <1>1, <2>1 DEF Abandon
<1>2. CASE CancelIo(t)
  <2>1. pc'[t] = "join" /\ \A u \in Threads \ {t} : pc'[u] = pc[u]
    BY <1>0, <1>2, GotoIs DEF CancelIo
  <2> QED
    BY <1>2, <2>1 DEF CancelIo
<1>3. CASE JoinReceive(t)
  <2>1. /\ pc[t] = "join" /\ UNCHANGED rest
        /\ pc'[t] = (IF pc["receive"] = "off" THEN "free" ELSE "joining")
        /\ \A u \in Threads \ {t} : pc'[u] = pc[u]
    BY <1>0, <1>3, GotoIs DEF JoinReceive, Join, Jump, Awaited, AfterJoin
  <2> QED
    BY <2>1
<1>4. CASE FreeComm(t)
  <2>1. pc["receive"] = "off"
    BY <1>4 DEF FreeComm
  <2>2. pc'[t] = "null" /\ \A u \in Threads \ {t} : pc'[u] = pc[u]
    BY <1>0, <1>4, <2>1, GotoIs DEF FreeComm
  <2> QED
    BY <1>4, <2>1, <2>2 DEF FreeComm
<1>5. CASE NullComm(t)
  <2>1. pc'[t] = "unabandon" /\ \A u \in Threads \ {t} : pc'[u] = pc[u]
    BY <1>0, <1>5, GotoIs DEF NullComm
  <2> QED
    BY <1>5, <2>1 DEF NullComm
<1>6. CASE Unabandon(t)
  <2>1. /\ pc'[t] = (IF t = "connect" THEN "next" ELSE "report")
        /\ \A u \in Threads \ {t} : pc'[u] = pc[u]
    BY <1>0, <1>6, GotoIs DEF Unabandon, AfterDisconnect
  <2> QED
    BY <1>6, <2>1 DEF Unabandon
<1> QED
  BY <1>1, <1>2, <1>3, <1>4, <1>5, <1>6 DEF Disconnect

LEMMA EchoTestAlone ==
  ASSUME TypeOK, AloneInv, LeftAlone, NEW t \in Testers, EchoTest(t)
  PROVE  AloneInv'
<1> USE Names DEF AloneInv, QuietInv, HandleInv, TurnInv, DisconnectInv, PortInv, ReaderInv,
                  TestInv, EventInv, At, NoComm, NoReader, Searching, Armed,
                  flags, port, sync, local, world, reader, device, rest
<1>1. CASE EchoBegin(t)
  <2>1. pc'[t] = "arm" /\ \A u \in Threads \ {t} : pc'[u] = pc[u]
    BY <1>1, GotoIs DEF EchoBegin
  <2>2. ~testing
    BY <1>1 DEF EchoBegin
  <2>3. ~oldTesting'[t] /\ \A u \in Testers \ {t} : oldTesting'[u] = oldTesting[u]
    BY <1>1, <2>2 DEF EchoBegin, TypeOK
  <2> QED
    BY <1>1, <2>1, <2>2, <2>3 DEF EchoBegin
<1>2. CASE EchoArm(t)
  <2>1. pc'[t] = "send" /\ \A u \in Threads \ {t} : pc'[u] = pc[u]
    BY <1>2, GotoIs DEF EchoArm
  <2> QED
    BY <1>2, <2>1 DEF EchoArm
<1>3. CASE EchoSend(t)
  <2>1. comm # NoPort
    BY <1>3 DEF EchoSend
  <2>2. pc'[t] = "wait" /\ \A u \in Threads \ {t} : pc'[u] = pc[u]
    BY <1>3, <2>1, GotoIs DEF EchoSend
  <2>3. /\ cancelSig' \subseteq cancelSig /\ budget'.configs = budget.configs
        /\ UNCHANGED <<flags, comm, opened, sync, local, dev, line, lastEvent, overlap, fault>>
    BY <1>3, <2>1 DEF EchoSend, Fails, TypeOK
  <2> QED
    BY <1>3, <2>1, <2>2, <2>3 DEF EchoSend
<1>4. CASE EchoWait(t)
  <2>1. /\ pc'[t] = (IF evDetected THEN "found" ELSE "waiting")
        /\ \A u \in Threads \ {t} : pc'[u] = pc[u]
    BY <1>4, GotoIs DEF EchoWait
  <2> QED
    BY <1>4, <2>1 DEF EchoWait
<1>5. CASE EchoEnd(t)
  <2>1. CASE t = "connect"
    <3>1. /\ pc'[t] = (IF pc[t] = "found" THEN "up" ELSE "abandon")
          /\ \A u \in Threads \ {t} : pc'[u] = pc[u]
      BY <1>5, <2>1, GotoIs DEF EchoEnd, AfterEcho
    <3> QED
      BY <1>5, <2>1, <3>1 DEF EchoEnd
  <2>2. CASE t = "alive"
    <3>1. /\ pc'[t] = (IF pc[t] = "found" THEN "exit" ELSE "missed")
          /\ \A u \in Threads \ {t} : pc'[u] = pc[u]
      BY <1>5, <2>2, GotoIs DEF EchoEnd, AfterEcho
    <3> QED
      BY <1>5, <2>2, <3>1 DEF EchoEnd
  <2> QED
    BY <2>1, <2>2
<1> QED
  BY <1>1, <1>2, <1>3, <1>4, <1>5 DEF EchoTest

\* Handles are true, so a thread is started, or its start dropped, as its label
\* says, and never twice.
LEMMA StartThreadIs ==
  ASSUME TypeOK, HandleInv, PromptStore, NEW t \in Threads, NEW w \in Workers, t # w, NEW next,
         StartThread(t, w, next)
  PROVE  /\ UNCHANGED fault
         /\ pc'[t] = next
         /\ pc'[w] = (IF pc[w] = "off" THEN "entry" ELSE pc[w])
         /\ \A u \in Threads \ {t, w} : pc'[u] = pc[u]
         /\ hThread' = hThread \union {w}
<1>1. w \in hThread <=> pc[w] # "off"
  BY DEF HandleInv
<1>2. CASE pc[w] # "off"
  <2>1. Goto(t, next) /\ UNCHANGED <<hThread, fault>> /\ w \in hThread
    BY <1>1, <1>2 DEF StartThread
  <2>2. pc'[t] = next /\ \A u \in Threads \ {t} : pc'[u] = pc[u]
    BY <2>1, GotoIs
  <2>3. w \in Threads
    BY Names
  <2> QED
    BY <1>2, <2>1, <2>2, <2>3
<1>3. CASE pc[w] = "off"
  BY <1>1, <1>3, Names DEF StartThread, TypeOK, PcOK
<1> QED
  BY <1>2, <1>3

\* A thread that ends wakes those who wait for it.
LEMMA ThreadEndAlone ==
  ASSUME TypeOK, AloneInv, LeftAlone, NEW w \in Workers, ThreadEnd(w)
  PROVE  AloneInv'
<1> USE Names DEF AloneInv, QuietInv, HandleInv, TurnInv, DisconnectInv, PortInv, ReaderInv,
                  TestInv, EventInv, At, NoComm, NoReader, Searching, Armed,
                  flags, port, sync, local, world, reader, device, rest
<1>1. /\ pc[w] = "exit" /\ pc'[w] = "off"
      /\ \A u \in Threads \ {w} :
           pc'[u] = IF u \in Testers /\ pc[u] = "joining" /\ w = "receive" THEN "free" ELSE pc[u]
  <2>1. \A u \in Threads : pc[u] \in Joining => u \in Testers /\ pc[u] = "joining"
    BY DEF TypeOK, PcOK, Pcs, Joining, WorkerPcs, TesterPcs, CloserPcs
  <2> QED
    BY <2>1 DEF ThreadEnd, Joining, Awaited, AfterJoin
<1>2. hThread' = hThread \ {w} /\ UNCHANGED <<flags, port, evDetected, writeMutex, local, world>>
  BY DEF ThreadEnd
<1>3. CASE w = "connect"
  BY <1>1, <1>2, <1>3
<1>4. CASE w = "receive"
  BY <1>1, <1>2, <1>4
<1>5. CASE w = "alive"
  BY <1>1, <1>2, <1>5
<1> QED
  BY <1>3, <1>4, <1>5

LEMMA ConnectAlone ==
  ASSUME TypeOK, AloneInv, LeftAlone, Connect
  PROVE  AloneInv'
<1> USE Names DEF AloneInv, QuietInv, HandleInv, TurnInv, DisconnectInv, PortInv, ReaderInv,
                  TestInv, EventInv, At, NoComm, NoReader, Searching, Armed,
                  flags, port, sync, local, world, reader, device, rest
<1>0. ~Stopping \/ pc["connect"] \notin {"entry", "round", "next", "tail"}
  BY DEF Stopping
<1>1. CASE ConnectEntry
  <2>1. pc'["connect"] = "round" /\ \A u \in Threads \ {"connect"} : pc'[u] = pc[u]
    BY <1>0, <1>1, GotoIs DEF ConnectEntry, Jump
  <2> QED
    BY <1>1, <2>1 DEF ConnectEntry, Jump
<1>2. CASE ConnectRound
  <2>1. pc'["connect"] = "open" /\ \A u \in Threads \ {"connect"} : pc'[u] = pc[u]
    BY <1>0, <1>2, GotoIs DEF ConnectRound
  <2> QED
    BY <1>2, <2>1 DEF ConnectRound
<1>3. CASE ConnectOpen
  <2>1. /\ pc["connect"] = "open" /\ budget'.configs = budget.configs
        /\ UNCHANGED <<flags, cancelSig, sync, local, device, lastEvent, overlap, fault>>
    BY <1>3 DEF ConnectOpen, Fails, TypeOK
  <2>2. CASE /\ comm' = PortList[idx] /\ opened' = opened \union {PortList[idx]}
             /\ Goto("connect", "start")
    <3>1. PortList[idx] # NoPort
      BY NoPortIsNone DEF TypeOK, Ports
    <3>2. pc'["connect"] = "start" /\ \A u \in Threads \ {"connect"} : pc'[u] = pc[u]
      BY <2>2, GotoIs
    <3> QED
      BY <2>1, <2>2, <3>1, <3>2
  <2>3. CASE Goto("connect", "next") /\ UNCHANGED <<comm, opened>>
    <3>1. pc'["connect"] = "next" /\ \A u \in Threads \ {"connect"} : pc'[u] = pc[u]
      BY <2>3, GotoIs
    <3> QED
      BY <2>1, <2>3, <3>1
  <2> QED
    BY <1>3, <2>2, <2>3 DEF ConnectOpen
<1>4. CASE ConnectStart
  <2>1. /\ UNCHANGED fault /\ hThread' = hThread \union {"receive"}
        /\ pc'["connect"] = "echo" /\ pc'["receive"] = "entry"
        /\ \A u \in Threads \ {"connect", "receive"} : pc'[u] = pc[u]
    BY <1>4, StartThreadIs DEF ConnectStart, LeftAlone
  <2> QED
    BY <1>4, <2>1 DEF ConnectStart
<1>5. CASE ConnectUp
  <2>1. pc'["connect"] = "exit" /\ \A u \in Threads \ {"connect"} : pc'[u] = pc[u]
    BY <1>5, GotoIs DEF ConnectUp, Push
  <2> QED
    BY <1>5, <2>1 DEF ConnectUp, Push
<1>6. CASE ConnectNext
  <2>1. pc'["connect"] \in {"open", "tail"} /\ \A u \in Threads \ {"connect"} : pc'[u] = pc[u]
    BY <1>6, GotoIs DEF ConnectNext
  <2> QED
    BY <1>6, <2>1 DEF ConnectNext
<1>7. CASE ConnectTail
  <2>1. pc'["connect"] = "sleep" /\ \A u \in Threads \ {"connect"} : pc'[u] = pc[u]
    BY <1>0, <1>7, GotoIs DEF ConnectTail, Jump
  <2> QED
    BY <1>7, <2>1 DEF ConnectTail, Jump
<1> QED
  BY <1>1, <1>2, <1>3, <1>4, <1>5, <1>6, <1>7, EchoTestAlone, DisconnectAlone, ThreadEndAlone
     DEF Connect, StoreHandle

LEMMA ReceiveAlone ==
  ASSUME TypeOK, AloneInv, LeftAlone, Receive, ~overlap'
  PROVE  AloneInv'
<1> USE Names DEF AloneInv, QuietInv, HandleInv, TurnInv, DisconnectInv, PortInv, ReaderInv,
                  TestInv, EventInv, At, NoComm, NoReader, Searching, Armed,
                  flags, port, sync, local, world, reader, device, rest
<1>1. CASE ReceiveEntry
  <2>1. pc'["receive"] = "loop" /\ \A u \in Threads \ {"receive"} : pc'[u] = pc[u]
    BY <1>1, GotoIs DEF ReceiveEntry, Jump
  <2> QED
    BY <1>1, <2>1 DEF ReceiveEntry, Jump
<1>2. CASE ReceiveLoop
  <2>1. /\ pc'["receive"] = (IF abandoned THEN "exit" ELSE "read")
        /\ \A u \in Threads \ {"receive"} : pc'[u] = pc[u]
    BY <1>2, GotoIs DEF ReceiveLoop, Jump, Stopping
  <2> QED
    BY <1>2, <2>1 DEF ReceiveLoop, Jump
<1>3. CASE ReceiveRead
  <2>1. comm # NoPort
    BY <1>3 DEF ReceiveRead
  <2>2. pc'["receive"] = "reading" /\ \A u \in Threads \ {"receive"} : pc'[u] = pc[u]
    BY <1>3, <2>1, GotoIs DEF ReceiveRead
  <2> QED
    BY <1>3, <2>1, <2>2 DEF ReceiveRead
<1>4. CASE ReceiveData
  <2>1. pc'["receive"] = "checked" /\ \A u \in Threads \ {"receive"} : pc'[u] = pc[u]
    BY <1>4, GotoIs DEF ReceiveData
  <2> QED
    BY <1>4, <2>1 DEF ReceiveData
<1>5. CASE ReceiveCanceled
  <2>1. pc'["receive"] = "checked" /\ \A u \in Threads \ {"receive"} : pc'[u] = pc[u]
    BY <1>5, GotoIs DEF ReceiveCanceled
  <2> QED
    BY <1>5, <2>1 DEF ReceiveCanceled
<1>6. CASE ReceiveChecked
  <2>1. /\ pc["receive"] = "checked" /\ UNCHANGED rest
        /\ pc'["receive"] \in {"loop", "silent", "execute"}
        /\ \A u \in Threads \ {"receive"} : pc'[u] = pc[u]
    BY <1>6, GotoIs DEF ReceiveChecked, Jump, Stopping
  <2> QED
    BY <2>1
<1>7. CASE ReceiveSilent
  <2>1. CASE testing
    <3>1. pc'["receive"] = "loop" /\ \A u \in Threads \ {"receive"} : pc'[u] = pc[u]
      BY <1>7, <2>1, GotoIs DEF ReceiveSilent
    <3> QED
      BY <1>7, <2>1, <3>1 DEF ReceiveSilent
  <2>2. CASE ~testing
    <3>1. /\ UNCHANGED fault /\ hThread' = hThread \union {"alive"}
          /\ pc'["receive"] = "loop"
          /\ pc'["alive"] = (IF pc["alive"] = "off" THEN "entry" ELSE pc["alive"])
          /\ \A u \in Threads \ {"receive", "alive"} : pc'[u] = pc[u]
      BY <1>7, <2>2, StartThreadIs DEF ReceiveSilent, LeftAlone
    <3>2. pc["alive"] # "off" \/ pc["connect"] = "off"
      BY <1>7, <2>2 DEF ReceiveSilent
    <3> QED
      BY <1>7, <2>2, <3>1, <3>2 DEF ReceiveSilent
  <2> QED
    BY <2>1, <2>2
<1>8. CASE ReceiveExecute
  <2> DEFINE next == IF rmsg = "answer" THEN "loop" ELSE "judge"
  <2>1. /\ PostDetected(next) /\ next \in {"loop", "judge"} /\ pc["receive"] = "execute"
        /\ UNCHANGED <<flags, port, writeMutex, hThread, local, world>>
    BY <1>8 DEF ReceiveExecute
  <2> HIDE DEF next
  <2>2. CASE Goto("receive", next)
    <3>1. pc'["receive"] = next /\ \A u \in Threads \ {"receive"} : pc'[u] = pc[u]
      BY <2>2, GotoIs
    <3> QED
      BY <2>1, <3>1
  <2>3. ASSUME NEW t \in Testers, pc[t] = "waiting",
               pc' = [pc EXCEPT !["receive"] = next, ![t] = "found"]
        PROVE  AloneInv'
    <3>1. /\ pc'["receive"] = next /\ pc'[t] = "found"
          /\ \A u \in Threads \ {"receive", t} : pc'[u] = pc[u]
      BY <2>3 DEF TypeOK, PcOK
    <3>2. CASE t = "connect"
      BY <2>1, <2>3, <3>1, <3>2
    <3>3. CASE t = "alive"
      BY <2>1, <2>3, <3>1, <3>3
    <3> QED
      BY <3>2, <3>3
  <2> QED
    BY <2>1, <2>2, <2>3 DEF PostDetected
<1>9. CASE ReceiveJudge
  <2>1. /\ pc["receive"] = "judge" /\ UNCHANGED rest
        /\ pc'["receive"] \in {"loop", "withdraw"}
        /\ \A u \in Threads \ {"receive"} : pc'[u] = pc[u]
    BY <1>9, GotoIs DEF ReceiveJudge, Jump
  <2> QED
    BY <2>1
<1>10. CASE ReceiveWithdraw
  <2>1. pc'["receive"] = "push" /\ \A u \in Threads \ {"receive"} : pc'[u] = pc[u]
    BY <1>10, GotoIs DEF ReceiveWithdraw
  <2> QED
    BY <1>10, <2>1 DEF ReceiveWithdraw
<1>11. CASE ReceivePush
  <2>1. pc'["receive"] = "loop" /\ \A u \in Threads \ {"receive"} : pc'[u] = pc[u]
    BY <1>11, GotoIs DEF ReceivePush, Push
  <2> QED
    BY <1>11, <2>1 DEF ReceivePush, Push
<1>12. CASE ReceiveFailed
  <2>1. pc'["receive"] = "checked" /\ \A u \in Threads \ {"receive"} : pc'[u] = pc[u]
    BY <1>12, GotoIs DEF ReceiveFailed
  <2>2. budget'.configs = budget.configs
    BY <1>12 DEF ReceiveFailed, Fails, TypeOK
  <2> QED
    BY <1>12, <2>1, <2>2 DEF ReceiveFailed
<1> QED
  BY <1>1, <1>2, <1>3, <1>4, <1>5, <1>6, <1>7, <1>8, <1>9, <1>10, <1>11, <1>12, ThreadEndAlone
     DEF Receive, StoreHandle

LEMMA AliveAlone ==
  ASSUME TypeOK, AloneInv, LeftAlone, Alive
  PROVE  AloneInv'
<1> USE Names DEF AloneInv, QuietInv, HandleInv, TurnInv, DisconnectInv, PortInv, ReaderInv,
                  TestInv, EventInv, At, NoComm, NoReader, Searching, Armed,
                  flags, port, sync, local, world, reader, device, rest
<1>1. CASE AliveEntry
  <2>1. pc'["alive"] = "echo" /\ \A u \in Threads \ {"alive"} : pc'[u] = pc[u]
    BY <1>1, GotoIs DEF AliveEntry, Jump
  <2> QED
    BY <1>1, <2>1 DEF AliveEntry, Jump
<1>2. CASE AliveMissed
  <2>1. pc'["alive"] = "abandon" /\ \A u \in Threads \ {"alive"} : pc'[u] = pc[u]
    BY <1>2, GotoIs DEF AliveMissed, Jump
  <2> QED
    BY <1>2, <2>1 DEF AliveMissed, Jump
<1>3. CASE AliveReport
  <2>1. pc'["alive"] = "restart" /\ \A u \in Threads \ {"alive"} : pc'[u] = pc[u]
    BY <1>3, GotoIs DEF AliveReport, Push
  <2> QED
    BY <1>3, <2>1 DEF AliveReport, Push
<1>4. CASE AliveRestart
  <2>1. pc["connect"] = "off"
    BY <1>4 DEF AliveRestart
  <2>2. /\ UNCHANGED fault /\ hThread' = hThread \union {"connect"}
        /\ pc'["alive"] = "exit" /\ pc'["connect"] = "entry"
        /\ \A u \in Threads \ {"alive", "connect"} : pc'[u] = pc[u]
    BY <1>4, <2>1, StartThreadIs DEF AliveRestart, LeftAlone
  <2> QED
    BY <1>4, <2>1, <2>2 DEF AliveRestart
<1> QED
  BY <1>1, <1>2, <1>3, <1>4, EchoTestAlone, DisconnectAlone, ThreadEndAlone DEF Alive, StoreHandle

LEMMA OthersAlone ==
  ASSUME TypeOK, AloneInv, LeftAlone,
         App \/ SetConfiguration \/ Free \/ Timeout \/ DeviceAnswer \/ DeviceCall \/ DeviceMove
  PROVE  AloneInv'
<1> USE Names DEF AloneInv, QuietInv, HandleInv, TurnInv, DisconnectInv, PortInv, ReaderInv,
                  TestInv, EventInv, At, NoComm, NoReader, Searching, Armed,
                  flags, port, sync, local, world, reader, device, rest
<1>1. ~App /\ ~SetConfiguration /\ ~Free
  BY DEF App, AppConfigure, Disconnect, Abandon, CancelIo, JoinReceive, Join, Jump, FreeComm,
         NullComm, Unabandon, AppReport, AppRestart, FreeJoin, StoreHandle, SetConfiguration,
         Free, LeftAlone
<1>2. CASE DeviceAnswer \/ DeviceCall
  BY <1>2 DEF DeviceAnswer, DeviceCall, TypeOK
<1>3. CASE DeviceMove
  BY <1>3 DEF DeviceMove, TypeOK
<1>4. CASE ReadTimeout
  <2>1. pc'["receive"] = "checked" /\ \A u \in Threads \ {"receive"} : pc'[u] = pc[u]
    BY <1>4, GotoIs DEF ReadTimeout
  <2> QED
    BY <1>4, <2>1 DEF ReadTimeout
<1>5. ASSUME NEW t \in Testers, EchoTimeout(t) \/ EchoLate(t) PROVE AloneInv'
  <2>1. /\ pc[t] = "waiting" /\ budget'.configs = budget.configs
        /\ UNCHANGED <<flags, port, sync, local, device, lastEvent, overlap, fault>>
        /\ pc'[t] = "lost" /\ \A u \in Threads \ {t} : pc'[u] = pc[u]
    BY <1>5, GotoIs DEF EchoTimeout, EchoLate, Jump, Fails, TypeOK
  <2>2. CASE t = "connect"
    BY <2>1, <2>2
  <2>3. CASE t = "alive"
    BY <2>1, <2>3
  <2> QED
    BY <2>2, <2>3
<1>6. CASE RetryTimeout
  <2>1. pc'["connect"] = "round" /\ \A u \in Threads \ {"connect"} : pc'[u] = pc[u]
    BY <1>6, GotoIs DEF RetryTimeout, Jump
  <2> QED
    BY <1>6, <2>1 DEF RetryTimeout, Jump
<1> QED
  BY <1>1, <1>2, <1>3, <1>4, <1>5, <1>6 DEF Timeout

\* Once set, overlap stays set.
LEMMA OverlapStays == ASSUME overlap, [Next]_vars PROVE overlap'
<1> USE DEF flags, port, sync, local, world, reader, device, rest
<1>1. \A t \in Closers : Disconnect(t) => overlap'
  BY DEF Disconnect, Abandon, CancelIo, JoinReceive, Join, Jump, FreeComm, Crash, NullComm,
         Unabandon
<1>2. \A t \in Testers : EchoTest(t) => overlap'
  BY DEF EchoTest, EchoBegin, EchoArm, EchoSend, Crash, EchoWait, EchoEnd
<1>3. \A t \in Threads : StoreHandle(t) \/ ThreadEnd(t) => overlap'
  BY DEF StoreHandle, ThreadEnd
<1>4. Connect => overlap'
  BY <1>1, <1>2, <1>3, Names
     DEF Connect, ConnectEntry, ConnectRound, ConnectOpen, ConnectStart, ConnectUp, Push,
         ConnectNext, ConnectTail, Jump
<1>5. Receive => overlap'
  BY <1>3, Names
     DEF Receive, ReceiveEntry, ReceiveLoop, ReceiveRead, Crash, ReceiveData, ReceiveCanceled,
         ReceiveFailed, ReceiveChecked, ReceiveSilent, ReceiveExecute, ReceiveJudge,
         ReceiveWithdraw, ReceivePush, Push, Jump
<1>6. Alive => overlap'
  BY <1>1, <1>2, <1>3, Names
     DEF Alive, AliveEntry, AliveMissed, AliveReport, AliveRestart, Push, Jump
<1>7. App \/ SetConfiguration \/ Free => overlap'
  BY <1>1, <1>3, Names
     DEF App, AppConfigure, Crash, AppReport, Push, AppRestart, FreeJoin, Join, Jump,
         SetConfiguration, Free
<1>8. Timeout \/ DeviceAnswer \/ DeviceCall \/ DeviceMove => overlap'
  BY DEF Timeout, ReadTimeout, EchoTimeout, EchoLate, RetryTimeout, Jump, DeviceAnswer,
         DeviceCall, DeviceMove
<1> QED
  BY <1>4, <1>5, <1>6, <1>7, <1>8 DEF Next, vars

LEMMA AloneHolds == ASSUME LeftAlone PROVE SafeSpec => [](TypeOK /\ (overlap \/ AloneInv))
<1>1. TypeOK /\ (overlap \/ AloneInv) /\ [Next]_vars => overlap' \/ AloneInv'
  <2> SUFFICES ASSUME TypeOK, AloneInv, [Next]_vars, ~overlap' PROVE AloneInv'
    BY OverlapStays
  <2>1. CASE Next
    BY <2>1, ConnectAlone, ReceiveAlone, AliveAlone, OthersAlone DEF Next
  <2>2. CASE UNCHANGED vars
    BY <2>2 DEF vars, AloneInv, QuietInv, HandleInv, TurnInv, DisconnectInv, PortInv, ReaderInv,
                TestInv, EventInv, At, NoComm, NoReader, Searching, Armed,
                flags, port, sync, local, world, reader, device, rest
  <2> QED
    BY <2>1, <2>2
<1> QED
  BY <1>1, InitAlone, ConnectionTypeCorrect, PTL DEF SafeSpec

-----------------------------------------------------------------------------
(***************************************************************************)
(* What the invariant says of an instance that is left alone.  Each of the *)
(* properties holds until an alive test is started while a search goes on, *)
(* which takes a read that fails at the wrong moment; see Connection.      *)
(***************************************************************************)

\* Until tests overlap, thReceive, the search and the alive test never use a null
\* port, close one that is being read, or start a thread twice.
THEOREM AloneNoFault == ASSUME LeftAlone PROVE SafeSpec => []NoFault
<1>1. TypeOK /\ (overlap \/ AloneInv) => NoFault
  BY DEF AloneInv, QuietInv, NoFault
<1> QED
  BY <1>1, AloneHolds, PTL

\* Until tests overlap, thReceive reads lib->comm, and its port is open until it
\* has returned, however disconnects, timeouts, records and failing reads and
\* writes interleave.
THEOREM AloneReadsOpenPort == ASSUME LeftAlone PROVE SafeSpec => []ReadsOpenPort
<1>1. TypeOK /\ (overlap \/ AloneInv) => ReadsOpenPort
  BY DEF AloneInv, PortInv, ReaderInv, NoReader, NoComm, At, ReadsOpenPort
<1> QED
  BY <1>1, AloneHolds, PTL

\* Until tests overlap, testing, saved and restored without a lock, is not left
\* set, whatever reads, writes and waits fail.
THEOREM AloneTestingEnds == ASSUME LeftAlone PROVE SafeSpec => []TestingEnds
<1>1. TypeOK /\ (overlap \/ AloneInv) => TestingEnds
  BY Names DEF AloneInv, TestInv, At, Armed, TestingEnds
<1> QED
  BY <1>1, AloneHolds, PTL

\* Until tests overlap, there is always a thread that reads an open port,
\* searches, or is about to restart the search: no interleaving of their ends
\* and starts loses the last.
THEOREM AloneAlert == ASSUME LeftAlone PROVE SafeSpec => []Alert
<1>1. TypeOK /\ (overlap \/ AloneInv) => Alert
  BY Names DEF AloneInv, QuietInv, DisconnectInv, PortInv, ReaderInv, NoReader, NoComm, At,
               Searching, Alert, CloserPcs
<1> QED
  BY <1>1, AloneHolds, PTL

\* Until tests overlap, the application is told of connections and losses in turn.
THEOREM AloneEventsAlternate == ASSUME LeftAlone PROVE SafeSpec => []EventsAlternate
<1>1. TypeOK /\ (overlap \/ AloneInv) => EventsAlternate
  BY DEF AloneInv, TurnInv, EventInv, EventsAlternate
<1> QED
  BY <1>1, AloneHolds, PTL

=============================================================================
