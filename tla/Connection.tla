----------------------------- MODULE Connection -----------------------------
(***************************************************************************)
(* The threads of one instance and what they share: thConnect looks for    *)
(* the device and opens its port, thReceive reads that port, thAlive asks  *)
(* the device whether it is still there, and the application configures    *)
(* and frees the instance.  Every step is one access to shared state; the  *)
(* critical sections of writeMutex that no unlocked access can cut in two  *)
(* are one step.  Module EventQueue has the other end of the event queue;  *)
(* bytes are whole records here, and a port is opened with settings the    *)
(* device understands.                                                     *)
(***************************************************************************)
EXTENDS Naturals, Sequences

CONSTANTS
  PortList,      \* the ports a search tries, in their order
  NoPort,        \* NULL
  MaxCalls,      \* bound: call records the device sends
  MaxMoves,      \* bound: times the device is plugged in or out
  MaxConfigs,    \* bound: calls of IcBox_setConfiguration that reconnect
  MaxFailures,   \* bound: reads, writes and opens of the device's port that fail
                 \* and, if LateAnswers, waits that end before the answer comes
  LateAnswers,
  FollowOverlap, \* whether a behaviour goes on once overlap is set
  AppFrees,      \* whether the application may call IcBox_free
  Punctual,      \* no timeout passes while some thread can run or the device
                 \* has yet to answer, but for the late answers
  PromptStore    \* CreateThread's result is stored before anything else happens

Ports == {PortList[i] : i \in DOMAIN PortList}
Workers == {"connect", "receive", "alive"}
Threads == Workers \union {"app"}
Testers == {"connect", "alive"}              \* those that run an echo test
Closers == {"connect", "alive", "app"}       \* those that disconnect

ASSUME PortListNonEmpty == PortList \in Seq(Ports) /\ PortList # <<>>
ASSUME NoPortIsNone == NoPort \notin Ports
ASSUME BoundsNat == {MaxCalls, MaxMoves, MaxConfigs, MaxFailures} \subseteq Nat
ASSUME SwitchesBoolean ==
  {LateAnswers, FollowOverlap, AppFrees, Punctual, PromptStore} \subseteq BOOLEAN

VARIABLES
  canceled, abandoned, testing,   \* the flags of lib
  comm,         \* lib->comm: the port that is open, or NoPort
  opened,       \* the ports this program holds open
  cancelSig,    \* the open ports whose CommPort.cancel is signaled
  evDetected,   \* the signal of lib->evDetected (auto-reset)
  writeMutex,   \* the owner of lib->writeMutex, or "nobody"
  hThread,      \* the workers whose Thread.hThread is not 0
  pc,           \* where each thread is
  oldTesting,   \* old_testing of each echo test
  idx,          \* position in the list of ports of the running search
  rcomm, rmsg,  \* the port thReceive reads and what it read
  dev,          \* the port the device is plugged into, or NoPort
  asked,        \* how many commands the device has to answer
  line,         \* records sent and not yet read
  lastEvent,    \* history: the last of CONNECTED and DISCONNECTED pushed
  overlap,      \* history: an alive test was started while a search went on
  budget,       \* what is left of the bounds
  fault         \* why the program ended, or "none"

flags == <<canceled, abandoned, testing>>
port == <<comm, opened, cancelSig>>
device == <<dev, asked, line>>
reader == <<rcomm, rmsg>>
sync == <<evDetected, writeMutex, hThread>>
local == <<oldTesting, idx, reader>>
world == <<device, lastEvent, overlap, budget, fault>>
rest == <<flags, port, sync, local, world>>
vars == <<pc, rest>>

-----------------------------------------------------------------------------
\* IcBox_create: thConnect has been started, the other threads have not.
Init ==
  /\ canceled = FALSE /\ abandoned = FALSE /\ testing = FALSE
  /\ comm = NoPort /\ opened = {} /\ cancelSig = {}
  /\ evDetected = FALSE
  /\ writeMutex = "nobody"
  /\ hThread = {"connect"}
  /\ pc = [t \in Threads |-> CASE t = "connect" -> "entry"
                               [] t = "app" -> "idle"
                               [] OTHER -> "off"]
  /\ oldTesting = [t \in Testers |-> FALSE]
  /\ idx = 1
  /\ rcomm = NoPort /\ rmsg = "none"
  /\ dev \in Ports \union {NoPort} /\ asked = 0 /\ line = <<>>
  /\ lastEvent = "none" /\ overlap = FALSE
  /\ budget = [calls |-> MaxCalls, moves |-> MaxMoves, configs |-> MaxConfigs,
               failures |-> MaxFailures]
  /\ fault = "none"

Goto(t, label) == pc' = [pc EXCEPT ![t] = label]

\* A step of t from label to next that changes nothing else.
Jump(t, label, next) ==
  /\ pc[t] = label
  /\ Goto(t, next)
  /\ UNCHANGED rest

\* Mutant: the loops do not look at canceled.
StoppingIgnoresCancel == abandoned

Stopping == canceled \/ abandoned

\* A call of the system fails.
Fails == budget.failures > 0 /\ budget' = [budget EXCEPT !.failures = @ - 1]

\* The program ends in undefined behaviour.
Crash(why) ==
  /\ fault' = why
  /\ UNCHANGED <<flags, port, sync, pc, local, device, lastEvent, overlap, budget>>

-----------------------------------------------------------------------------
(***************************************************************************)
(* Thread.c.                                                               *)
(***************************************************************************)

\* Thread_start(w) by t, which goes on at next.  A second CreateThread on a
\* Thread whose first one still runs is not followed any further.
StartThread(t, w, next) ==
  \/ /\ w \in hThread
     /\ Goto(t, next)
     /\ UNCHANGED <<hThread, fault>>
  \/ /\ w \notin hThread
     /\ pc[w] = "off"
     /\ hThread' = IF PromptStore THEN hThread \union {w} ELSE hThread
     /\ pc' = [pc EXCEPT ![w] = "entry", ![t] = IF PromptStore THEN next ELSE "store"]
     /\ UNCHANGED fault
  \/ /\ w \notin hThread
     /\ pc[w] # "off"
     /\ fault' = "two threads"
     /\ UNCHANGED <<hThread, pc>>

Starts(t) == CASE t = "connect" -> "receive"
               [] t = "receive" -> "alive"
               [] OTHER -> "connect"

AfterStore(t) == CASE t = "connect" -> "echo"
                   [] t = "receive" -> "loop"
                   [] t = "alive" -> "exit"
                   [] t = "app" -> "idle"

\* The handle CreateThread returned reaches Thread.hThread.
StoreHandle(t) ==
  /\ pc[t] = "store"
  /\ hThread' = hThread \union {Starts(t)}
  /\ Goto(t, AfterStore(t))
  /\ UNCHANGED <<flags, port, evDetected, writeMutex, local, world>>

\* Thread_join: the labels at which a thread waits for another one, whom it
\* waits for and where it goes on.
Joining == {"joining", "joiningAlive", "joiningReceive", "joiningConnect"}

Awaited(label) == CASE label = "joiningAlive" -> "alive"
                    [] label = "joiningConnect" -> "connect"
                    [] OTHER -> "receive"

AfterJoin(label) == CASE label = "joiningAlive" -> "joinReceive"
                      [] label = "joiningReceive" -> "joinConnect"
                      [] label = "joiningConnect" -> "freed"
                      [] OTHER -> "free"

Join(t, before, label) ==
  Jump(t, before, IF Awaited(label) \notin hThread \/ pc[Awaited(label)] = "off"
                    THEN AfterJoin(label) ELSE label)

\* threadProc returns: hThread is 0 and those who wait for the thread go on.
ThreadEnd(w) ==
  /\ pc[w] = "exit"
  /\ hThread' = hThread \ {w}
  /\ pc' = [t \in Threads |->
              IF t = w THEN "off"
              ELSE IF pc[t] \in Joining /\ Awaited(pc[t]) = w
                     THEN AfterJoin(pc[t]) ELSE pc[t]]
  /\ UNCHANGED <<flags, port, evDetected, writeMutex, local, world>>

-----------------------------------------------------------------------------
(***************************************************************************)
(* _IcBox_disconnect, by any of three threads.                             *)
(***************************************************************************)
AfterDisconnect(t) == IF t = "connect" THEN "next" ELSE "report"

Abandon(t) ==
  /\ pc[t] = "abandon"
  /\ abandoned' = TRUE
  /\ Goto(t, "cancel")
  /\ UNCHANGED <<canceled, testing, port, sync, local, world>>

CancelIo(t) ==
  /\ pc[t] = "cancel"
  /\ writeMutex = "nobody"
  /\ cancelSig' = cancelSig \union ({comm} \ {NoPort})
  /\ Goto(t, "join")
  /\ UNCHANGED <<flags, comm, opened, sync, local, world>>

\* Mutant: the port is closed without waiting for its reader.
JoinNobody(t) == Jump(t, "join", "free")

JoinReceive(t) == Join(t, "join", "joining")

\* Closing a port a read is pending on is not followed any further.
FreeComm(t) ==
  /\ pc[t] = "free"
  /\ writeMutex = "nobody"
  /\ IF comm # NoPort /\ pc["receive"] = "reading" /\ rcomm = comm
       THEN Crash("freed port read")
       ELSE /\ opened' = opened \ {comm}
            /\ cancelSig' = cancelSig \ {comm}
            /\ line' = IF comm = dev THEN <<>> ELSE line
            /\ writeMutex' = t
            /\ Goto(t, "null")
            /\ UNCHANGED <<flags, comm, evDetected, hThread, local, dev, asked,
                           lastEvent, overlap, budget, fault>>

NullComm(t) ==
  /\ pc[t] = "null"
  /\ comm' = NoPort
  /\ writeMutex' = "nobody"
  /\ Goto(t, "unabandon")
  /\ UNCHANGED <<flags, opened, cancelSig, evDetected, hThread, local, world>>

\* Mutant: abandoned stays set.
UnabandonForgotten(t) == Jump(t, "unabandon", AfterDisconnect(t))

Unabandon(t) ==
  /\ pc[t] = "unabandon"
  /\ abandoned' = FALSE
  /\ Goto(t, AfterDisconnect(t))
  /\ UNCHANGED <<canceled, testing, port, sync, local, world>>

Disconnect(t) ==
  Abandon(t) \/ CancelIo(t) \/ JoinReceive(t) \/ FreeComm(t) \/ NullComm(t)
    \/ Unabandon(t)

-----------------------------------------------------------------------------
(***************************************************************************)
(* _IcBox_pushEvent of CONNECTED or DISCONNECTED, and _IcBox_echoTest.     *)
(***************************************************************************)
Push(t, e, next) ==
  /\ writeMutex = "nobody"
  /\ lastEvent' = e
  /\ Goto(t, next)
  /\ UNCHANGED <<flags, port, sync, local, device, overlap, budget, fault>>

EchoBegin(t) ==
  /\ pc[t] = "echo"
  /\ oldTesting' = [oldTesting EXCEPT ![t] = testing]
  /\ Goto(t, "arm")
  /\ UNCHANGED <<flags, port, sync, idx, reader, world>>

EchoArm(t) ==
  /\ pc[t] = "arm"
  /\ testing' = TRUE
  /\ Goto(t, "send")
  /\ UNCHANGED <<canceled, abandoned, port, sync, local, world>>

\* _IcBox_sendCmd: the write reaches the port, or takes the cancel signal
\* meant for the reader and is canceled itself, or fails.  Its caller does not
\* look at the result.
EchoSend(t) ==
  /\ pc[t] = "send"
  /\ writeMutex = "nobody"
  /\ IF comm = NoPort THEN Crash("no port to write") ELSE
       /\ \/ /\ asked' = asked + (IF dev = comm THEN 1 ELSE 0)
             /\ UNCHANGED <<cancelSig, budget>>
          \/ /\ comm \in cancelSig
             /\ cancelSig' = cancelSig \ {comm}
             /\ UNCHANGED <<asked, budget>>
          \/ Fails /\ UNCHANGED <<cancelSig, asked>>
       /\ Goto(t, "wait")
       /\ UNCHANGED <<flags, comm, opened, sync, local, dev, line, lastEvent,
                      overlap, fault>>

\* A signal that is already there ends the wait at once.
EchoWait(t) ==
  /\ pc[t] = "wait"
  /\ evDetected' = FALSE
  /\ Goto(t, IF evDetected THEN "found" ELSE "waiting")
  /\ UNCHANGED <<flags, port, writeMutex, hThread, local, world>>

AfterEcho(t) == CASE t = "connect" /\ pc[t] = "found" -> "up"
                  [] t = "connect" /\ pc[t] = "lost" -> "abandon"
                  [] t = "alive" /\ pc[t] = "found" -> "exit"
                  [] t = "alive" /\ pc[t] = "lost" -> "missed"

\* Mutant: testing stays set.
EchoEndKeepsTesting(t) ==
  pc[t] \in {"found", "lost"} /\ Jump(t, pc[t], AfterEcho(t))

EchoEnd(t) ==
  /\ pc[t] \in {"found", "lost"}
  /\ testing' = oldTesting[t]
  /\ Goto(t, AfterEcho(t))
  /\ UNCHANGED <<canceled, abandoned, port, sync, local, world>>

EchoTest(t) ==
  EchoBegin(t) \/ EchoArm(t) \/ EchoSend(t) \/ EchoWait(t) \/ EchoEnd(t)

\* Event_post(evDetected) by thReceive, which goes on at next: a waiting
\* thread takes the signal, else it stays.
PostDetected(next) ==
  LET waiting == {t \in Testers : pc[t] = "waiting"}
  IN  \/ /\ waiting = {}
         /\ evDetected' = TRUE
         /\ Goto("receive", next)
      \/ /\ UNCHANGED evDetected
         /\ \E t \in waiting :
              pc' = [pc EXCEPT !["receive"] = next, ![t] = "found"]

-----------------------------------------------------------------------------
(***************************************************************************)
(* _IcBox_connectFunc.                                                     *)
(***************************************************************************)
ConnectEntry == Jump("connect", "entry", IF Stopping THEN "exit" ELSE "round")

ConnectRound ==
  /\ pc["connect"] = "round"
  /\ idx' = 1
  /\ Goto("connect", IF Stopping THEN "exit" ELSE "open")
  /\ UNCHANGED <<flags, port, sync, oldTesting, reader, world>>

\* CommPort_createEx takes a port for this program alone.  It fails if the port
\* is open, is not there or is held by another program; the port the device is
\* plugged into is there.
ConnectOpen ==
  /\ pc["connect"] = "open"
  /\ \/ /\ PortList[idx] \notin opened
        /\ comm' = PortList[idx]
        /\ opened' = opened \union {PortList[idx]}
        /\ Goto("connect", "start")
        /\ UNCHANGED budget
     \/ /\ IF PortList[idx] = dev /\ dev \notin opened THEN Fails
                                                   ELSE UNCHANGED budget
        /\ Goto("connect", "next")
        /\ UNCHANGED <<comm, opened>>
  /\ UNCHANGED <<flags, cancelSig, sync, local, device, lastEvent, overlap, fault>>

ConnectStart ==
  /\ pc["connect"] = "start"
  /\ StartThread("connect", "receive", "echo")
  /\ UNCHANGED <<flags, port, evDetected, writeMutex, local, device, lastEvent,
                 overlap, budget>>

ConnectUp == pc["connect"] = "up" /\ Push("connect", "connected", "exit")

\* Mutant: one port too many is tried.
ConnectNextTooFar ==
  /\ pc["connect"] = "next"
  /\ IF ~Stopping /\ idx <= Len(PortList)
       THEN idx' = idx + 1 /\ Goto("connect", "open")
       ELSE UNCHANGED idx /\ Goto("connect", "tail")
  /\ UNCHANGED <<flags, port, sync, oldTesting, reader, world>>

ConnectNext ==
  /\ pc["connect"] = "next"
  /\ IF ~Stopping /\ idx < Len(PortList)
       THEN idx' = idx + 1 /\ Goto("connect", "open")
       ELSE UNCHANGED idx /\ Goto("connect", "tail")
  /\ UNCHANGED <<flags, port, sync, oldTesting, reader, world>>

\* Mutant: the search ends with the last port.
ConnectTailGivesUp == Jump("connect", "tail", "exit")

ConnectTail == Jump("connect", "tail", IF Stopping THEN "exit" ELSE "sleep")

Connect ==
  ConnectEntry \/ ConnectRound \/ ConnectOpen \/ ConnectStart \/ ConnectUp
    \/ ConnectNext \/ ConnectTail \/ EchoTest("connect") \/ Disconnect("connect")
    \/ StoreHandle("connect") \/ ThreadEnd("connect")

-----------------------------------------------------------------------------
(***************************************************************************)
(* _IcBox_receiveFunc, reading whole records.                              *)
(***************************************************************************)
ReceiveEntry == Jump("receive", "entry", "loop")

ReceiveLoop == Jump("receive", "loop", IF Stopping THEN "exit" ELSE "read")

ReceiveRead ==
  /\ pc["receive"] = "read"
  /\ IF comm = NoPort THEN Crash("no port to read") ELSE
       /\ rcomm' = comm
       /\ Goto("receive", "reading")
       /\ UNCHANGED <<flags, port, sync, oldTesting, idx, rmsg, world>>

\* CommPort_readEx ends with data, or with none when its port is canceled or
\* the read fails, which it may do at any moment; ReadTimeout is below.
ReceiveData ==
  /\ pc["receive"] = "reading"
  /\ rcomm = dev
  /\ line # <<>>
  /\ rmsg' = Head(line)
  /\ line' = Tail(line)
  /\ rcomm' = NoPort
  /\ Goto("receive", "checked")
  /\ UNCHANGED <<flags, port, sync, oldTesting, idx, dev, asked, lastEvent, overlap,
                 budget, fault>>

ReceiveCanceled ==
  /\ pc["receive"] = "reading"
  /\ rcomm \in cancelSig
  /\ cancelSig' = cancelSig \ {rcomm}
  /\ rmsg' = "none"
  /\ rcomm' = NoPort
  /\ Goto("receive", "checked")
  /\ UNCHANGED <<flags, comm, opened, sync, oldTesting, idx, world>>

ReceiveFailed ==
  /\ pc["receive"] = "reading"
  /\ Fails
  /\ rmsg' = "none"
  /\ rcomm' = NoPort
  /\ Goto("receive", "checked")
  /\ UNCHANGED <<flags, port, sync, oldTesting, idx, device, lastEvent, overlap, fault>>

ReceiveChecked ==
  Jump("receive", "checked",
       CASE Stopping -> "loop"
         [] ~Stopping /\ rmsg = "none" -> "silent"
         [] ~Stopping /\ rmsg # "none" -> "execute")

\* Mutant: silence starts no alive test.
ReceiveSilentIdle == Jump("receive", "silent", "loop")

\* Nothing was read: ask the device whether it is alive, unless a test runs.
ReceiveSilent ==
  /\ pc["receive"] = "silent"
  /\ IF testing
       THEN Goto("receive", "loop") /\ UNCHANGED <<hThread, overlap, fault>>
       ELSE /\ StartThread("receive", "alive", "loop")
            /\ overlap' = (overlap \/ ("alive" \notin hThread /\ pc["connect"] # "off"))
  /\ UNCHANGED <<flags, port, evDetected, writeMutex, local, device, lastEvent,
                 budget>>

\* _IcBox_execute: every record of the device answers an echo test.
ReceiveExecute ==
  /\ pc["receive"] = "execute"
  /\ PostDetected(IF rmsg = "answer" THEN "loop" ELSE "judge")
  /\ UNCHANGED <<flags, port, writeMutex, hThread, local, world>>

\* A call record outside of echo tests is an event and answers nothing.
ReceiveJudge ==
  Jump("receive", "judge", IF testing THEN "loop" ELSE "withdraw")

ReceiveWithdraw ==
  /\ pc["receive"] = "withdraw"
  /\ evDetected' = FALSE
  /\ Goto("receive", "push")
  /\ UNCHANGED <<flags, port, writeMutex, hThread, local, world>>

ReceivePush == pc["receive"] = "push" /\ Push("receive", lastEvent, "loop")

Receive ==
  ReceiveEntry \/ ReceiveLoop \/ ReceiveRead \/ ReceiveData \/ ReceiveCanceled
    \/ ReceiveFailed \/ ReceiveChecked \/ ReceiveSilent \/ ReceiveExecute
    \/ ReceiveJudge \/ ReceiveWithdraw \/ ReceivePush \/ StoreHandle("receive")
    \/ ThreadEnd("receive")

-----------------------------------------------------------------------------
(***************************************************************************)
(* _IcBox_aliveTest and _IcBox_reconnect.                                  *)
(***************************************************************************)
AliveEntry == Jump("alive", "entry", "echo")

AliveMissed == Jump("alive", "missed", IF canceled THEN "exit" ELSE "abandon")

\* Mutant: the application is not told that the device was lost.
AliveReportForgotten == Jump("alive", "report", "restart")

AliveReport == pc["alive"] = "report" /\ Push("alive", "disconnected", "restart")

\* Mutant: the device is given up and not searched again.
AliveRestartForgotten == Jump("alive", "restart", "exit")

AliveRestart ==
  /\ pc["alive"] = "restart"
  /\ StartThread("alive", "connect", "exit")
  /\ UNCHANGED <<flags, port, evDetected, writeMutex, local, device, lastEvent,
                 overlap, budget>>

Alive ==
  AliveEntry \/ EchoTest("alive") \/ AliveMissed \/ Disconnect("alive")
    \/ AliveReport \/ AliveRestart \/ StoreHandle("alive") \/ ThreadEnd("alive")

-----------------------------------------------------------------------------
(***************************************************************************)
(* The application: IcBox_setConfiguration and, once, IcBox_free.          *)
(***************************************************************************)

\* New settings reach an open port and start the search anew; a new name
\* for the port only does the latter.
SetConfiguration ==
  /\ pc["app"] = "idle"
  /\ comm # NoPort
  /\ budget.configs > 0
  /\ budget' = [budget EXCEPT !.configs = @ - 1]
  /\ \E label \in {"configure", "abandon"} : Goto("app", label)
  /\ UNCHANGED <<flags, port, sync, local, device, lastEvent, overlap, fault>>

AppConfigure ==
  /\ pc["app"] = "configure"
  /\ IF comm = NoPort THEN Crash("no port to configure")
                      ELSE Goto("app", "abandon") /\ UNCHANGED rest

Free ==
  /\ AppFrees
  /\ pc["app"] = "idle"
  /\ canceled' = TRUE
  /\ Goto("app", "abandon")
  /\ UNCHANGED <<abandoned, testing, port, sync, local, world>>

AppReport ==
  /\ pc["app"] = "report"
  /\ Push("app", "disconnected", IF canceled THEN "joinAlive" ELSE "restart")

AppRestart ==
  /\ pc["app"] = "restart"
  /\ StartThread("app", "connect", "idle")
  /\ UNCHANGED <<flags, port, evDetected, writeMutex, local, device, lastEvent,
                 overlap, budget>>

\* Mutant: IcBox_free does not wait for thConnect.
FreeJoinTwo ==
  \/ Join("app", "joinAlive", "joiningAlive")
  \/ Join("app", "joinReceive", "joiningReceive")
  \/ Jump("app", "joinConnect", "freed")

FreeJoin ==
  \/ Join("app", "joinAlive", "joiningAlive")
  \/ Join("app", "joinReceive", "joiningReceive")
  \/ Join("app", "joinConnect", "joiningConnect")

App ==
  AppConfigure \/ Disconnect("app") \/ AppReport \/ AppRestart \/ FreeJoin
    \/ StoreHandle("app")

-----------------------------------------------------------------------------
(***************************************************************************)
(* Time.  A read, a wait for an answer and a sleep end when they have      *)
(* lasted long enough; if Punctual, all that can happen happens before.    *)
(***************************************************************************)
Blocked(t) ==
  \/ pc[t] \in {"off", "waiting", "sleep", "idle", "freed"} \union Joining
  \/ pc[t] = "reading" /\ rcomm \notin cancelSig /\ ~(rcomm = dev /\ line # <<>>)

TimePasses == Punctual => asked = 0 /\ \A t \in Threads : Blocked(t)

ReadTimeout ==
  /\ TimePasses
  /\ pc["receive"] = "reading"
  /\ rcomm \notin cancelSig
  /\ rmsg' = "none"
  /\ rcomm' = NoPort
  /\ Goto("receive", "checked")
  /\ UNCHANGED <<flags, port, sync, oldTesting, idx, world>>

EchoTimeout(t) == TimePasses /\ Jump(t, "waiting", "lost")

\* The wait ends although an answer is on its way.
EchoLate(t) ==
  /\ pc[t] = "waiting"
  /\ LateAnswers /\ Fails
  /\ Goto(t, "lost")
  /\ UNCHANGED <<flags, port, sync, local, device, lastEvent, overlap, fault>>

RetryTimeout == TimePasses /\ Jump("connect", "sleep", "round")

-----------------------------------------------------------------------------
(***************************************************************************)
(* The device (src/emulator plays it): it answers commands, reports calls, *)
(* and may be plugged into another port or into none.                      *)
(***************************************************************************)
Hear(record) == line' = IF dev \in opened THEN Append(line, record) ELSE line

DeviceAnswer ==
  /\ asked > 0
  /\ asked' = asked - 1
  /\ Hear("answer")
  /\ UNCHANGED <<flags, port, sync, pc, local, dev, lastEvent, overlap, budget, fault>>

DeviceCall ==
  /\ dev \in opened
  /\ budget.calls > 0
  /\ budget' = [budget EXCEPT !.calls = @ - 1]
  /\ Hear("call")
  /\ UNCHANGED <<flags, port, sync, pc, local, dev, asked, lastEvent, overlap, fault>>

DeviceMove ==
  /\ budget.moves > 0
  /\ budget' = [budget EXCEPT !.moves = @ - 1]
  /\ \E p \in (Ports \union {NoPort}) \ {dev} : dev' = p
  /\ asked' = 0
  /\ line' = <<>>
  /\ UNCHANGED <<flags, port, sync, pc, local, lastEvent, overlap, fault>>

-----------------------------------------------------------------------------
Run(t) == CASE t = "connect" -> Connect
            [] t = "receive" -> Receive
            [] t = "alive" -> Alive
            [] t = "app" -> App

Timeout ==
  ReadTimeout \/ RetryTimeout \/ \E t \in Testers : EchoTimeout(t) \/ EchoLate(t)

Next ==
  /\ fault = "none"
  /\ overlap => FollowOverlap
  /\ \/ Connect \/ Receive \/ Alive \/ App
     \/ SetConfiguration \/ Free
     \/ Timeout
     \/ DeviceAnswer \/ DeviceCall \/ DeviceMove

\* A thread that can run does, and is not kept out of writeMutex for ever; a
\* timeout passes; the device answers.  Nobody has to call, plug or configure.
Fairness ==
  /\ \A t \in Threads : SF_vars(Run(t))
  /\ SF_vars(ReadTimeout) /\ SF_vars(RetryTimeout)
  /\ \A t \in Testers : SF_vars(EchoTimeout(t))
  /\ WF_vars(DeviceAnswer)

SafeSpec == Init /\ [][Next]_vars

Spec == SafeSpec /\ Fairness

-----------------------------------------------------------------------------
CloserPcs == {"abandon", "cancel", "join", "joining", "free", "null", "unabandon"}

TesterPcs == {"echo", "arm", "send", "wait", "waiting", "found", "lost"}

WorkerPcs == {"off", "entry", "store", "exit"}

Pcs(t) ==
  CASE t = "connect" -> WorkerPcs \union TesterPcs \union CloserPcs \union
                        {"round", "open", "start", "up", "next", "tail", "sleep"}
    [] t = "receive" -> WorkerPcs \union
                        {"loop", "read", "reading", "checked", "silent",
                         "execute", "judge", "withdraw", "push"}
    [] t = "alive"   -> WorkerPcs \union TesterPcs \union CloserPcs \union
                        {"missed", "report", "restart"}
    [] t = "app"     -> CloserPcs \union Joining \union
                        {"idle", "configure", "report", "restart", "store",
                         "joinAlive", "joinReceive", "joinConnect", "freed"}

Faults == {"two threads", "no port to write", "no port to read",
           "no port to configure", "freed port read"}

Labels == UNION {Pcs(t) : t \in Threads}

PcOK == pc \in [Threads -> Labels] /\ \A t \in Threads : pc[t] \in Pcs(t)

\* Every variable has its type.
TypeOK ==
  /\ canceled \in BOOLEAN /\ abandoned \in BOOLEAN /\ testing \in BOOLEAN
  /\ comm \in Ports \union {NoPort}
  /\ opened \subseteq Ports /\ cancelSig \subseteq Ports
  /\ evDetected \in BOOLEAN
  /\ writeMutex \in Closers \union {"nobody"}
  /\ hThread \subseteq Workers
  /\ PcOK
  /\ oldTesting \in [Testers -> BOOLEAN]
  /\ idx \in 1 .. Len(PortList)
  /\ rcomm \in Ports \union {NoPort} /\ rmsg \in {"none", "answer", "call"}
  /\ dev \in Ports \union {NoPort} /\ asked \in Nat
  /\ line \in Seq({"answer", "call"})
  /\ lastEvent \in {"none", "connected", "disconnected"} /\ overlap \in BOOLEAN
  /\ budget \in [calls : Nat, moves : Nat, configs : Nat, failures : Nat]
  /\ fault \in Faults \union {"none"}

\* The properties that follow make an exception: a read that fails after the
\* search has opened its port and before it sets testing, or after it reset
\* testing and before it sets abandoned, has thReceive start an alive test
\* beside the search.  Two threads then save testing, disconnect and restart at
\* once, and nothing is promised any more.

\* Unless an alive test was started while a search went on, the program does not
\* end in undefined behaviour.
NoFault == overlap \/ fault = "none"

\* Unless an alive test was started while a search went on, the port thReceive
\* reads is lib->comm, which nobody has closed.
ReadsOpenPort ==
  ~overlap /\ pc["receive"] = "reading" => rcomm = comm /\ comm \in opened

\* Unless an alive test was started while a search went on, testing is set only
\* while an echo test runs, whatever a read, a write or a wait fails: were it
\* left set, no call would be reported and no alive test made ever again.
TestingEnds ==
  ~overlap /\ testing =>
    \E t \in Testers : pc[t] \in {"send", "wait", "waiting", "found", "lost"}

\* abandoned, which stops every loop of the library, is set only while some
\* thread disconnects and will reset it.
AbandonEnds == abandoned => \E t \in Closers : pc[t] \in CloserPcs \ {"abandon"}

\* Until canceled, and unless an alive test was started while a search went on,
\* the instance always has a thread at work on having a connection: one that
\* reads the open port, searches or is about to restart the search.
Alert ==
  ~canceled /\ ~overlap =>
    \/ comm # NoPort /\ pc["receive"] # "off"
    \/ pc["connect"] \notin {"off", "up", "exit"}
    \/ \E t \in {"alive", "app"} :
         pc[t] \in CloserPcs \union {"missed", "configure", "report", "restart"}

\* CONNECTED and DISCONNECTED alternate: an application that follows them is
\* never told twice of a connection, nor of the loss of one it did not hear of;
\* unless an alive test was started while a search went on.
EventsAlternate ==
  ~overlap =>
    /\ pc["connect"] = "up" => lastEvent # "connected"
    /\ pc["alive"] = "report" => lastEvent = "connected"

\* When an instance is freed, it has closed its ports and its threads ended;
\* unless an alive test was started while a search went on.
FreedClean ==
  ~overlap /\ pc["app"] = "freed" => opened = {} /\ \A w \in Workers : pc[w] = "off"

\* A device that stays in a port the program knows is found and kept, however
\* often reads, writes and opens fail before; unless an alive test was started
\* while a search went on.
DeviceFound ==
  \A p \in Ports :
    <>[](dev = p) => <>(canceled \/ overlap) \/ <>[](comm = p /\ lastEvent = "connected")

\* A device that is gone for good is reported as gone, with the same exception.
DeviceLossReported ==
  <>[](dev = NoPort) => <>(canceled \/ overlap) \/ <>[](lastEvent # "connected")

\* IcBox_free returns, whatever reads, writes and opens fail, unless the program
\* ends before or an alive test was started while a search went on.
FreeReturns == canceled ~> pc["app"] = "freed" \/ fault # "none" \/ overlap

=============================================================================
