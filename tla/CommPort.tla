------------------------------ MODULE CommPort ------------------------------
(***************************************************************************)
(* One open serial port, from CommPort_createEx to CommPort_free: the      *)
(* overlapped operations behind CommPort_readEx and CommPort_writeEx, each *)
(* of which waits for the port's cancel signal, for its own completion and *)
(* for its timeout, and the thread that disconnects.  The port is used as  *)
(* IcBox.c does: thReceive reads, others write under writeMutex, and who   *)
(* disconnects cancels, joins thReceive and frees.  Module Connection has  *)
(* the same calls as one step each.                                        *)
(***************************************************************************)
EXTENDS Naturals, Sequences

CONSTANTS
  Reader,      \* thReceive
  Writers,     \* the threads that send commands
  MaxBytes,    \* bound: bytes that arrive
  MaxOrphans   \* bound: operations of a thread that outlive their calls

Callers == {Reader} \union Writers

ASSUME CallersDistinct == Reader \notin Writers /\ "nobody" \notin Writers
ASSUME BoundsPositive == MaxBytes \in Nat /\ MaxOrphans \in Nat \ {0}

VARIABLES
  isOpen,      \* hFile is open
  cancel,      \* the signal of comm->cancel (auto-reset)
  writeMutex,  \* the writer that has lib->writeMutex, or "nobody"
  abandoned,   \* lib->abandoned
  closer,      \* where the thread is that disconnects
  pc,          \* where the caller is in its call
  op,          \* what the driver does for the call
  filled,      \* bytes that the reader's completed operation put into buffer
  orphans,     \* operations, canceled, whose call has returned before them
  timedOut,    \* history: callers one of whose calls ended by its timeout
  line,        \* bytes that have arrived and are not read, by their numbers
  sent,        \* how many have arrived
  got, lost,   \* history: bytes reads returned, and bytes no read returned
  guessed      \* history: a read returned with bytesTrans unset

bytes == <<filled, line, sent, got, lost, guessed>>
closing == <<isOpen, abandoned, closer>>
calls == <<pc, op, orphans, timedOut>>
vars == <<closing, cancel, writeMutex, calls, bytes>>

-----------------------------------------------------------------------------
Init ==
  /\ isOpen = TRUE /\ cancel = FALSE
  /\ writeMutex = "nobody"
  /\ abandoned = FALSE /\ closer = "idle"
  /\ pc = [t \in Callers |-> "idle"]
  /\ op = [t \in Callers |-> "none"]
  /\ orphans = [t \in Callers |-> 0]
  /\ timedOut = {}
  /\ filled = <<>> /\ line = <<>> /\ sent = 0
  /\ got = <<>> /\ lost = <<>> /\ guessed = FALSE

\* What a read takes off the line: ReadIntervalTimeout ends it at any byte.
Taken(n) == SubSeq(line, 1, n)
Left(n) == SubSeq(line, n + 1, Len(line))

-----------------------------------------------------------------------------
(***************************************************************************)
(* The calls.                                                              *)
(***************************************************************************)
Goto(t, label) == pc' = [pc EXCEPT ![t] = label]

\* ReadFile or WriteFile begins and _CommPort_check waits.
Issue(t) ==
  /\ orphans[t] < MaxOrphans
  /\ op' = [op EXCEPT ![t] = "pending"]
  /\ Goto(t, "waiting")
  /\ UNCHANGED <<closing, cancel, orphans, timedOut, bytes>>

\* _IcBox_receiveFunc: another read, unless the port is given up.
Read ==
  /\ pc[Reader] = "idle"
  /\ ~abandoned
  /\ Issue(Reader)
  /\ UNCHANGED writeMutex

\* ReadFile is done at once: it was given nowhere to say how much it read, and
\* the count returned is what bytesTrans happens to hold.
ReadAtOnce ==
  /\ pc[Reader] = "idle"
  /\ ~abandoned
  /\ guessed' = TRUE
  /\ \E n \in 1 .. Len(line) : \E k \in 0 .. n :
       /\ got' = got \o Taken(k)
       /\ lost' = lost \o SubSeq(line, k + 1, n)
       /\ line' = Left(n)
  /\ UNCHANGED <<closing, cancel, writeMutex, calls, filled, sent>>

ReaderEnds ==
  /\ pc[Reader] = "idle"
  /\ abandoned
  /\ Goto(Reader, "exit")
  /\ UNCHANGED <<closing, cancel, writeMutex, op, orphans, timedOut, bytes>>

\* _IcBox_sendCmd holds writeMutex until the call returns.  A write that is
\* done, or refused, at once changes nothing here.
Write(t) ==
  /\ pc[t] = "idle"
  /\ isOpen
  /\ writeMutex = "nobody"
  /\ writeMutex' = t
  /\ Issue(t)

\* Mutant: the bytes of a read are still there for the next.
ReturnStale(t) ==
  /\ Goto(t, "idle")
  /\ op' = [op EXCEPT ![t] = "none"]
  /\ writeMutex' = IF t = Reader THEN writeMutex ELSE "nobody"
  /\ UNCHANGED <<closing, filled, line, sent, guessed>>

\* The call returns; a writer unlocks.
Return(t) ==
  /\ Goto(t, "idle")
  /\ op' = [op EXCEPT ![t] = "none"]
  /\ writeMutex' = IF t = Reader THEN writeMutex ELSE "nobody"
  /\ filled' = IF t = Reader THEN <<>> ELSE filled
  /\ UNCHANGED <<closing, line, sent, guessed>>

Ended == {"done", "failed", "aborted"}

\* Mutant: GetOverlappedResult is not asked for the count.
CompleteUncounted(t) ==
  /\ pc[t] = "waiting"
  /\ ~cancel
  /\ op[t] \in Ended
  /\ Return(t)
  /\ UNCHANGED <<cancel, orphans, timedOut, got, lost>>

\* evReceive is signaled and cancel is not, which the wait looks at first;
\* GetOverlappedResult tells the count of an operation that did not fail.
Complete(t) ==
  /\ pc[t] = "waiting"
  /\ ~cancel
  /\ op[t] \in Ended
  /\ got' = IF t = Reader THEN got \o filled ELSE got
  /\ Return(t)
  /\ UNCHANGED <<cancel, orphans, timedOut, lost>>

\* The wait takes the cancel signal, also one that was meant for another.
Canceled(t) ==
  /\ pc[t] = "waiting"
  /\ cancel
  /\ cancel' = FALSE
  /\ Goto(t, "canceled")
  /\ UNCHANGED <<closing, writeMutex, op, orphans, timedOut, bytes>>

\* Mutant: the wait has no timeout.
TimeoutNever(t) == FALSE

Timeout(t) ==
  /\ pc[t] = "waiting"
  /\ ~cancel
  /\ op[t] \notin Ended
  /\ Goto(t, "late")
  /\ timedOut' = timedOut \union {t}
  /\ UNCHANGED <<closing, cancel, writeMutex, op, orphans, bytes>>

Aborting(t) == IF op[t] = "pending" THEN "aborting" ELSE op[t]

\* CancelIo after a cancel; the call then waits for the operation to end.
CancelIo(t) ==
  /\ pc[t] = "canceled"
  /\ op' = [op EXCEPT ![t] = Aborting(t)]
  /\ Goto(t, "releasing")
  /\ UNCHANGED <<closing, cancel, writeMutex, orphans, timedOut, bytes>>

\* What an operation read that the call does not wait for, or not ask.
Dropped(t) == IF t = Reader THEN lost \o filled ELSE lost

\* Mutant: a canceled call does not wait for its operation either.
ReleasedAtOnce(t) ==
  /\ pc[t] = "releasing"
  /\ lost' = Dropped(t)
  /\ orphans' = [orphans EXCEPT ![t] = IF op[t] \in Ended THEN @ ELSE @ + 1]
  /\ Return(t)
  /\ UNCHANGED <<cancel, timedOut, got>>

Released(t) ==
  /\ pc[t] = "releasing"
  /\ op[t] \in Ended
  /\ lost' = Dropped(t)
  /\ Return(t)
  /\ UNCHANGED <<cancel, orphans, timedOut, got>>

\* CancelIo after a timeout; the call does not wait.
GiveUp(t) ==
  /\ pc[t] = "late"
  /\ lost' = Dropped(t)
  /\ orphans' = [orphans EXCEPT ![t] = IF op[t] \in Ended THEN @ ELSE @ + 1]
  /\ Return(t)
  /\ UNCHANGED <<cancel, timedOut, got>>

Call(t) ==
  Complete(t) \/ Canceled(t) \/ Timeout(t) \/ CancelIo(t) \/ Released(t) \/ GiveUp(t)

-----------------------------------------------------------------------------
(***************************************************************************)
(* _IcBox_disconnect.                                                      *)
(***************************************************************************)
Abandon ==
  /\ closer = "idle"
  /\ abandoned' = TRUE
  /\ closer' = "cancel"
  /\ UNCHANGED <<isOpen, cancel, writeMutex, calls, bytes>>

Cancel ==
  /\ closer = "cancel"
  /\ writeMutex = "nobody"
  /\ cancel' = TRUE
  /\ closer' = "join"
  /\ UNCHANGED <<isOpen, abandoned, writeMutex, calls, bytes>>

\* Mutant: the port is freed without waiting for its reader.
JoinNobody ==
  /\ closer = "join"
  /\ closer' = "free"
  /\ UNCHANGED <<isOpen, abandoned, cancel, writeMutex, calls, bytes>>

Join ==
  /\ closer = "join"
  /\ pc[Reader] = "exit"
  /\ closer' = "free"
  /\ UNCHANGED <<isOpen, abandoned, cancel, writeMutex, calls, bytes>>

Free ==
  /\ closer = "free"
  /\ writeMutex = "nobody"
  /\ isOpen' = FALSE
  /\ closer' = "done"
  /\ UNCHANGED <<abandoned, cancel, writeMutex, calls, bytes>>

Close == Cancel \/ Join \/ Free

-----------------------------------------------------------------------------
(***************************************************************************)
(* The driver and the device.                                              *)
(***************************************************************************)
Arrive ==
  /\ isOpen
  /\ sent < MaxBytes
  /\ sent' = sent + 1
  /\ line' = Append(line, sent + 1)
  /\ UNCHANGED <<closing, cancel, writeMutex, calls, filled, got, lost, guessed>>

\* A read ends with some bytes, a write when they are sent, a cancel or not.
Done(t) ==
  /\ op[t] \in {"pending", "aborting"}
  /\ op' = [op EXCEPT ![t] = "done"]
  /\ IF t = Reader
       THEN \E n \in 1 .. Len(line) : filled' = Taken(n) /\ line' = Left(n)
       ELSE UNCHANGED <<filled, line>>
  /\ UNCHANGED <<closing, cancel, writeMutex, pc, orphans, timedOut, sent, got,
                 lost, guessed>>

Failed(t) ==
  /\ op[t] = "pending"
  /\ op' = [op EXCEPT ![t] = "failed"]
  /\ UNCHANGED <<closing, cancel, writeMutex, pc, orphans, timedOut, bytes>>

Aborted(t) ==
  /\ op[t] = "aborting"
  /\ op' = [op EXCEPT ![t] = "aborted"]
  /\ UNCHANGED <<closing, cancel, writeMutex, pc, orphans, timedOut, bytes>>

\* An operation that has outlived its call ends, with bytes or without.
OrphanEnds(t) ==
  /\ orphans[t] > 0
  /\ orphans' = [orphans EXCEPT ![t] = @ - 1]
  /\ \E n \in 0 .. (IF t = Reader THEN Len(line) ELSE 0) :
       lost' = lost \o Taken(n) /\ line' = Left(n)
  /\ UNCHANGED <<closing, cancel, writeMutex, pc, op, timedOut, filled, sent,
                 got, guessed>>

-----------------------------------------------------------------------------
Step(t) == Call(t) \/ (t = Reader /\ (Read \/ ReadAtOnce \/ ReaderEnds))

Next ==
  \/ \E t \in Callers : Step(t) \/ Done(t) \/ Failed(t) \/ Aborted(t) \/ OrphanEnds(t)
  \/ \E t \in Writers : Write(t)
  \/ Abandon \/ Close \/ Arrive

\* A call goes on, by its timeout at the latest; what was canceled ends; who
\* disconnects is not kept out of writeMutex for ever.
Fairness ==
  /\ \A t \in Callers : WF_vars(Step(t)) /\ WF_vars(Aborted(t)) /\ WF_vars(OrphanEnds(t))
  /\ SF_vars(Close)

SafeSpec == Init /\ [][Next]_vars

Spec == SafeSpec /\ Fairness

-----------------------------------------------------------------------------
\* Every variable has its type.
TypeOK ==
  /\ isOpen \in BOOLEAN /\ cancel \in BOOLEAN /\ abandoned \in BOOLEAN
  /\ writeMutex \in Writers \union {"nobody"}
  /\ closer \in {"idle", "cancel", "join", "free", "done"}
  /\ pc \in [Callers -> {"idle", "waiting", "canceled", "releasing", "late", "exit"}]
  /\ op \in [Callers -> {"none", "pending", "aborting"} \union Ended]
  /\ orphans \in [Callers -> Nat]
  /\ timedOut \subseteq Callers
  /\ filled \in (IF op[Reader] = "done" THEN Seq(Nat) ELSE {<<>>})
  /\ line \in Seq(Nat) /\ sent \in Nat
  /\ got \in Seq(Nat) /\ lost \in Seq(Nat) /\ guessed \in BOOLEAN

Elements(s) == {s[a] : a \in DOMAIN s}

\* The reads return the bytes in the order of their arrival and none twice;
\* what they do not return is on its way or belongs to an operation that was
\* given up, unless a read was done at once.
BytesInOrder ==
  ~guessed =>
    /\ \A a, b \in DOMAIN got : a < b => got[a] < got[b]
    /\ Elements(got) \union Elements(lost) \union Elements(filled)
         \union Elements(line) = 1 .. sent
    /\ Elements(got) \intersect Elements(lost) = {}

\* An operation uses the locals of its call (OVERLAPPED, event, buffer): a
\* call that is canceled leaves none behind, one that times out may.
LocalsReleased == \A t \in Callers : orphans[t] > 0 => t \in timedOut

\* A port is freed when no call uses it.
FreedUnused == ~isOpen => \A t \in Callers : pc[t] \in {"idle", "exit"}

\* Who disconnects frees the port in the end, also when a writer takes the
\* cancel signal meant for the reader.
CloseReturns == abandoned ~> ~isOpen

=============================================================================
