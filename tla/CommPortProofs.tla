--------------------------- MODULE CommPortProofs ---------------------------
(***************************************************************************)
(* Theorems about module CommPort, for any number of writers and bytes.    *)
(***************************************************************************)
EXTENDS CommPort, TLAPS

-----------------------------------------------------------------------------
\* A writer is in a call exactly while it has the mutex.
MutexInv ==
  \A t \in Writers : pc[t] # "exit" /\ (pc[t] # "idle" <=> writeMutex = t)

\* The reader has ended before the port is freed.
JoinInv ==
  /\ closer \in {"free", "done"} => pc[Reader] = "exit"
  /\ ~isOpen <=> closer = "done"

\* A call that gives its operation up has timed out.
LateInv == \A t \in Callers : pc[t] = "late" => t \in timedOut

\* The driver works only for a caller that is in a call.
OpInv == \A t \in Callers : pc[t] \in {"idle", "exit"} => op[t] = "none"

\* What a release of the port and of a call's locals relies on.
ReleaseInv == OpInv /\ MutexInv /\ JoinInv /\ LateInv /\ LocalsReleased /\ FreedUnused

LEMMA SliceType ==
  ASSUME NEW s \in Seq(Nat), NEW m \in Nat, NEW n \in 0 .. Len(s)
  PROVE  SubSeq(s, m + 1, n) \in Seq(Nat)
OBVIOUS

\* What a read takes and what it leaves are sequences of bytes.
LEMMA TakenType ==
  ASSUME TypeOK, NEW n \in 0 .. Len(line), NEW k \in 0 .. n
  PROVE  Taken(k) \in Seq(Nat) /\ Left(n) \in Seq(Nat) /\ SubSeq(line, k + 1, n) \in Seq(Nat)
BY SliceType DEF TypeOK, Taken, Left

-----------------------------------------------------------------------------
LEMMA InitInv == Init => TypeOK /\ ReleaseInv
<1> SUFFICES ASSUME Init PROVE TypeOK /\ ReleaseInv
  OBVIOUS
<1>1. op[Reader] = "none" /\ <<>> \in Seq(Nat)
  BY DEF Init, Callers
<1>2. TypeOK
  BY <1>1 DEF Init, TypeOK, Ended
<1>3. OpInv /\ MutexInv /\ JoinInv /\ LateInv
  BY CallersDistinct DEF Init, OpInv, MutexInv, JoinInv, LateInv, Callers
<1>4. LocalsReleased /\ FreedUnused
  BY DEF Init, LocalsReleased, FreedUnused
<1> QED
  BY <1>2, <1>3, <1>4 DEF ReleaseInv

LEMMA FilledType ==
  ASSUME TypeOK
  PROVE  filled \in Seq(Nat)
<1>1. <<>> \in Seq(Nat)
  OBVIOUS
<1> QED
  BY <1>1 DEF TypeOK

\* A call that returns leaves the types right.
LEMMA ReturnType ==
  ASSUME TypeOK, NEW t \in Callers, Return(t)
  PROVE  /\ UNCHANGED <<isOpen, abandoned, closer, line, sent, guessed>>
         /\ writeMutex' \in Writers \union {"nobody"}
         /\ pc' = [pc EXCEPT ![t] = "idle"] /\ op' = [op EXCEPT ![t] = "none"]
         /\ filled' \in (IF op'[Reader] = "done" THEN Seq(Nat) ELSE {<<>>})
<1>1. CASE t = Reader
  BY <1>1 DEF TypeOK, Return, Goto, closing, Callers
<1>2. CASE t # Reader
  BY <1>2 DEF TypeOK, Return, Goto, closing, Callers
<1> QED
  BY <1>1, <1>2

LEMMA TypePreserved == TypeOK /\ OpInv /\ [Next]_vars => TypeOK'
<1> SUFFICES ASSUME TypeOK, OpInv, [Next]_vars PROVE TypeOK'
  OBVIOUS
<1> USE DEF bytes, closing, calls, Callers, Ended, Goto
<1>1. CASE Read
  <2>1. op[Reader] = "none" /\ filled = <<>>
    BY <1>1 DEF TypeOK, OpInv, Read
  <2>2. op' = [op EXCEPT ![Reader] = "pending"] /\ op'[Reader] # "done"
    BY <1>1 DEF TypeOK, Read, Issue
  <2> QED
    BY <1>1, <2>1, <2>2 DEF TypeOK, Read, Issue
<1>2. CASE ReadAtOnce
  <2>1. PICK n \in 1 .. Len(line) : \E k \in 0 .. n :
          /\ got' = got \o Taken(k)
          /\ lost' = lost \o SubSeq(line, k + 1, n)
          /\ line' = Left(n)
    BY <1>2 DEF ReadAtOnce
  <2>2. PICK k \in 0 .. n :
          /\ got' = got \o Taken(k)
          /\ lost' = lost \o SubSeq(line, k + 1, n)
          /\ line' = Left(n)
    BY <2>1
  <2>3. n \in 0 .. Len(line)
    BY DEF TypeOK
  <2>4. got' \in Seq(Nat) /\ lost' \in Seq(Nat) /\ line' \in Seq(Nat)
    BY <2>2, <2>3, TakenType DEF TypeOK
  <2> QED
    BY <1>2, <2>4 DEF TypeOK, ReadAtOnce
<1>3. CASE ReaderEnds
  BY <1>3 DEF TypeOK, ReaderEnds
<1>4. ASSUME NEW t \in Writers, Write(t) PROVE TypeOK'
  BY <1>4, CallersDistinct DEF TypeOK, Write, Issue
<1>5. ASSUME NEW t \in Callers, Complete(t) PROVE TypeOK'
  <2>1. got' \in Seq(Nat)
    BY <1>5, FilledType DEF TypeOK, Complete
  <2> QED
    BY <1>5, <2>1, ReturnType DEF TypeOK, Complete
<1>6. ASSUME NEW t \in Callers, Canceled(t) PROVE TypeOK'
  BY <1>6 DEF TypeOK, Canceled
<1>7. ASSUME NEW t \in Callers, Timeout(t) PROVE TypeOK'
  BY <1>7 DEF TypeOK, Timeout
<1>8. ASSUME NEW t \in Callers, CancelIo(t) PROVE TypeOK'
  BY <1>8 DEF TypeOK, CancelIo, Aborting
<1>9. ASSUME NEW t \in Callers, Released(t) PROVE TypeOK'
  <2>1. lost' \in Seq(Nat)
    BY <1>9, FilledType DEF TypeOK, Released, Dropped
  <2> QED
    BY <1>9, <2>1, ReturnType DEF TypeOK, Released
<1>10. ASSUME NEW t \in Callers, GiveUp(t) PROVE TypeOK'
  <2>1. lost' \in Seq(Nat) /\ orphans' \in [Callers -> Nat]
    <3>1. lost' \in Seq(Nat)
      BY <1>10, FilledType DEF TypeOK, GiveUp, Dropped
    <3>2. orphans' \in [Callers -> Nat]
      BY <1>10 DEF TypeOK, GiveUp
    <3> QED
      BY <3>1, <3>2
  <2> QED
    BY <1>10, <2>1, ReturnType DEF TypeOK, GiveUp
<1>11. CASE Abandon \/ Cancel \/ Join \/ Free
  BY <1>11 DEF TypeOK, Abandon, Cancel, Join, Free
<1>12. CASE Arrive
  BY <1>12 DEF TypeOK, Arrive
<1>13. ASSUME NEW t \in Callers, Done(t) PROVE TypeOK'
  <2>1. CASE t = Reader
    <3>1. PICK n \in 1 .. Len(line) : filled' = Taken(n) /\ line' = Left(n)
      BY <1>13, <2>1 DEF Done
    <3>2. n \in 0 .. Len(line) /\ n \in 0 .. n
      BY DEF TypeOK
    <3>3. filled' \in Seq(Nat) /\ line' \in Seq(Nat)
      BY <3>1, <3>2, TakenType
    <3> QED
      BY <1>13, <2>1, <3>3 DEF TypeOK, Done
  <2>2. CASE t # Reader
    BY <1>13, <2>2 DEF TypeOK, Done
  <2> QED
    BY <2>1, <2>2
<1>14. ASSUME NEW t \in Callers, Failed(t) \/ Aborted(t) PROVE TypeOK'
  BY <1>14 DEF TypeOK, Failed, Aborted
<1>15. ASSUME NEW t \in Callers, OrphanEnds(t) PROVE TypeOK'
  <2>1. PICK n \in 0 .. (IF t = Reader THEN Len(line) ELSE 0) :
          lost' = lost \o Taken(n) /\ line' = Left(n)
    BY <1>15 DEF OrphanEnds
  <2>2. n \in 0 .. Len(line) /\ n \in 0 .. n
    BY DEF TypeOK
  <2>3. lost' \in Seq(Nat) /\ line' \in Seq(Nat)
    BY <2>1, <2>2, TakenType DEF TypeOK
  <2>4. orphans' \in [Callers -> Nat]
    BY <1>15 DEF TypeOK, OrphanEnds
  <2> QED
    BY <1>15, <2>3, <2>4 DEF TypeOK, OrphanEnds
<1>16. CASE UNCHANGED vars
  BY <1>16 DEF TypeOK, vars
<1> QED
  BY <1>1, <1>2, <1>3, <1>4, <1>5, <1>6, <1>7, <1>8, <1>9, <1>10, <1>11, <1>12,
     <1>13, <1>14, <1>15, <1>16 DEF Next, Step, Call, Close

\* A call enters and leaves its labels and its operation's states in pairs.
LEMMA ReleasePreserved == TypeOK /\ ReleaseInv /\ [Next]_vars => ReleaseInv'
<1> SUFFICES ASSUME TypeOK, ReleaseInv, [Next]_vars PROVE ReleaseInv'
  OBVIOUS
<1> USE CallersDistinct DEF Callers, Goto, bytes, closing, calls
<1>1. CASE Read
  BY <1>1 DEF TypeOK, ReleaseInv, OpInv, MutexInv, JoinInv, LateInv, LocalsReleased,
              FreedUnused, Read, Issue
<1>2. CASE ReadAtOnce
  BY <1>2 DEF ReleaseInv, OpInv, MutexInv, JoinInv, LateInv, LocalsReleased,
              FreedUnused, ReadAtOnce
<1>3. CASE ReaderEnds
  BY <1>3 DEF TypeOK, ReleaseInv, OpInv, MutexInv, JoinInv, LateInv, LocalsReleased,
              FreedUnused, ReaderEnds
<1>4. ASSUME NEW t \in Writers, Write(t) PROVE ReleaseInv'
  BY <1>4 DEF TypeOK, ReleaseInv, OpInv, MutexInv, JoinInv, LateInv, LocalsReleased,
              FreedUnused, Write, Issue
<1>5. ASSUME NEW t \in Callers, Complete(t) PROVE ReleaseInv'
  BY <1>5 DEF TypeOK, ReleaseInv, OpInv, MutexInv, JoinInv, LateInv, LocalsReleased,
              FreedUnused, Complete, Return
<1>6. ASSUME NEW t \in Callers, Canceled(t) PROVE ReleaseInv'
  BY <1>6 DEF TypeOK, ReleaseInv, OpInv, MutexInv, JoinInv, LateInv, LocalsReleased,
              FreedUnused, Canceled
<1>7. ASSUME NEW t \in Callers, Timeout(t) PROVE ReleaseInv'
  BY <1>7 DEF TypeOK, ReleaseInv, OpInv, MutexInv, JoinInv, LateInv, LocalsReleased,
              FreedUnused, Timeout
<1>8. ASSUME NEW t \in Callers, CancelIo(t) PROVE ReleaseInv'
  BY <1>8 DEF TypeOK, ReleaseInv, OpInv, MutexInv, JoinInv, LateInv, LocalsReleased,
              FreedUnused, CancelIo
<1>9. ASSUME NEW t \in Callers, Released(t) PROVE ReleaseInv'
  BY <1>9 DEF TypeOK, ReleaseInv, OpInv, MutexInv, JoinInv, LateInv, LocalsReleased,
              FreedUnused, Released, Return
<1>10. ASSUME NEW t \in Callers, GiveUp(t) PROVE ReleaseInv'
  BY <1>10 DEF TypeOK, ReleaseInv, OpInv, MutexInv, JoinInv, LateInv, LocalsReleased,
              FreedUnused, GiveUp, Return
<1>11. CASE Abandon \/ Cancel \/ Join
  BY <1>11 DEF ReleaseInv, OpInv, MutexInv, JoinInv, LateInv, LocalsReleased,
              FreedUnused, Abandon, Cancel, Join
<1>12. CASE Free
  BY <1>12 DEF ReleaseInv, OpInv, MutexInv, JoinInv, LateInv, LocalsReleased,
              FreedUnused, Free
<1>13. CASE Arrive
  BY <1>13 DEF ReleaseInv, OpInv, MutexInv, JoinInv, LateInv, LocalsReleased,
              FreedUnused, Arrive
<1>14. ASSUME NEW t \in Callers, Done(t) \/ Failed(t) \/ Aborted(t) PROVE ReleaseInv'
  BY <1>14 DEF TypeOK, ReleaseInv, OpInv, MutexInv, JoinInv, LateInv, LocalsReleased,
              FreedUnused, Done, Failed, Aborted
<1>15. ASSUME NEW t \in Callers, OrphanEnds(t) PROVE ReleaseInv'
  BY <1>15 DEF TypeOK, ReleaseInv, OpInv, MutexInv, JoinInv, LateInv, LocalsReleased,
              FreedUnused, OrphanEnds
<1>16. CASE UNCHANGED vars
  BY <1>16 DEF ReleaseInv, OpInv, MutexInv, JoinInv, LateInv, LocalsReleased,
              FreedUnused, vars
<1> QED
  BY <1>1, <1>2, <1>3, <1>4, <1>5, <1>6, <1>7, <1>8, <1>9, <1>10, <1>11, <1>12,
     <1>13, <1>14, <1>15, <1>16 DEF Next, Step, Call, Close

LEMMA InvHolds == SafeSpec => [](TypeOK /\ ReleaseInv)
<1>1. TypeOK /\ ReleaseInv /\ [Next]_vars => (TypeOK /\ ReleaseInv)'
  BY TypePreserved, ReleasePreserved DEF ReleaseInv
<1> QED
  BY <1>1, InitInv, PTL DEF SafeSpec

-----------------------------------------------------------------------------
\* Every variable keeps its type, and a read begins with an empty buffer.
THEOREM CommPortTypeCorrect == SafeSpec => []TypeOK
BY InvHolds, PTL

\* No canceled call leaves the driver with its locals.
THEOREM LocalsAreReleased == SafeSpec => []LocalsReleased
<1>1. ReleaseInv => LocalsReleased
  BY DEF ReleaseInv
<1> QED
  BY <1>1, InvHolds, PTL

\* Join and mutex keep the port open as long as it is used.
THEOREM PortFreedUnused == SafeSpec => []FreedUnused
<1>1. ReleaseInv => FreedUnused
  BY DEF ReleaseInv
<1> QED
  BY <1>1, InvHolds, PTL

-----------------------------------------------------------------------------
(***************************************************************************)
(* The order of the bytes.  What has left the line is got, lost or filled; *)
(* what an operation that was given up takes lies between what the reader  *)
(* has and what is still on the line, so order and disjointness stay.      *)
(***************************************************************************)
\* The number of bytes that have left the line.
TakenOff == sent - Len(line)

Increasing(s) == \A a, b \in DOMAIN s : a < b => s[a] < s[b]

\* The line holds the last bytes that arrived.
LineInv == TakenOff \in Nat /\ \A j \in DOMAIN line : line[j] = TakenOff + j

\* The bytes off the line are with a read that returned, with the one that is
\* about to, or with none.
ReadInv ==
  /\ Increasing(got) /\ Increasing(filled)
  /\ \A x \in Elements(got), y \in Elements(filled) : x < y
  /\ Elements(got) \union Elements(lost) \union Elements(filled) = 1 .. TakenOff
  /\ Elements(got) \intersect Elements(lost) = {}
  /\ Elements(filled) \intersect Elements(lost) = {}

FlowInv == ~guessed => LineInv /\ ReadInv

LEMMA ConcatElements ==
  ASSUME NEW s \in Seq(Nat), NEW t \in Seq(Nat)
  PROVE  Elements(s \o t) = Elements(s) \union Elements(t)
<1>1. ASSUME NEW x \in Elements(s \o t) PROVE x \in Elements(s) \union Elements(t)
  <2>1. PICK a \in 1 .. Len(s \o t) : x = (s \o t)[a]
    BY DEF Elements
  <2>2. CASE a <= Len(s)
    BY <2>1, <2>2 DEF Elements
  <2>3. CASE a > Len(s)
    <3>1. a - Len(s) \in DOMAIN t /\ x = t[a - Len(s)]
      BY <2>1, <2>3
    <3> QED
      BY <3>1 DEF Elements
  <2> QED
    BY <2>1, <2>2, <2>3
<1>2. ASSUME NEW x \in Elements(s) PROVE x \in Elements(s \o t)
  <2>1. PICK a \in 1 .. Len(s) : x = s[a]
    BY DEF Elements
  <2>2. a \in DOMAIN (s \o t) /\ (s \o t)[a] = x
    BY <2>1
  <2> QED
    BY <2>2 DEF Elements
<1>3. ASSUME NEW x \in Elements(t) PROVE x \in Elements(s \o t)
  <2>1. PICK a \in 1 .. Len(t) : x = t[a]
    BY DEF Elements
  <2>2. a + Len(s) \in DOMAIN (s \o t) /\ (s \o t)[a + Len(s)] = x
    BY <2>1
  <2> QED
    BY <2>2 DEF Elements
<1> QED
  BY <1>1, <1>2, <1>3

LEMMA ConcatIncreasing ==
  ASSUME NEW s \in Seq(Nat), NEW t \in Seq(Nat), Increasing(s), Increasing(t),
         \A x \in Elements(s), y \in Elements(t) : x < y
  PROVE  Increasing(s \o t)
<1> SUFFICES ASSUME NEW a \in 1 .. Len(s \o t), NEW b \in 1 .. Len(s \o t), a < b
             PROVE  (s \o t)[a] < (s \o t)[b]
  BY DEF Increasing
<1>1. CASE b <= Len(s)
  BY <1>1 DEF Increasing
<1>2. CASE a > Len(s)
  <2>1. a - Len(s) \in DOMAIN t /\ b - Len(s) \in DOMAIN t /\ a - Len(s) < b - Len(s)
    BY <1>2
  <2>2. (s \o t)[a] = t[a - Len(s)] /\ (s \o t)[b] = t[b - Len(s)]
    BY <1>2
  <2> QED
    BY <2>1, <2>2 DEF Increasing
<1>3. CASE a <= Len(s) /\ b > Len(s)
  <2>1. (s \o t)[a] \in Elements(s) /\ (s \o t)[b] \in Elements(t)
    <3>1. a \in DOMAIN s /\ (s \o t)[a] = s[a]
      BY <1>3
    <3>2. b - Len(s) \in DOMAIN t /\ (s \o t)[b] = t[b - Len(s)]
      BY <1>3
    <3> QED
      BY <3>1, <3>2 DEF Elements
  <2> QED
    BY <2>1
<1> QED
  BY <1>1, <1>2, <1>3

\* A read takes the next bytes, and the line goes on after them.
LEMMA TakenFlow ==
  ASSUME TypeOK, LineInv, NEW n \in 0 .. Len(line)
  PROVE  /\ Increasing(Taken(n))
         /\ Elements(Taken(n)) = (TakenOff + 1) .. (TakenOff + n)
         /\ Len(Left(n)) = Len(line) - n
         /\ \A j \in DOMAIN Left(n) : Left(n)[j] = TakenOff + n + j
<1>1. line \in Seq(Nat) /\ Len(line) \in Nat /\ sent \in Nat /\ TakenOff \in Nat /\ n \in Nat
  BY DEF TypeOK, LineInv
<1>2. Len(Taken(n)) = n /\ DOMAIN Taken(n) = 1 .. n
  BY <1>1 DEF Taken
<1>3. \A j \in 1 .. n : Taken(n)[j] = TakenOff + j
  BY <1>1, <1>2 DEF Taken, LineInv
<1>4. Len(Left(n)) = Len(line) - n /\ DOMAIN Left(n) = 1 .. (Len(line) - n)
  BY <1>1 DEF Left
<1>5. \A j \in 1 .. (Len(line) - n) : Left(n)[j] = TakenOff + n + j
  <2> TAKE j \in 1 .. (Len(line) - n)
  <2>1. Left(n)[j] = line[n + j] /\ n + j \in DOMAIN line
    BY <1>1 DEF Left
  <2>2. line[n + j] = TakenOff + (n + j)
    BY <2>1 DEF LineInv
  <2> QED
    BY <1>1, <2>1, <2>2
<1>6. Increasing(Taken(n))
  BY <1>1, <1>2, <1>3 DEF Increasing
<1>7. Elements(Taken(n)) = (TakenOff + 1) .. (TakenOff + n)
  <2>1. ASSUME NEW x \in (TakenOff + 1) .. (TakenOff + n) PROVE x \in Elements(Taken(n))
    <3>1. x - TakenOff \in 1 .. n /\ Taken(n)[x - TakenOff] = x
      BY <1>1, <1>3
    <3> QED
      BY <1>2, <3>1 DEF Elements
  <2>2. ASSUME NEW x \in Elements(Taken(n)) PROVE x \in (TakenOff + 1) .. (TakenOff + n)
    BY <1>1, <1>2, <1>3 DEF Elements
  <2> QED
    BY <2>1, <2>2
<1> QED
  BY <1>4, <1>5, <1>6, <1>7

LEMMA EmptyFlow == Elements(<<>>) = {} /\ Increasing(<<>>) /\ <<>> \in Seq(Nat)
BY DEF Elements, Increasing

\* Bytes leave the line and n of them are with who took them.
LEMMA LineShortened ==
  ASSUME TypeOK, LineInv, NEW n \in 0 .. Len(line), line' = Left(n), sent' = sent
  PROVE  LineInv' /\ TakenOff' = TakenOff + n
<1>1. Len(line') = Len(line) - n /\ Len(line) \in Nat /\ sent \in Nat
  BY TakenFlow DEF TypeOK
<1>2. TakenOff' = TakenOff + n
  BY <1>1 DEF TakenOff
<1>3. TakenOff' \in Nat
  BY <1>2 DEF LineInv
<1>4. \A j \in DOMAIN line' : line'[j] = TakenOff' + j
  BY <1>2, TakenFlow
<1> QED
  BY <1>2, <1>3, <1>4 DEF LineInv

\* A read that returns hands over what its operation put into the buffer.
LEMMA FilledReturned ==
  ASSUME TypeOK, ReadInv, got' = got \o filled, lost' = lost, filled' = <<>>, TakenOff' = TakenOff
  PROVE  ReadInv'
<1>1. got \in Seq(Nat) /\ filled \in Seq(Nat)
  BY FilledType DEF TypeOK
<1>2. Elements(got') = Elements(got) \union Elements(filled)
  BY <1>1, ConcatElements
<1>3. Increasing(got')
  BY <1>1, ConcatIncreasing DEF ReadInv
<1>4. Elements(filled') = {} /\ Increasing(filled')
  BY EmptyFlow
<1>5. Elements(got') \union Elements(lost') \union Elements(filled') = 1 .. TakenOff'
  BY <1>2, <1>4 DEF ReadInv
<1>6. Elements(got') \intersect Elements(lost') = {}
  BY <1>2 DEF ReadInv
<1> QED
  BY <1>3, <1>4, <1>5, <1>6 DEF ReadInv

\* A call that was given up drops what its operation read.
LEMMA FilledDropped ==
  ASSUME TypeOK, ReadInv, got' = got, lost' = lost \o filled, filled' = <<>>, TakenOff' = TakenOff
  PROVE  ReadInv'
<1>1. lost \in Seq(Nat) /\ filled \in Seq(Nat) /\ got \in Seq(Nat)
  BY FilledType DEF TypeOK
<1>2. Elements(lost') = Elements(lost) \union Elements(filled)
  BY <1>1, ConcatElements
<1>3. Elements(filled') = {} /\ Increasing(filled')
  BY EmptyFlow
<1>4. Elements(got) \intersect Elements(filled) = {}
  <2>1. \A x \in Elements(got) : x \in Nat
    BY <1>1 DEF Elements
  <2> QED
    BY <2>1 DEF ReadInv
<1>5. Elements(got') \union Elements(lost') \union Elements(filled') = 1 .. TakenOff'
  BY <1>2, <1>3 DEF ReadInv
<1>6. Elements(got') \intersect Elements(lost') = {}
  BY <1>2, <1>4 DEF ReadInv
<1> QED
  BY <1>3, <1>5, <1>6 DEF ReadInv

\* Bytes that have left the line were below what is taken from it now.
LEMMA TakenAbove ==
  ASSUME TypeOK, LineInv, ReadInv, NEW n \in 0 .. Len(line)
  PROVE  /\ \A x \in Elements(got) \union Elements(lost) \union Elements(filled),
                y \in Elements(Taken(n)) : x < y
         /\ (1 .. TakenOff) \union Elements(Taken(n)) = 1 .. (TakenOff + n)
<1>1. TakenOff \in Nat /\ n \in Nat
  BY DEF LineInv, TypeOK
<1>2. Elements(Taken(n)) = (TakenOff + 1) .. (TakenOff + n)
  BY TakenFlow
<1>3. Elements(got) \union Elements(lost) \union Elements(filled) = 1 .. TakenOff
  BY DEF ReadInv
<1> QED
  BY <1>1, <1>2, <1>3

\* An operation of the reader takes bytes off the line.
LEMMA FilledTaken ==
  ASSUME TypeOK, LineInv, ReadInv, filled = <<>>, NEW n \in 0 .. Len(line),
         filled' = Taken(n), got' = got, lost' = lost, TakenOff' = TakenOff + n
  PROVE  ReadInv'
<1>1. Elements(filled) = {}
  BY EmptyFlow
<1>2. Increasing(filled')
  BY TakenFlow
<1>3. \A x \in Elements(got'), y \in Elements(filled') : x < y
  BY TakenAbove
<1>4. Elements(got') \union Elements(lost') \union Elements(filled') = 1 .. TakenOff'
  BY <1>1, TakenAbove DEF ReadInv
<1>5. Elements(filled') \intersect Elements(lost') = {}
  <2>1. \A x \in Elements(lost), y \in Elements(Taken(n)) : x < y
    BY TakenAbove
  <2>2. \A x \in Elements(lost) : x \in Nat
    BY DEF Elements, TypeOK
  <2> QED
    BY <2>1, <2>2
<1> QED
  BY <1>2, <1>3, <1>4, <1>5 DEF ReadInv

\* An operation without a call takes bytes off the line.
LEMMA OrphanTaken ==
  ASSUME TypeOK, LineInv, ReadInv, NEW n \in 0 .. Len(line),
         lost' = lost \o Taken(n), got' = got, filled' = filled, TakenOff' = TakenOff + n
  PROVE  ReadInv'
<1>1. lost \in Seq(Nat) /\ Taken(n) \in Seq(Nat)
  <2>1. n \in 0 .. n
    BY DEF TypeOK
  <2> QED
    BY <2>1, TakenType DEF TypeOK
<1>2. Elements(lost') = Elements(lost) \union Elements(Taken(n))
  BY <1>1, ConcatElements
<1>3. \A x \in Elements(got) \union Elements(filled), y \in Elements(Taken(n)) : x < y /\ x \in Nat
  <2>1. \A x \in Elements(got) \union Elements(filled) : x \in Nat
    BY FilledType DEF TypeOK, Elements
  <2> QED
    BY <2>1, TakenAbove
<1>4. Elements(got') \union Elements(lost') \union Elements(filled') = 1 .. TakenOff'
  BY <1>2, TakenAbove DEF ReadInv
<1>5. Elements(got') \intersect Elements(lost') = {}
  BY <1>2, <1>3 DEF ReadInv
<1>6. Elements(filled') \intersect Elements(lost') = {}
  BY <1>2, <1>3 DEF ReadInv
<1> QED
  BY <1>4, <1>5, <1>6 DEF ReadInv

LEMMA FlowInit == Init => FlowInv
<1> SUFFICES ASSUME Init PROVE LineInv /\ ReadInv
  BY DEF FlowInv
<1>1. TakenOff = 0 /\ LineInv
  <2>1. Len(line) = 0 /\ sent = 0 /\ DOMAIN line = {}
    BY DEF Init
  <2> QED
    BY <2>1 DEF TakenOff, LineInv
<1>2. ReadInv
  <2>1. got = <<>> /\ lost = <<>> /\ filled = <<>> /\ 1 .. TakenOff = {}
    BY <1>1 DEF Init
  <2>2. Increasing(got) /\ Increasing(filled) /\ Elements(got) = {} /\ Elements(lost) = {}
          /\ Elements(filled) = {}
    BY <2>1, EmptyFlow
  <2> QED
    BY <2>1, <2>2 DEF ReadInv
<1> QED
  BY <1>1, <1>2

LEMMA FlowPreserved == TypeOK /\ FlowInv /\ [Next]_vars => FlowInv'
<1> SUFFICES ASSUME TypeOK, FlowInv, [Next]_vars, ~guessed' PROVE (LineInv /\ ReadInv)'
  BY DEF FlowInv
<1> USE DEF bytes, closing, calls, Callers
<1>0. ~ReadAtOnce /\ guessed' = guessed
  BY DEF Next, Step, Call, Close, Read, ReadAtOnce, ReaderEnds, Issue, Write, Return,
         Complete, Canceled, Timeout, CancelIo, Released, GiveUp, Abandon, Cancel, Join,
         Free, Arrive, Done, Failed, Aborted, OrphanEnds, vars
<1>a. LineInv /\ ReadInv
  BY <1>0 DEF FlowInv
<1>b. ASSUME UNCHANGED <<line, sent>> PROVE LineInv' /\ TakenOff' = TakenOff
  BY <1>a, <1>b DEF LineInv, TakenOff
<1>c. ASSUME UNCHANGED bytes PROVE (LineInv /\ ReadInv)'
  BY <1>a, <1>b, <1>c DEF ReadInv
<1>1. CASE Read \/ ReaderEnds \/ (\E t \in Writers : Write(t))
  BY <1>1, <1>c DEF Read, ReaderEnds, Write, Issue
<1>2. ASSUME NEW t \in Callers, Complete(t) PROVE (LineInv /\ ReadInv)'
  <2>1. CASE t = Reader
    <3>1. got' = got \o filled /\ lost' = lost /\ filled' = <<>>
      BY <1>2, <2>1 DEF Complete, Return
    <3>2. UNCHANGED <<line, sent>>
      BY <1>2 DEF Complete, Return
    <3> QED
      BY <1>a, <1>b, <3>1, <3>2, FilledReturned
  <2>2. CASE t # Reader
    BY <1>2, <1>c, <2>2 DEF Complete, Return
  <2> QED
    BY <2>1, <2>2
<1>3. ASSUME NEW t \in Callers, Released(t) \/ GiveUp(t) PROVE (LineInv /\ ReadInv)'
  <2>1. CASE t = Reader
    <3>1. got' = got /\ lost' = lost \o filled /\ filled' = <<>>
      BY <1>3, <2>1 DEF Released, GiveUp, Return, Dropped
    <3>2. UNCHANGED <<line, sent>>
      BY <1>3 DEF Released, GiveUp, Return
    <3> QED
      BY <1>a, <1>b, <3>1, <3>2, FilledDropped
  <2>2. CASE t # Reader
    BY <1>3, <1>c, <2>2 DEF Released, GiveUp, Return, Dropped
  <2> QED
    BY <2>1, <2>2
<1>4. ASSUME NEW t \in Callers, Canceled(t) \/ Timeout(t) \/ CancelIo(t)
      PROVE  (LineInv /\ ReadInv)'
  BY <1>4, <1>c DEF Canceled, Timeout, CancelIo
<1>5. CASE Abandon \/ Cancel \/ Join \/ Free
  BY <1>5, <1>c DEF Abandon, Cancel, Join, Free
<1>6. CASE Arrive
  <2>1. line' = Append(line, sent + 1) /\ sent' = sent + 1 /\ UNCHANGED <<got, lost, filled>>
    BY <1>6 DEF Arrive
  <2>2. line \in Seq(Nat) /\ sent \in Nat /\ Len(line) \in Nat
    BY DEF TypeOK
  <2>3. Len(line') = Len(line) + 1 /\ TakenOff' = TakenOff
    BY <2>1, <2>2 DEF TakenOff
  <2>4. \A j \in DOMAIN line' : line'[j] = TakenOff' + j
    <3> TAKE j \in DOMAIN line'
    <3>1. CASE j \in DOMAIN line
      BY <1>a, <2>1, <2>2, <2>3, <3>1 DEF LineInv
    <3>2. CASE j = Len(line) + 1
      BY <2>1, <2>2, <2>3, <3>2 DEF TakenOff
    <3> QED
      BY <2>1, <2>2, <3>1, <3>2
  <2> QED
    BY <1>a, <2>1, <2>3, <2>4 DEF LineInv, ReadInv
<1>7. ASSUME NEW t \in Callers, Done(t) PROVE (LineInv /\ ReadInv)'
  <2>1. CASE t = Reader
    <3>1. PICK n \in 1 .. Len(line) : filled' = Taken(n) /\ line' = Left(n)
      BY <1>7, <2>1 DEF Done
    <3>2. n \in 0 .. Len(line) /\ sent' = sent /\ got' = got /\ lost' = lost
      BY <1>7 DEF Done, TypeOK
    <3>3. filled = <<>>
      BY <1>7, <2>1 DEF Done, TypeOK
    <3>4. LineInv' /\ TakenOff' = TakenOff + n
      BY <1>a, <3>1, <3>2, LineShortened
    <3> QED
      BY <1>a, <3>1, <3>2, <3>3, <3>4, FilledTaken
  <2>2. CASE t # Reader
    BY <1>7, <1>c, <2>2 DEF Done
  <2> QED
    BY <2>1, <2>2
<1>8. ASSUME NEW t \in Callers, Failed(t) \/ Aborted(t) PROVE (LineInv /\ ReadInv)'
  BY <1>8, <1>c DEF Failed, Aborted
<1>9. ASSUME NEW t \in Callers, OrphanEnds(t) PROVE (LineInv /\ ReadInv)'
  <2>1. PICK n \in 0 .. (IF t = Reader THEN Len(line) ELSE 0) :
          lost' = lost \o Taken(n) /\ line' = Left(n)
    BY <1>9 DEF OrphanEnds
  <2>2. n \in 0 .. Len(line) /\ sent' = sent /\ got' = got /\ filled' = filled
    BY <1>9 DEF OrphanEnds, TypeOK
  <2>3. LineInv' /\ TakenOff' = TakenOff + n
    BY <1>a, <2>1, <2>2, LineShortened
  <2> QED
    BY <1>a, <2>1, <2>2, <2>3, OrphanTaken
<1>10. CASE UNCHANGED vars
  BY <1>10, <1>c DEF vars
<1> QED
  BY <1>0, <1>1, <1>2, <1>3, <1>4, <1>5, <1>6, <1>7, <1>8, <1>9, <1>10
     DEF Next, Step, Call, Close

\* The reads return the bytes of the device in order and none twice, and none
\* disappears but with an operation that was given up: what thReceive parses is
\* what the device sent, however operations, timeouts and cancels interleave.
THEOREM BytesComeInOrder == SafeSpec => []BytesInOrder
<1>1. TypeOK /\ FlowInv => BytesInOrder
  <2> SUFFICES ASSUME TypeOK, FlowInv, ~guessed
               PROVE  /\ \A a, b \in DOMAIN got : a < b => got[a] < got[b]
                      /\ Elements(got) \union Elements(lost) \union Elements(filled)
                           \union Elements(line) = 1 .. sent
                      /\ Elements(got) \intersect Elements(lost) = {}
    BY DEF BytesInOrder
  <2>1. LineInv /\ ReadInv
    BY DEF FlowInv
  <2>2. line \in Seq(Nat) /\ sent \in Nat /\ Len(line) \in Nat /\ Len(line) \in 0 .. Len(line)
    BY DEF TypeOK
  <2>3. Taken(Len(line)) = line
    BY <2>2 DEF Taken
  <2>4. (1 .. TakenOff) \union Elements(line) = 1 .. (TakenOff + Len(line))
    BY <2>1, <2>2, <2>3, TakenAbove
  <2>5. TakenOff + Len(line) = sent
    BY <2>2 DEF TakenOff
  <2> QED
    BY <2>1, <2>4, <2>5 DEF ReadInv, Increasing
<1>2. TypeOK /\ FlowInv /\ [Next]_vars => FlowInv'
  BY FlowPreserved
<1> QED
  BY <1>1, <1>2, FlowInit, InvHolds, PTL DEF SafeSpec

=============================================================================
