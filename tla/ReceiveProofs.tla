--------------------------- MODULE ReceiveProofs ---------------------------
(***************************************************************************)
(* For every layout of the records and every size of the window: the bytes *)
(* moved to the window always fit.  The argument is that a scan of three   *)
(* or more bytes always consumes some, so that an iteration which consumes *)
(* nothing, and with it the loop, ends with less than three.               *)
(***************************************************************************)
EXTENDS Receive, SequenceTheorems, WellFoundedInduction, TLAPS

\* An iteration that consumed nothing left next to nothing.
KeptInv ==
  /\ consumed = 0 => Len(window) < 3
  /\ pc = "read" => consumed = 0

Inv == TypeOK /\ WindowNeverFull /\ KeptInv

-----------------------------------------------------------------------------
LEMMA DropProperties ==
  ASSUME NEW S, NEW s \in Seq(S), NEW n \in 0 .. Len(s)
  PROVE  Drop(s, n) \in Seq(S) /\ Len(Drop(s, n)) = Len(s) - n
<1>1. Len(s) \in Nat /\ \A i \in n + 1 .. Len(s) : s[i] \in S
  BY LenProperties
<1> QED
  BY <1>1, SubSeqProperties DEF Drop

LEMMA PrefixProperties ==
  ASSUME NEW S, NEW s \in Seq(S), NEW n \in 0 .. Len(s)
  PROVE  SubSeq(s, 1, n) \in Seq(S) /\ Len(SubSeq(s, 1, n)) = n
<1>1. Len(s) \in Nat /\ \A i \in 1 .. n : s[i] \in S
  BY LenProperties
<1> QED
  BY <1>1, SubSeqProperties

\* Some numbers have a least one.
LEMMA LeastOf ==
  ASSUME NEW T \in SUBSET Nat, T # {}
  PROVE  \E o \in T : \A p \in T : o <= p
<1> DEFINE less == {ss \in Nat \X Nat : ss[1] < ss[2]}
<1>1. IsWellFoundedOn(less, Nat)
  BY NatLessThanWellFounded, Zenon DEF OpToRel
<1>2. PICK o \in T : \A p \in T : ~ (<<p, o>> \in less)
  BY ONLY <1>1, WFMin, T \in SUBSET Nat, T # {}
<1>3. ASSUME NEW p \in T PROVE o <= p
  <2>1. p \in Nat /\ o \in Nat
    OBVIOUS
  <2>2. ~ (p < o)
    BY <1>2, <2>1
  <2> QED
    BY <2>1, <2>2
<1> QED
  BY <1>3

\* A window with a record in it has a first one.
LEMMA FirstIsHit ==
  ASSUME NEW w \in Seq(Byte), Hits(w) # {}
  PROVE  First(w) \in Hits(w) /\ \A p \in Hits(w) : First(w) <= p
<1>1. Hits(w) \in SUBSET Nat
  BY LenProperties DEF Hits
<1>2. \E o \in Hits(w) : \A p \in Hits(w) : o <= p
  BY <1>1, LeastOf
<1> QED
  BY <1>2 DEF First

\* What _IcBox_dataReceived consumes: never more than there is, and something
\* whenever there are three bytes.
LEMMA ScanBounds ==
  ASSUME NEW w \in Seq(Byte)
  PROVE  /\ DataReceived(w) \in 0 .. Len(w)
         /\ Len(w) >= 3 => DataReceived(w) > 0
<1>1. Len(w) \in Nat /\ Size \in Nat /\ 3 <= Size
  BY LenProperties, LayoutFits
<1>2. Scanned(w) \in 0 .. Len(w) /\ (Len(w) >= 3 => Scanned(w) > 0)
  <2>1. CASE Hits(w) = {}
    BY <1>1, <2>1 DEF Scanned
  <2>2. CASE Hits(w) # {}
    <3>1. First(w) \in Hits(w)
      BY <2>2, FirstIsHit
    <3>2. /\ First(w) \in Nat
          /\ IsAnswer(w, First(w)) => Len(w) - First(w) >= 3
          /\ ~IsAnswer(w, First(w)) => Len(w) - First(w) >= Size
      BY <1>1, <3>1 DEF Hits, IsAnswer, IsCall
    <3> QED
      BY <1>1, <2>2, <3>2 DEF Scanned, Until
  <2> QED
    BY <2>1, <2>2
<1> QED
  BY <1>1, <1>2 DEF DataReceived

-----------------------------------------------------------------------------
LEMMA InitInv == Init => Inv
<1> SUFFICES ASSUME Init PROVE Inv
  OBVIOUS
<1>1. /\ <<>> \in Seq(Byte) /\ <<>> \in Seq(Record)
      /\ <<>> \in Seq({"I", "D", "A"} \X Byte)
      /\ Len(<<>>) = 0
  BY EmptySeq
<1>2. WindowSize \in Nat /\ 3 <= WindowSize
  BY LayoutFits
<1>3. TypeOK
  BY <1>1 DEF Init, TypeOK
<1>4. Len(window) = 0 /\ consumed = 0
  BY <1>1 DEF Init
<1> QED
  BY <1>2, <1>3, <1>4 DEF Inv, WindowNeverFull, KeptInv

LEMMA ReadInv == ASSUME Inv, Read PROVE Inv'
<1>1. PICK n \in 1 .. Lesser(Len(line), WindowSize) :
        data' = SubSeq(line, 1, n) /\ line' = Drop(line, n)
  BY DEF Read
<1>2. Len(line) \in Nat /\ WindowSize \in Nat
  BY LenProperties, LayoutFits DEF Inv, TypeOK
<1>3. n \in 0 .. Len(line)
  BY <1>2 DEF Lesser
<1>4. data' \in Seq(Byte) /\ line' \in Seq(Byte)
  BY <1>1, <1>3, DropProperties, PrefixProperties DEF Inv, TypeOK
<1> QED
  BY <1>4 DEF Read, Inv, TypeOK, WindowNeverFull, KeptInv

\* What an iteration moves to the window fits into it.
LEMMA MovedFits ==
  ASSUME Inv
  PROVE  /\ Moved \in 0 .. Len(data)
         /\ Filled \in Seq(Byte)
         /\ Len(Filled) = Len(window) + Moved
         /\ Len(Filled) <= WindowSize
<1>1. /\ Len(window) \in Nat /\ Len(data) \in Nat /\ WindowSize \in Nat
      /\ Len(window) < WindowSize
  BY LenProperties, LayoutFits DEF Inv, TypeOK, WindowNeverFull
<1>2. Moved \in 0 .. Len(data) /\ Moved <= Unused /\ Unused = WindowSize - Len(window)
  BY <1>1 DEF Moved, Unused, Lesser
<1>3. SubSeq(data, 1, Moved) \in Seq(Byte) /\ Len(SubSeq(data, 1, Moved)) = Moved
  BY <1>2, PrefixProperties DEF Inv, TypeOK
<1>4. ~ (Moved > Unused)
  BY <1>1, <1>2
<1>5. Filled = window \o SubSeq(data, 1, Moved)
  BY <1>4 DEF Filled
<1> QED
  BY <1>1, <1>2, <1>3, <1>5, ConcatProperties DEF Inv, TypeOK

LEMMA ExecuteType ==
  ASSUME TypeOK, NEW w \in Seq(Byte), NEW o \in Hits(w), Execute(w, o)
  PROVE  /\ evDetected' \in BOOLEAN
         /\ told' \in Seq({"I", "D", "A"} \X Byte)
         /\ ignored' \subseteq Byte
<1>1. Len(w) \in Nat /\ o \in Nat
  BY LenProperties DEF Hits
<1>2. ASSUME IsCall(w, o), NEW n \in {NumberAt, KindAt}
      PROVE  w[o + n + 1] \in Byte
  <2>1. n \in Nat /\ n < Size /\ Size \in Nat
    BY LayoutFits
  <2>2. o + n + 1 \in 1 .. Len(w)
    BY <1>1, <1>2, <2>1 DEF IsCall
  <2> QED
    BY <2>2, ElementOfSeq
<1>3. CASE IsAnswer(w, o) /\ evDetected' = TRUE /\ UNCHANGED <<told, ignored>>
  BY <1>3 DEF TypeOK
<1>4. CASE /\ IsCall(w, o) /\ evDetected' = TRUE /\ UNCHANGED told
           /\ ignored' = ignored \union {w[o + NumberAt + 1]}
  BY <1>2, <1>4 DEF TypeOK
<1>5. CASE /\ IsCall(w, o) /\ evDetected' \in BOOLEAN /\ UNCHANGED ignored
           /\ told' = IF w[o + KindAt + 1] \in {"I", "D", "A"}
                        THEN Append(told, Event(w, o)) ELSE told
  <2>1. CASE w[o + KindAt + 1] \in {"I", "D", "A"}
    <3>1. Event(w, o) \in {"I", "D", "A"} \X Byte
      BY <1>2, <1>5, <2>1 DEF Event
    <3> QED
      BY <1>5, <2>1, <3>1, AppendProperties DEF TypeOK
  <2>2. CASE w[o + KindAt + 1] \notin {"I", "D", "A"}
    BY <1>5, <2>2 DEF TypeOK
  <2> QED
    BY <2>1, <2>2
<1> QED
  BY <1>3, <1>4, <1>5 DEF Execute

LEMMA FillInv == ASSUME Inv, Fill PROVE Inv'
<1> DEFINE w == Filled
           c == DataReceived(w)
<1>1. /\ window' = Drop(w, c)
      /\ consumed' = IF Len(w) = c THEN 0 ELSE c
      /\ IF Hits(w) # {} THEN Execute(w, First(w))
                         ELSE UNCHANGED <<evDetected, told, ignored>>
  BY DEF Fill
<1>2. w \in Seq(Byte) /\ Len(w) \in Nat /\ Len(w) <= WindowSize
  BY MovedFits, LenProperties
<1>3. c \in 0 .. Len(w) /\ (Len(w) >= 3 => c > 0)
  BY <1>2, ScanBounds
<1> HIDE DEF w, c
<1>4. window' \in Seq(Byte) /\ Len(window') = Len(w) - c
  BY <1>1, <1>2, <1>3, DropProperties
<1>5. WindowNeverFull'
  <2>1. WindowSize \in Nat /\ 3 < WindowSize
    BY LayoutFits
  <2> QED
    BY <1>2, <1>3, <1>4, <2>1 DEF WindowNeverFull
<1>6. KeptInv'
  BY <1>1, <1>2, <1>3, <1>4 DEF KeptInv, Fill
<1>7. /\ evDetected' \in BOOLEAN
      /\ told' \in Seq({"I", "D", "A"} \X Byte)
      /\ ignored' \subseteq Byte
  <2>1. CASE Hits(w) # {}
    BY <1>1, <1>2, <2>1, FirstIsHit, ExecuteType DEF Inv
  <2>2. CASE Hits(w) = {}
    BY <1>1, <2>2 DEF Inv, TypeOK
  <2> QED
    BY <2>1, <2>2
<1>8. data' \in Seq(Byte)
  BY MovedFits, DropProperties DEF Fill, Inv, TypeOK
<1>9. consumed' \in Nat
  BY <1>1, <1>2, <1>3
<1> QED
  BY <1>4, <1>5, <1>6, <1>7, <1>8, <1>9 DEF Fill, Inv, TypeOK

LEMMA DeviceSendInv ==
  ASSUME Inv, NEW r \in Record, DeviceSend(r) PROVE Inv'
<1>1. Len(sent) \in Nat /\ Len(sent) + 1 \in 1 .. Len(Callers)
  BY LenProperties, CallersSequence DEF DeviceSend, Inv, TypeOK
<1>2. Callers[Len(sent) + 1] \in Byte
  BY <1>1, LenProperties, CallersSequence DEF Byte
<1>3. ASSUME NEW caller \in Byte PROVE Bytes(r, caller) \in Seq(Byte)
  <2>1. CASE r = "answer"
    BY <2>1 DEF Bytes, Byte, Letters
  <2>2. CASE r = "noise"
    BY <2>2 DEF Bytes, Byte, Letters
  <2>3. CASE r \notin {"answer", "noise"}
    <3>1. r \in Byte /\ {"E", "CR", "LF", "x"} \subseteq Byte /\ Size \in Nat
      BY <2>3, LayoutFits DEF Record, Byte
    <3>2. Bytes(r, caller) \in [1 .. Size -> Byte]
      BY <1>3, <2>3, <3>1 DEF Bytes
    <3> QED
      BY <3>1, <3>2
  <2> QED
    BY <2>1, <2>2, <2>3
<1>4. line' \in Seq(Byte)
  BY <1>2, <1>3, ConcatProperties DEF DeviceSend, Inv, TypeOK
<1>5. sent' \in Seq(Record)
  BY AppendProperties DEF DeviceSend, Inv, TypeOK
<1> QED
  BY <1>4, <1>5 DEF DeviceSend, Inv, TypeOK, WindowNeverFull, KeptInv

LEMMA InvPreserved == Inv /\ [Next]_vars => Inv'
<1> SUFFICES ASSUME Inv, [Next]_vars PROVE Inv'
  OBVIOUS
<1>1. CASE FillEnd
  BY <1>1 DEF FillEnd, Inv, TypeOK, WindowNeverFull, KeptInv
<1>2. CASE EchoTest
  BY <1>2 DEF EchoTest, Inv, TypeOK, WindowNeverFull, KeptInv
<1>3. CASE UNCHANGED vars
  BY <1>3 DEF vars, Inv, TypeOK, WindowNeverFull, KeptInv
<1> QED
  BY <1>1, <1>2, <1>3, ReadInv, FillInv, DeviceSendInv DEF Next

LEMMA InvHolds == SafeSpec => []Inv
  BY InitInv, InvPreserved, PTL DEF SafeSpec

\* Every variable of the parser keeps its type.
THEOREM ReceiveTypeCorrect == SafeSpec => []TypeOK
<1>1. Inv => TypeOK
  BY DEF Inv
<1> QED
  BY <1>1, InvHolds, PTL

\* However the reads cut the stream of bytes, there is room in the window for
\* the next one: the memcpy of _IcBox_receiveFunc stays inside of it, and the
\* branch that gives up a byte of a full window is never taken.
THEOREM WindowAlwaysHasRoom == SafeSpec => []WindowNeverFull
<1>1. Inv => WindowNeverFull
  BY DEF Inv
<1> QED
  BY <1>1, InvHolds, PTL

\* No more than two bytes survive from one read to the next.
THEOREM WindowIsEmptied == SafeSpec => []LittleIsKept
<1>1. Inv => LittleIsKept
  BY DEF Inv, KeptInv, LittleIsKept
<1> QED
  BY <1>1, InvHolds, PTL

-----------------------------------------------------------------------------
(***************************************************************************)
(* The events are call records that were sent.  Window, data and line are, *)
(* in this order, the end of the stream that the device sent: reads and    *)
(* iterations move bytes between them and drop some in front.  The mark E  *)
(* of a record says where the record is; so what the parser takes for a    *)
(* call, which has the mark in its place, is a record from its first byte, *)
(* and the marks behind it are those of later records.                     *)
(***************************************************************************)
Pending == (window \o data) \o line

Marks(s) == {k \in DOMAIN s : s[k] = "E"}

\* The mark at k belongs to a record of this kind and caller, of which a part
\* in front may be missing.
RecordAt(s, k, kind, caller) ==
  /\ k + NumberAt > MarkAt => s[k + NumberAt - MarkAt] = caller
  /\ k + KindAt > MarkAt => s[k + KindAt - MarkAt] = kind
  /\ k + Size <= Len(s) + MarkAt + 1

\* own tells of each mark in s which of the records it is.
Owns(own, s, records) ==
  /\ own \in [Marks(s) -> DOMAIN records]
  /\ \A k \in Marks(s) : RecordAt(s, k, records[own[k]], Callers[own[k]])
  /\ \A k, l \in Marks(s) : k < l => own[k] < own[l]

\* Events are of records in front of all that are pending.
StreamInv ==
  /\ Len(sent) <= Len(Callers)
  /\ pc = "read" => data = <<>>
  /\ \E own \in [Marks(Pending) -> DOMAIN sent] :
       /\ Owns(own, Pending, sent)
       /\ \A j \in DOMAIN told : \A k \in Marks(Pending) : CallNo(told[j]) < own[k]

LEMMA PendingType ==
  ASSUME TypeOK
  PROVE  Pending \in Seq(Byte) /\ window \o data \in Seq(Byte)
BY ConcatProperties DEF TypeOK, Pending

LEMMA DropElements ==
  ASSUME NEW s \in Seq(Byte), NEW n \in 0 .. Len(s)
  PROVE  /\ Drop(s, n) \in Seq(Byte) /\ Len(Drop(s, n)) = Len(s) - n
         /\ \A i \in 1 .. (Len(s) - n) : Drop(s, n)[i] = s[i + n]
<1>1. Len(s) \in Nat /\ \A i \in n + 1 .. Len(s) : s[i] \in Byte
  BY LenProperties
<1>2. \A i \in 1 .. (Len(s) - (n + 1) + 1) : SubSeq(s, n + 1, Len(s))[i] = s[n + 1 + i - 1]
  BY <1>1, SubSeqProperties
<1> QED
  BY <1>1, <1>2, DropProperties DEF Drop

\* What is dropped in front of a part is dropped in front of the whole.
LEMMA DropOfConcat ==
  ASSUME NEW s \in Seq(Byte), NEW t \in Seq(Byte), NEW n \in 0 .. Len(s)
  PROVE  Drop(s \o t, n) = Drop(s, n) \o t
<1> DEFINE u == s \o t
           d == Drop(s, n)
<1>1. Len(s) \in Nat /\ Len(t) \in Nat /\ n \in Nat
  BY LenProperties
<1>2. /\ u \in Seq(Byte) /\ Len(u) = Len(s) + Len(t)
      /\ \A i \in 1 .. (Len(s) + Len(t)) : u[i] = IF i <= Len(s) THEN s[i] ELSE t[i - Len(s)]
  BY ConcatProperties
<1>3. /\ d \in Seq(Byte) /\ Len(d) = Len(s) - n
      /\ \A i \in 1 .. (Len(s) - n) : d[i] = s[i + n]
  BY DropElements
<1> HIDE DEF u, d
<1>4. /\ Drop(u, n) \in Seq(Byte) /\ Len(Drop(u, n)) = Len(u) - n
      /\ \A i \in 1 .. (Len(u) - n) : Drop(u, n)[i] = u[i + n]
  <2>1. n \in 0 .. Len(u)
    BY <1>1, <1>2
  <2> QED
    BY <1>2, <2>1, DropElements
<1>5. /\ d \o t \in Seq(Byte) /\ Len(d \o t) = Len(d) + Len(t)
      /\ \A i \in 1 .. (Len(d) + Len(t)) :
           (d \o t)[i] = IF i <= Len(d) THEN d[i] ELSE t[i - Len(d)]
  BY <1>3, ConcatProperties
<1>6. ASSUME NEW i \in 1 .. Len(Drop(u, n)) PROVE Drop(u, n)[i] = (d \o t)[i]
  <2>1. i \in 1 .. (Len(s) + Len(t) - n) /\ i + n \in 1 .. (Len(s) + Len(t))
    BY <1>1, <1>2, <1>4
  <2>2. Drop(u, n)[i] = IF i + n <= Len(s) THEN s[i + n] ELSE t[i + n - Len(s)]
    BY <1>1, <1>2, <1>4, <2>1
  <2>3. (d \o t)[i] = IF i <= Len(s) - n THEN s[i + n] ELSE t[i - (Len(s) - n)]
    BY <1>1, <1>3, <1>5, <2>1
  <2>4. i + n - Len(s) = i - (Len(s) - n)
    BY <1>1, <2>1
  <2> QED
    BY <1>1, <2>1, <2>2, <2>3, <2>4
<1>7. Len(Drop(u, n)) = Len(d \o t)
  BY <1>1, <1>2, <1>3, <1>4, <1>5
<1>8. Drop(u, n) = d \o t
  BY <1>4, <1>5, <1>6, <1>7, SeqEqual
<1> QED
  BY <1>8 DEF u, d

\* A sequence is its first n elements and the others.
LEMMA PrefixAndDrop ==
  ASSUME NEW s \in Seq(Byte), NEW n \in 0 .. Len(s)
  PROVE  SubSeq(s, 1, n) \o Drop(s, n) = s
<1>1. Len(s) \in Nat
  BY LenProperties
<1>2. /\ 1 \in 1 .. (Len(s) + 1) /\ n \in (1 - 1) .. Len(s) /\ Len(s) \in n .. Len(s)
  BY <1>1
<1>3. SubSeq(s, 1, n) \o SubSeq(s, n + 1, Len(s)) = SubSeq(s, 1, Len(s))
  BY <1>2, ConcatAdjacentSubSeq
<1> QED
  BY <1>3, SubSeqFull DEF Drop

LEMMA LayoutNats ==
  /\ Size \in Nat /\ NumberAt \in Nat /\ MarkAt \in Nat /\ KindAt \in Nat
  /\ NumberAt + 3 <= Size /\ MarkAt + 3 <= Size /\ KindAt + 3 <= Size
  /\ NumberAt # MarkAt /\ NumberAt # KindAt /\ MarkAt # KindAt
BY LayoutFits, FieldsApart

\* The owners of marks stay when bytes are dropped in front.
LEMMA OwnsDropped ==
  ASSUME NEW s \in Seq(Byte), NEW records, NEW own, Owns(own, s, records),
         NEW n \in 0 .. Len(s)
  PROVE  /\ \A k \in Marks(Drop(s, n)) : k \in Nat /\ k + n \in Marks(s)
         /\ Owns([k \in Marks(Drop(s, n)) |-> own[k + n]], Drop(s, n), records)
<1> DEFINE d == Drop(s, n)
           left == [k \in Marks(d) |-> own[k + n]]
<1>1. /\ d \in Seq(Byte) /\ Len(d) = Len(s) - n
      /\ \A i \in 1 .. (Len(s) - n) : d[i] = s[i + n]
  BY DropElements
<1>2. Len(s) \in Nat /\ n \in Nat /\ DOMAIN s = 1 .. Len(s) /\ DOMAIN d = 1 .. (Len(s) - n)
  BY <1>1, LenProperties
<1> HIDE DEF d
<1>3. \A k \in Marks(d) : k \in Nat /\ k \in 1 .. (Len(s) - n) /\ k + n \in Marks(s)
  BY <1>1, <1>2 DEF Marks
<1>4. left \in [Marks(d) -> DOMAIN records]
  BY <1>3 DEF Owns
<1>5. ASSUME NEW k \in Marks(d) PROVE RecordAt(d, k, records[left[k]], Callers[left[k]])
  <2> DEFINE r == records[own[k + n]]
             caller == Callers[own[k + n]]
  <2>1. RecordAt(s, k + n, r, caller)
    BY <1>3 DEF Owns
  <2> HIDE DEF r, caller
  <2>2. k \in Nat /\ k \in 1 .. (Len(s) - n)
    BY <1>3
  <2>3. ASSUME NEW f \in Nat, f + 3 <= Size, k + f > MarkAt
        PROVE  d[k + f - MarkAt] = s[k + n + f - MarkAt]
    <3>1. k + n + Size <= Len(s) + MarkAt + 1
      BY <2>1 DEF RecordAt
    <3>2. k + f - MarkAt \in 1 .. (Len(s) - n)
      BY <1>2, <2>2, <2>3, <3>1, LayoutNats
    <3>3. d[k + f - MarkAt] = s[(k + f - MarkAt) + n]
      BY <1>1, <3>2
    <3>4. (k + f - MarkAt) + n = k + n + f - MarkAt
      BY <1>2, <2>2, <2>3, LayoutNats
    <3> QED
      BY <3>3, <3>4
  <2>4. k + NumberAt > MarkAt => d[k + NumberAt - MarkAt] = caller
    <3> HAVE k + NumberAt > MarkAt
    <3>1. k + n + NumberAt > MarkAt
      BY <1>2, <2>2, LayoutNats
    <3> QED
      BY <2>1, <2>3, <3>1, LayoutNats DEF RecordAt
  <2>5. k + KindAt > MarkAt => d[k + KindAt - MarkAt] = r
    <3> HAVE k + KindAt > MarkAt
    <3>1. k + n + KindAt > MarkAt
      BY <1>2, <2>2, LayoutNats
    <3> QED
      BY <2>1, <2>3, <3>1, LayoutNats DEF RecordAt
  <2>6. k + Size <= Len(d) + MarkAt + 1
    BY <1>1, <1>2, <2>1, <2>2, LayoutNats DEF RecordAt
  <2>7. RecordAt(d, k, r, caller)
    BY <2>4, <2>5, <2>6 DEF RecordAt
  <2> QED
    BY <2>7 DEF r, caller
<1>6. ASSUME NEW k \in Marks(d), NEW l \in Marks(d), k < l PROVE left[k] < left[l]
  <2>1. k + n \in Marks(s) /\ l + n \in Marks(s) /\ k + n < l + n
    BY <1>2, <1>3, <1>6
  <2> QED
    BY <2>1 DEF Owns
<1>7. Owns(left, d, records)
  BY <1>4, <1>5, <1>6 DEF Owns
<1> QED
  BY <1>3, <1>7 DEF d

\* What the device sends has at most one mark, of the record that it is.
LEMMA SentMarks ==
  ASSUME NEW r \in Record, NEW caller \in Byte, caller # "E"
  PROVE  /\ Bytes(r, caller) \in Seq(Byte)
         /\ \A k \in Marks(Bytes(r, caller)) :
              k = MarkAt + 1 /\ RecordAt(Bytes(r, caller), k, r, caller)
<1>1. CASE r = "answer"
  <2>1. Bytes(r, caller) = <<"F", "CR", "LF">>
    BY <1>1 DEF Bytes
  <2>2. Bytes(r, caller) \in Seq(Byte)
    BY <2>1 DEF Byte, Letters
  <2>3. Marks(Bytes(r, caller)) = {}
    BY <2>1 DEF Marks
  <2> QED
    BY <2>2, <2>3
<1>2. CASE r = "noise"
  <2>1. Bytes(r, caller) = <<"A">>
    BY <1>2 DEF Bytes
  <2>2. Bytes(r, caller) \in Seq(Byte)
    BY <2>1 DEF Byte, Letters
  <2>3. Marks(Bytes(r, caller)) = {}
    BY <2>1 DEF Marks
  <2> QED
    BY <2>2, <2>3
<1>3. CASE r \notin {"answer", "noise"}
  <2> DEFINE b == Bytes(r, caller)
  <2>1. r \in Kinds /\ r # "E"
    BY <1>3, CallersTellRecords DEF Record
  <2>2. b = [i \in 1 .. Size |->
               CASE i = NumberAt + 1 -> caller
                 [] i = MarkAt + 1 -> "E"
                 [] i = KindAt + 1 -> r
                 [] i = Size - 1 -> "CR"
                 [] i = Size -> "LF"
                 [] OTHER -> "x"]
    BY <1>3 DEF Bytes
  <2> HIDE DEF b
  <2>3. b \in [1 .. Size -> Byte]
    <3>1. {r, caller, "E", "CR", "LF", "x"} \subseteq Byte
      BY <2>1 DEF Byte
    <3> QED
      BY <2>2, <3>1
  <2>4. b \in Seq(Byte) /\ Len(b) = Size /\ DOMAIN b = 1 .. Size
    BY <2>3, LayoutNats
  <2>5. b[NumberAt + 1] = caller /\ b[KindAt + 1] = r
    <3>1. NumberAt + 1 \in 1 .. Size /\ KindAt + 1 \in 1 .. Size
      BY LayoutNats
    <3>2. \A i \in {NumberAt + 1, KindAt + 1} : i # MarkAt + 1 /\ i # Size - 1 /\ i # Size
      BY LayoutNats
    <3>3. KindAt + 1 # NumberAt + 1
      BY LayoutNats
    <3>4. b[NumberAt + 1] = caller
      BY <2>2, <3>1, <3>2, <3>3
    <3>5. b[KindAt + 1] = r
      BY <2>2, <3>1, <3>2, <3>3
    <3> QED
      BY <3>4, <3>5
  <2>6. ASSUME NEW k \in Marks(b) PROVE k = MarkAt + 1
    <3>1. k \in 1 .. Size /\ b[k] = "E"
      BY <2>4 DEF Marks
    <3> QED
      BY <2>1, <2>2, <3>1
  <2>7. RecordAt(b, MarkAt + 1, r, caller)
    <3>1. /\ MarkAt + 1 + NumberAt - MarkAt = NumberAt + 1
          /\ MarkAt + 1 + KindAt - MarkAt = KindAt + 1
          /\ MarkAt + 1 + Size <= Len(b) + MarkAt + 1
      BY <2>4, LayoutNats
    <3> QED
      BY <2>5, <3>1 DEF RecordAt
  <2>8. \A k \in Marks(b) : k = MarkAt + 1 /\ RecordAt(b, k, r, caller)
    BY <2>6, <2>7
  <2> QED
    BY <2>4, <2>8 DEF b
<1> QED
  BY <1>1, <1>2, <1>3

\* The mark of a record that is sent is the last one and is of that record.
LEMMA OwnsExtended ==
  ASSUME NEW s \in Seq(Byte), NEW records \in Seq(Record), NEW own,
         Owns(own, s, records), NEW r \in Record, Len(records) < Len(Callers)
  PROVE  LET n == Len(records) + 1
             t == s \o Bytes(r, Callers[n])
         IN  /\ t \in Seq(Byte)
             /\ \A k \in Marks(t) : k <= Len(s) => k \in Marks(s)
             /\ Owns([k \in Marks(t) |-> IF k <= Len(s) THEN own[k] ELSE n],
                     t, Append(records, r))
<1> DEFINE n == Len(records) + 1
           b == Bytes(r, Callers[n])
           t == s \o b
           all == Append(records, r)
           more == [k \in Marks(t) |-> IF k <= Len(s) THEN own[k] ELSE n]
<1>1. Len(records) \in Nat /\ Len(s) \in Nat /\ DOMAIN s = 1 .. Len(s)
        /\ DOMAIN records = 1 .. Len(records)
  BY LenProperties
<1>2. n \in 1 .. Len(Callers) /\ Callers[n] \in Byte /\ Callers[n] # "E"
  <2>1. n \in 1 .. Len(Callers) /\ n \in DOMAIN Callers
    BY <1>1, LenProperties, CallersSequence
  <2> QED
    BY <2>1, CallersTellRecords DEF Byte
<1>3. b \in Seq(Byte) /\ \A k \in Marks(b) : k = MarkAt + 1 /\ RecordAt(b, k, r, Callers[n])
  BY <1>2, SentMarks
<1>4. /\ all \in Seq(Record) /\ Len(all) = n /\ all[n] = r
      /\ \A i \in 1 .. Len(records) : all[i] = records[i]
      /\ DOMAIN all = 1 .. n
  BY <1>1, AppendProperties, LenProperties
<1> HIDE DEF b, all
<1>5. /\ t \in Seq(Byte) /\ Len(t) = Len(s) + Len(b) /\ Len(b) \in Nat
      /\ DOMAIN t = 1 .. (Len(s) + Len(b)) /\ DOMAIN b = 1 .. Len(b)
      /\ \A i \in 1 .. (Len(s) + Len(b)) : t[i] = IF i <= Len(s) THEN s[i] ELSE b[i - Len(s)]
  BY <1>3, ConcatProperties, LenProperties
<1> HIDE DEF t, n
<1>6. \A k \in Marks(t) : k \in 1 .. (Len(s) + Len(b)) /\ t[k] = "E"
  BY <1>5 DEF Marks
<1>7. ASSUME NEW k \in Marks(t), k <= Len(s)
      PROVE  k \in Marks(s) /\ own[k] \in 1 .. Len(records)
  <2>1. k \in Marks(s)
    BY <1>1, <1>5, <1>6, <1>7 DEF Marks
  <2> QED
    BY <1>1, <2>1 DEF Owns
<1>8. ASSUME NEW k \in Marks(t), ~ (k <= Len(s))
      PROVE  k = Len(s) + MarkAt + 1 /\ MarkAt + 1 \in Marks(b)
  <2>1. k - Len(s) \in 1 .. Len(b) /\ b[k - Len(s)] = "E"
    BY <1>1, <1>5, <1>6, <1>8
  <2>2. k - Len(s) \in Marks(b)
    BY <1>5, <2>1 DEF Marks
  <2>3. k - Len(s) = MarkAt + 1
    BY <1>3, <2>2
  <2>4. k \in Nat
    BY <1>6
  <2> QED
    BY <1>1, <2>2, <2>3, <2>4, LayoutNats
<1>9. n = Len(records) + 1 /\ n \in Nat
  BY <1>1 DEF n
<1>10. more \in [Marks(t) -> DOMAIN all]
  BY <1>1, <1>4, <1>7, <1>9
<1>11. ASSUME NEW k \in Marks(t) PROVE RecordAt(t, k, all[more[k]], Callers[more[k]])
  <2>1. CASE k <= Len(s)
    <3>1. more[k] = own[k] /\ all[more[k]] = records[own[k]]
      BY <1>4, <1>7, <2>1
    <3>2. RecordAt(s, k, records[own[k]], Callers[own[k]])
      BY <1>7, <2>1 DEF Owns
    <3>3. ASSUME NEW f \in Nat, f + 3 <= Size, k + f > MarkAt
          PROVE  t[k + f - MarkAt] = s[k + f - MarkAt]
      <4>1. k \in Nat /\ k + Size <= Len(s) + MarkAt + 1
        BY <1>6, <3>2 DEF RecordAt
      <4>2. k + f - MarkAt \in 1 .. Len(s)
        BY <1>1, <3>3, <4>1, LayoutNats
      <4> QED
        BY <1>1, <1>5, <4>2
    <3>4. k + Size <= Len(t) + MarkAt + 1
      BY <1>1, <1>5, <1>6, <3>2, LayoutNats DEF RecordAt
    <3>5. RecordAt(t, k, records[own[k]], Callers[own[k]])
      BY <3>2, <3>3, <3>4, LayoutNats DEF RecordAt
    <3> QED
      BY <3>1, <3>5
  <2>2. CASE ~ (k <= Len(s))
    <3>1. more[k] = n /\ all[more[k]] = r
      BY <1>4, <2>2
    <3>2. k = Len(s) + MarkAt + 1 /\ RecordAt(b, MarkAt + 1, r, Callers[n])
      BY <1>3, <1>8, <2>2
    <3>3. ASSUME NEW f \in Nat, f + 3 <= Size
          PROVE  /\ MarkAt + 1 + f > MarkAt
                 /\ t[k + f - MarkAt] = b[MarkAt + 1 + f - MarkAt]
      <4>1. k + f - MarkAt = Len(s) + f + 1 /\ MarkAt + 1 + f - MarkAt = f + 1
        BY <1>1, <3>2, <3>3, LayoutNats
      <4>2. MarkAt + 1 + Size <= Len(b) + MarkAt + 1
        BY <3>2 DEF RecordAt
      <4>3. Len(s) + f + 1 \in 1 .. (Len(s) + Len(b)) /\ ~ (Len(s) + f + 1 <= Len(s))
              /\ Len(s) + f + 1 - Len(s) = f + 1
        BY <1>1, <1>5, <3>3, <4>2, LayoutNats
      <4>4. t[Len(s) + f + 1] = b[f + 1]
        BY <1>5, <4>3
      <4>5. MarkAt + 1 + f > MarkAt
        BY <3>3, LayoutNats
      <4>6. t[k + f - MarkAt] = b[MarkAt + 1 + f - MarkAt]
        BY <4>1, <4>4
      <4> QED
        BY <4>5, <4>6
    <3>4. k + Size <= Len(t) + MarkAt + 1
      <4>1. MarkAt + 1 + Size <= Len(b) + MarkAt + 1
        BY <3>2 DEF RecordAt
      <4> QED
        BY <1>1, <1>5, <3>2, <4>1, LayoutNats
    <3>5. t[k + NumberAt - MarkAt] = Callers[n] /\ t[k + KindAt - MarkAt] = r
      <4>1. /\ b[MarkAt + 1 + NumberAt - MarkAt] = Callers[n]
            /\ b[MarkAt + 1 + KindAt - MarkAt] = r
        BY <3>2, <3>3, LayoutNats DEF RecordAt
      <4> QED
        BY <3>3, <4>1, LayoutNats
    <3>6. RecordAt(t, k, r, Callers[n])
      BY <3>4, <3>5 DEF RecordAt
    <3> QED
      BY <3>1, <3>6
  <2> QED
    BY <2>1, <2>2
<1>12. ASSUME NEW k \in Marks(t), NEW l \in Marks(t), k < l PROVE more[k] < more[l]
  <2>1. k \in Nat /\ l \in Nat
    BY <1>6
  <2>2. CASE l <= Len(s)
    <3>1. k <= Len(s)
      BY <1>1, <1>12, <2>1, <2>2
    <3> QED
      BY <1>7, <1>12, <2>2, <3>1 DEF Owns
  <2>3. CASE k <= Len(s) /\ ~ (l <= Len(s))
    BY <1>1, <1>7, <1>9, <2>3
  <2>4. CASE ~ (k <= Len(s))
    <3>1. ~ (l <= Len(s))
      BY <1>1, <1>12, <2>1, <2>4
    <3>2. k = l
      BY <1>8, <2>4, <3>1
    <3> QED
      BY <1>12, <2>1, <3>2
  <2> QED
    BY <2>2, <2>3, <2>4
<1>13. Owns(more, t, all)
  BY <1>10, <1>11, <1>12 DEF Owns
<1> QED
  BY <1>5, <1>7, <1>13 DEF t, b, n, all

LEMMA CallNoIs ==
  ASSUME NEW i \in DOMAIN Callers, NEW kind
  PROVE  CallNo(<<kind, Callers[i]>>) = i
<1>1. \A j \in DOMAIN Callers : Callers[j] = Callers[i] => j = i
  BY CallersTellRecords
<1> QED
  BY <1>1 DEF CallNo

\* Owners for pending bytes with some dropped in front, if no event was told.
LEMMA StreamDropped ==
  ASSUME TypeOK, StreamInv, ToldWasSent, NEW n \in 0 .. Len(Pending),
         Pending' = Drop(Pending, n), UNCHANGED <<sent, told>>,
         pc' = "read" => data' = <<>>
  PROVE  StreamInv' /\ ToldWasSent'
<1>1. PICK own \in [Marks(Pending) -> DOMAIN sent] :
        /\ Owns(own, Pending, sent)
        /\ \A j \in DOMAIN told : \A k \in Marks(Pending) : CallNo(told[j]) < own[k]
  BY DEF StreamInv
<1> DEFINE left == [k \in Marks(Drop(Pending, n)) |-> own[k + n]]
<1>2. /\ \A k \in Marks(Drop(Pending, n)) : k + n \in Marks(Pending)
      /\ Owns(left, Drop(Pending, n), sent)
  BY <1>1, OwnsDropped, PendingType DEF TypeOK
<1>3. left \in [Marks(Pending') -> DOMAIN sent'] /\ Owns(left, Pending', sent')
  BY <1>2 DEF Owns
<1>4. \A j \in DOMAIN told' : \A k \in Marks(Pending') : CallNo(told'[j]) < left[k]
  BY <1>1, <1>2
<1>5. ToldWasSent'
  BY DEF ToldWasSent
<1> HIDE DEF left
<1>6. Len(sent') <= Len(Callers)
  BY DEF StreamInv
<1> QED
  BY <1>3, <1>4, <1>5, <1>6 DEF StreamInv, Owns, RecordAt, Marks

\* A read only moves bytes.
LEMMA ReadPending ==
  ASSUME Inv, StreamInv, Read
  PROVE  Pending' = Pending /\ Pending = window \o line
<1>1. PICK n \in 1 .. Lesser(Len(line), WindowSize) :
        data' = SubSeq(line, 1, n) /\ line' = Drop(line, n)
  BY DEF Read
<1>2. Len(line) \in Nat /\ WindowSize \in Nat
  BY LenProperties, LayoutFits DEF Inv, TypeOK
<1>3. n \in 0 .. Len(line)
  BY <1>2 DEF Lesser
<1>4. data' \in Seq(Byte) /\ line' \in Seq(Byte) /\ data' \o line' = line
  BY <1>1, <1>3, DropProperties, PrefixProperties, PrefixAndDrop DEF Inv, TypeOK
<1>5. Pending' = window \o line
  <2>1. Pending' = (window \o data') \o line'
    BY DEF Pending, Read
  <2>2. window \in Seq(Byte)
    BY DEF Inv, TypeOK
  <2>3. (window \o data') \o line' = window \o (data' \o line')
    <3>1. data' \in Seq(Byte) /\ line' \in Seq(Byte)
      BY <1>4
    <3> QED
      BY ONLY <2>2, <3>1, ConcatAssociative
  <2> QED
    BY <1>4, <2>1, <2>3
<1>6. Pending = window \o line
  <2>1. data = <<>>
    BY DEF StreamInv, Read
  <2> QED
    BY <2>1, ConcatEmptySeq DEF Pending, Inv, TypeOK
<1> QED
  BY <1>5, <1>6

LEMMA ReadStream ==
  ASSUME Inv, StreamInv, ToldWasSent, Read
  PROVE  StreamInv' /\ ToldWasSent'
<1>1. Pending' = Drop(Pending, 0) /\ 0 \in 0 .. Len(Pending)
  <2>1. Pending \in Seq(Byte) /\ Len(Pending) \in Nat
    BY PendingType, LenProperties DEF Inv
  <2> QED
    BY <2>1, ReadPending, SubSeqFull DEF Drop
<1> QED
  BY <1>1, StreamDropped DEF Read, Inv

\* What is pending begins with the window that an iteration scans.
LEMMA FilledPending ==
  ASSUME Inv
  PROVE  LET rest == Drop(data, Moved) \o line
         IN  /\ rest \in Seq(Byte)
             /\ Pending = Filled \o rest
<1> DEFINE p == SubSeq(data, 1, Moved)
           d == Drop(data, Moved)
<1>1. p \in Seq(Byte) /\ d \in Seq(Byte) /\ p \o d = data
  BY MovedFits, PrefixProperties, DropProperties, PrefixAndDrop DEF Inv, TypeOK
<1>2. window \in Seq(Byte) /\ line \in Seq(Byte)
  BY DEF Inv, TypeOK
<1>3. Filled = window \o p
  <2>1. /\ Len(window) \in Nat /\ Len(data) \in Nat /\ WindowSize \in Nat
        /\ Len(window) < WindowSize
    BY LenProperties, LayoutFits DEF Inv, TypeOK, WindowNeverFull
  <2>2. ~ (Moved > Unused)
    BY <2>1 DEF Moved, Unused, Lesser
  <2> QED
    BY <2>2 DEF Filled
<1> HIDE DEF p, d
<1>4. window \o p \in Seq(Byte) /\ d \o line \in Seq(Byte)
  BY <1>1, <1>2, ConcatProperties
<1>5. window \o data = (window \o p) \o d
  <2>1. (window \o p) \o d = window \o (p \o d)
    <3>1. p \in Seq(Byte) /\ d \in Seq(Byte) /\ window \in Seq(Byte)
      BY <1>1, <1>2
    <3> QED
      BY ONLY <3>1, ConcatAssociative
  <2> QED
    BY <1>1, <2>1
<1>6. Pending = (window \o p) \o (d \o line)
  <2>1. ((window \o p) \o d) \o line = (window \o p) \o (d \o line)
    BY <1>1, <1>2, <1>4, ConcatAssociative
  <2> QED
    BY <1>5, <2>1 DEF Pending
<1> QED
  BY <1>3, <1>4, <1>6 DEF d

LEMMA FillStream ==
  ASSUME Inv, StreamInv, ToldWasSent, Fill
  PROVE  StreamInv' /\ ToldWasSent'
<1> DEFINE w == Filled
           c == DataReceived(w)
           rest == Drop(data, Moved) \o line
           o == First(w)
<1>1. /\ window' = Drop(w, c) /\ data' = Drop(data, Moved)
      /\ IF Hits(w) # {} THEN Execute(w, o) ELSE UNCHANGED <<evDetected, told, ignored>>
      /\ UNCHANGED <<line, sent, pc>> /\ pc = "fill"
  BY DEF Fill
<1>2. /\ w \in Seq(Byte) /\ Len(w) \in Nat /\ DOMAIN w = 1 .. Len(w)
      /\ rest \in Seq(Byte) /\ Pending = w \o rest
  BY MovedFits, LenProperties, FilledPending
<1>3. c \in 0 .. Len(w)
  BY <1>2, ScanBounds
<1>4. Drop(data, Moved) \in Seq(Byte) /\ line \in Seq(Byte)
  BY MovedFits, DropProperties DEF Inv, TypeOK
<1>5. Pending' = Drop(w, c) \o rest
  <2>1. Pending' = (Drop(w, c) \o Drop(data, Moved)) \o line
    BY <1>1 DEF Pending
  <2>2. Drop(w, c) \in Seq(Byte)
    BY <1>2, <1>3, DropProperties
  <2> QED
    BY <1>4, <2>1, <2>2, ConcatAssociative
<1>6. ASSUME Hits(w) # {}
      PROVE  /\ o \in Nat /\ o <= Len(w)
             /\ c = o + (IF IsAnswer(w, o) THEN 3 ELSE Size)
  <2>1. o \in Hits(w) /\ o \in Nat /\ o <= Len(w)
    BY <1>2, <1>6, FirstIsHit DEF Hits
  <2>2. Scanned(w) = o + (IF IsAnswer(w, o) THEN 3 ELSE Size) /\ Scanned(w) # 0
    BY <1>6, <2>1, LayoutFits DEF Scanned, Until
  <2> QED
    BY <2>1, <2>2 DEF DataReceived
<1> HIDE DEF w, c, rest, o
<1>7. Pending' = Drop(Pending, c) /\ c \in 0 .. Len(Pending) /\ Pending \in Seq(Byte)
  <2>1. Pending' = Drop(Pending, c)
    BY <1>2, <1>3, <1>5, DropOfConcat
  <2>2. Len(w \o rest) = Len(w) + Len(rest) /\ Len(rest) \in Nat
    BY <1>2, ConcatProperties, LenProperties
  <2> QED
    BY <1>2, <1>3, <2>1, <2>2, PendingType DEF Inv
<1>8. CASE UNCHANGED told
  BY <1>1, <1>7, <1>8, StreamDropped DEF Inv
<1>9. CASE told' # told
  <2>1. /\ Hits(w) # {} /\ IsCall(w, o) /\ told' = Append(told, Event(w, o))
        /\ w[o + KindAt + 1] \in {"I", "D", "A"}
    BY <1>1, <1>9 DEF Execute
  <2>2. ~ IsAnswer(w, o)
    BY <2>1 DEF IsAnswer, IsCall
  <2>3. /\ o \in Nat /\ c = o + Size /\ o + Size <= Len(w)
    BY <1>2, <1>6, <2>1, <2>2, LayoutFits DEF IsCall
  <2>4. PICK own \in [Marks(Pending) -> DOMAIN sent] :
          /\ Owns(own, Pending, sent)
          /\ \A j \in DOMAIN told : \A k \in Marks(Pending) : CallNo(told[j]) < own[k]
    BY DEF StreamInv
  <2>5. ASSUME NEW f \in Nat, f + 3 <= Size PROVE Pending[o + f + 1] = w[o + f + 1]
    <3>1. o + f + 1 \in 1 .. Len(w) /\ Size \in Nat
      BY <1>2, <2>3, <2>5, LayoutNats
    <3>2. o + f + 1 \in 1 .. (Len(w) + Len(rest)) /\ Len(rest) \in Nat
      BY <1>2, <3>1, LenProperties
    <3> QED
      BY <1>2, <3>1, <3>2, ConcatProperties
  <2> DEFINE m == o + MarkAt + 1
             i == own[m]
  <2>6. m \in Marks(Pending) /\ i \in DOMAIN sent
    <3>1. Pending[m] = "E"
      BY <2>1, <2>5, LayoutNats DEF IsCall
    <3>2. m \in DOMAIN Pending
      <4>1. Len(w \o rest) = Len(w) + Len(rest) /\ Len(rest) \in Nat
        BY <1>2, ConcatProperties, LenProperties
      <4> QED
        BY <1>2, <1>7, <2>3, <4>1, LayoutNats, LenProperties
    <3> QED
      BY <3>1, <3>2 DEF Marks
  <2>7. i \in DOMAIN Callers /\ i \in Nat
    <3>1. DOMAIN sent = 1 .. Len(sent) /\ Len(sent) \in Nat
      BY LenProperties DEF Inv, TypeOK
    <3>2. DOMAIN Callers = 1 .. Len(Callers) /\ Len(Callers) \in Nat
      BY LenProperties, CallersSequence
    <3> QED
      BY <2>6, <3>1, <3>2 DEF StreamInv
  <2>8. Event(w, o) = <<sent[i], Callers[i]>>
    <3>1. RecordAt(Pending, m, sent[i], Callers[i])
      BY <2>4, <2>6 DEF Owns
    <3>2. /\ m + NumberAt > MarkAt /\ m + NumberAt - MarkAt = o + NumberAt + 1
          /\ m + KindAt > MarkAt /\ m + KindAt - MarkAt = o + KindAt + 1
      BY <2>3, LayoutNats
    <3>3. Pending[o + NumberAt + 1] = Callers[i] /\ Pending[o + KindAt + 1] = sent[i]
      BY <3>1, <3>2 DEF RecordAt
    <3> QED
      BY <2>5, <3>3, LayoutNats DEF Event
  <2>9. CallNo(Event(w, o)) = i
    BY <2>7, <2>8, CallNoIs
  <2> DEFINE left == [k \in Marks(Drop(Pending, c)) |-> own[k + c]]
  <2>10. /\ \A k \in Marks(Drop(Pending, c)) : k \in Nat /\ k + c \in Marks(Pending)
         /\ Owns(left, Drop(Pending, c), sent)
    BY <1>7, <2>4, OwnsDropped DEF Inv, TypeOK
  <2>11. left \in [Marks(Pending') -> DOMAIN sent'] /\ Owns(left, Pending', sent')
    BY <1>1, <1>7, <2>10 DEF Owns
  <2>12. ASSUME NEW k \in Marks(Pending') PROVE i < left[k]
    <3>1. k + c \in Marks(Pending) /\ k \in Nat /\ left[k] = own[k + c]
      BY <1>7, <2>10
    <3>2. m < k + c
      <4>1. k \in 1 .. Len(Pending')
        <5>1. Pending' \in Seq(Byte)
          BY <1>7, DropProperties
        <5> QED
          BY <5>1, LenProperties DEF Marks
      <4> QED
        BY <2>3, <3>1, <4>1, LayoutNats
    <3> QED
      BY <2>4, <2>6, <3>1, <3>2 DEF Owns
  <2>13. /\ Len(told) \in Nat /\ DOMAIN told = 1 .. Len(told)
         /\ DOMAIN told' = 1 .. (Len(told) + 1)
         /\ \A j \in DOMAIN told : told'[j] = told[j]
         /\ told'[Len(told) + 1] = <<sent[i], Callers[i]>>
    <3>1. Event(w, o) \in {"I", "D", "A"} \X Byte
      <4>1. Callers[i] \in Byte
        BY <2>7 DEF Byte
      <4>2. sent[i] \in {"I", "D", "A"}
        BY <2>1, <2>8 DEF Event
      <4> QED
        BY <2>8, <4>1, <4>2
    <3>2. told \in Seq({"I", "D", "A"} \X Byte)
      BY DEF Inv, TypeOK
    <3> QED
      BY <2>1, <2>8, <3>1, <3>2, AppendProperties, LenProperties
  <2>14. \A j \in DOMAIN told : CallNo(told[j]) < i
    BY <2>4, <2>6
  <2>15. ASSUME NEW j \in DOMAIN told', NEW k \in Marks(Pending')
         PROVE  CallNo(told'[j]) < left[k]
    <3>1. CASE j \in DOMAIN told
      BY <1>7, <2>4, <2>10, <2>13, <3>1
    <3>2. CASE j = Len(told) + 1
      BY <2>8, <2>9, <2>12, <2>13, <3>2
    <3> QED
      BY <2>13, <3>1, <3>2
  <2>16. ToldWasSent'
    <3>1. ASSUME NEW j \in DOMAIN told'
          PROVE  CallNo(told'[j]) \in DOMAIN sent' /\ sent'[CallNo(told'[j])] = told'[j][1]
      <4>1. CASE j \in DOMAIN told
        BY <1>1, <2>13, <4>1 DEF ToldWasSent
      <4>2. CASE j = Len(told) + 1
        BY <1>1, <2>6, <2>8, <2>9, <2>13, <4>2
      <4> QED
        BY <2>13, <3>1, <4>1, <4>2
    <3>2. ASSUME NEW j \in DOMAIN told', NEW l \in DOMAIN told', j < l
          PROVE  CallNo(told'[j]) < CallNo(told'[l])
      <4>1. CASE l \in DOMAIN told
        <5>1. j \in DOMAIN told
          BY <2>13, <3>2, <4>1
        <5> QED
          BY <2>13, <3>2, <4>1, <5>1 DEF ToldWasSent
      <4>2. CASE l = Len(told) + 1
        <5>1. j \in DOMAIN told
          BY <2>13, <3>2, <4>2
        <5> QED
          BY <2>8, <2>9, <2>13, <2>14, <4>2, <5>1
      <4> QED
        BY <2>13, <4>1, <4>2
    <3> QED
      BY <3>1, <3>2 DEF ToldWasSent
  <2> HIDE DEF left
  <2>17. Len(sent') <= Len(Callers) /\ pc' # "read"
    BY <1>1 DEF StreamInv
  <2> QED
    BY <2>11, <2>15, <2>16, <2>17 DEF StreamInv, Owns, RecordAt, Marks
<1> QED
  BY <1>8, <1>9

LEMMA StreamInit == Init => StreamInv /\ ToldWasSent
<1> SUFFICES ASSUME Init PROVE StreamInv /\ ToldWasSent
  OBVIOUS
<1>1. Pending = <<>> /\ DOMAIN Pending = {} /\ DOMAIN told = {} /\ Len(sent) = 0
  <2>1. Pending = (<<>> \o <<>>) \o <<>>
    BY DEF Init, Pending
  <2>2. (<<>> \o <<>>) \o <<>> = <<>>
    OBVIOUS
  <2> QED
    BY <2>1, <2>2 DEF Init
<1>2. Marks(Pending) = {}
  BY <1>1 DEF Marks
<1> DEFINE own == [k \in Marks(Pending) |-> 0]
<1>3. own \in [Marks(Pending) -> DOMAIN sent] /\ Owns(own, Pending, sent)
  BY <1>2 DEF Owns
<1>4. Len(sent) <= Len(Callers)
  BY <1>1, LenProperties, CallersSequence
<1>5. \A j \in DOMAIN told : \A k \in Marks(Pending) : CallNo(told[j]) < own[k]
  BY <1>2
<1>6. ToldWasSent
  BY <1>1 DEF ToldWasSent
<1>7. pc = "read" => data = <<>>
  BY DEF Init
<1> HIDE DEF own
<1> QED
  BY <1>3, <1>4, <1>5, <1>6, <1>7 DEF StreamInv

\* What the device sends is behind all that is pending.
LEMMA SentPending ==
  ASSUME Inv, NEW r \in Record, DeviceSend(r)
  PROVE  Pending' = Pending \o Bytes(r, Callers[Len(sent) + 1])
<1> DEFINE n == Len(sent) + 1
           b == Bytes(r, Callers[n])
           first == window \o data
<1>1. n \in DOMAIN Callers
  BY LenProperties, CallersSequence DEF DeviceSend, Inv, TypeOK
<1>2. Callers[n] \in Byte /\ Callers[n] # "E"
  BY <1>1, CallersTellRecords DEF Byte
<1>3. b \in Seq(Byte)
  BY <1>2, SentMarks
<1>4. first \in Seq(Byte) /\ line \in Seq(Byte)
  BY PendingType DEF Inv, TypeOK
<1>5. Pending' = first \o (line \o b) /\ Pending = first \o line
  BY DEF Pending, DeviceSend
<1> HIDE DEF first, b
<1>6. (first \o line) \o b = first \o (line \o b)
  BY ONLY <1>3, <1>4, ConcatAssociative
<1> QED
  BY <1>5, <1>6 DEF b

LEMMA DeviceSendStream ==
  ASSUME Inv, StreamInv, ToldWasSent, NEW r \in Record, DeviceSend(r)
  PROVE  StreamInv' /\ ToldWasSent'
<1> DEFINE n == Len(sent) + 1
           b == Bytes(r, Callers[n])
<1>1. /\ sent' = Append(sent, r) /\ line' = line \o b
      /\ Len(sent) < Len(Callers) /\ UNCHANGED <<window, data, told, pc>>
  BY DEF DeviceSend
<1>2. /\ sent \in Seq(Record) /\ line \in Seq(Byte) /\ Pending \in Seq(Byte)
      /\ window \o data \in Seq(Byte) /\ Len(sent) \in Nat /\ Len(Callers) \in Nat
      /\ DOMAIN sent = 1 .. Len(sent)
  BY PendingType, LenProperties, CallersSequence DEF Inv, TypeOK
<1>3. PICK own \in [Marks(Pending) -> DOMAIN sent] :
        /\ Owns(own, Pending, sent)
        /\ \A j \in DOMAIN told : \A k \in Marks(Pending) : CallNo(told[j]) < own[k]
  BY DEF StreamInv
<1> DEFINE t == Pending \o b
           more == [k \in Marks(t) |-> IF k <= Len(Pending) THEN own[k] ELSE n]
<1>4. /\ t \in Seq(Byte)
      /\ \A k \in Marks(t) : k <= Len(Pending) => k \in Marks(Pending)
      /\ Owns(more, t, sent')
  BY <1>1, <1>2, <1>3, OwnsExtended
<1>6. Pending' = t
  BY SentPending
<1> HIDE DEF b, t
<1>7. /\ Len(sent') = n /\ n \in Nat /\ DOMAIN sent' = 1 .. n
      /\ \A i \in 1 .. Len(sent) : sent'[i] = sent[i]
  BY <1>1, <1>2, AppendProperties, LenProperties
<1>8. more \in [Marks(Pending') -> DOMAIN sent'] /\ Owns(more, Pending', sent')
  BY <1>4, <1>6 DEF Owns
<1>9. ASSUME NEW j \in DOMAIN told', NEW k \in Marks(Pending')
      PROVE  CallNo(told'[j]) < more[k]
  <2>1. j \in DOMAIN told /\ told'[j] = told[j]
    BY <1>1
  <2>2. CASE k <= Len(Pending)
    BY <1>3, <1>4, <1>6, <2>1, <2>2
  <2>3. CASE ~ (k <= Len(Pending))
    <3>1. CallNo(told[j]) \in 1 .. Len(sent)
      BY <1>2, <2>1 DEF ToldWasSent
    <3> QED
      BY <1>2, <1>6, <2>1, <2>3, <3>1
  <2> QED
    BY <2>2, <2>3
<1>10. ToldWasSent'
  BY <1>1, <1>2, <1>7 DEF ToldWasSent
<1>11. Len(sent') <= Len(Callers) /\ (pc' = "read" => data' = <<>>)
  BY <1>1, <1>2, <1>7 DEF StreamInv
<1> HIDE DEF more
<1> QED
  BY <1>8, <1>9, <1>10, <1>11 DEF StreamInv

LEMMA StreamPreserved == Inv /\ StreamInv /\ ToldWasSent /\ [Next]_vars => StreamInv' /\ ToldWasSent'
<1> SUFFICES ASSUME Inv, StreamInv, ToldWasSent, [Next]_vars PROVE StreamInv' /\ ToldWasSent'
  OBVIOUS
<1>1. CASE FillEnd \/ EchoTest \/ UNCHANGED vars
  <2>1. UNCHANGED <<window, data, line, sent, told>> /\ (pc' = "read" => data = <<>>)
    BY <1>1 DEF FillEnd, EchoTest, vars, StreamInv
  <2>2. Pending' = Pending
    BY <2>1 DEF Pending
  <2>3. Pending' = Drop(Pending, 0) /\ 0 \in 0 .. Len(Pending)
    <3>1. Pending \in Seq(Byte) /\ Len(Pending) \in Nat
      BY PendingType, LenProperties DEF Inv
    <3> QED
      BY <2>2, <3>1, SubSeqFull DEF Drop
  <2> QED
    BY <2>1, <2>3, StreamDropped DEF Inv
<1> QED
  BY <1>1, ReadStream, FillStream, DeviceSendStream DEF Next

\* No event is made of parts of two records, none is told twice and none out of
\* order, however reads cut the stream, for every layout whose fields are apart
\* and every stream of records in which only the marks are an E.
THEOREM EventsWereSent == SafeSpec => []ToldWasSent
<1>1. Inv /\ StreamInv /\ ToldWasSent /\ [Next]_vars => (StreamInv /\ ToldWasSent)'
  BY StreamPreserved
<1> QED
  BY <1>1, StreamInit, InvHolds, PTL DEF SafeSpec

-----------------------------------------------------------------------------
(***************************************************************************)
(* If reads are whole, window, data and line are whole records, the first  *)
(* of which begins the window and one of which begins the line.  So the    *)
(* parser, which sees all that was read at once, finds records only at     *)
(* their beginning and leaves none but noise in front of them.             *)
(***************************************************************************)
PartOf(records, i) == Bytes(records[i], Callers[i])

\* s is the records from the first on, the i-th behind start[i].
Divided(s, records, first, start) ==
  /\ first \in 1 .. Len(records) + 1
  /\ start \in [first .. Len(records) + 1 -> 0 .. Len(s)]
  /\ start[first] = 0 /\ start[Len(records) + 1] = Len(s)
  /\ \A i \in first .. Len(records) :
       /\ start[i + 1] = start[i] + Len(PartOf(records, i))
       /\ \A j \in 1 .. Len(PartOf(records, i)) : s[start[i] + j] = PartOf(records, i)[j]
  /\ \A i, j \in first .. Len(records) + 1 : i < j => start[i] < start[j]

Handled(i) ==
  sent[i] \in {"I", "D", "A"} =>
    \/ Callers[i] \in ignored
    \/ \E j \in DOMAIN told : told[j] = <<sent[i], Callers[i]>>

WholeInv ==
  whole =>
    /\ Len(line) <= WindowSize - 2
    /\ pc = "fill" /\ data # <<>> => consumed = 0 /\ Len(data) <= WindowSize - 2
    /\ \E first \in Nat : \E start :
         /\ Divided(Pending, sent, first, start)
         /\ \E l \in first .. Len(sent) + 1 : start[l] = Len(window) + Len(data)
         /\ \A i \in 1 .. first - 1 : Handled(i)

\* What the records are made of.
LEMMA BytesAre ==
  ASSUME NEW r \in Record, NEW n \in DOMAIN Callers, NEW b, b = Bytes(r, Callers[n])
  PROVE  /\ b \in Seq(Byte) /\ Len(b) \in Nat \ {0}
         /\ r = "answer" => /\ Len(b) = 3 /\ b[1] \in Letters /\ b[2] = "CR" /\ b[3] = "LF"
                            /\ \A j \in 1 .. 3 : b[j] # "E" /\ (b[j] = "CR" => j = 2)
         /\ r = "noise" => Len(b) = 1 /\ b[1] \notin {"CR", "E"}
         /\ r \notin {"answer", "noise"} =>
              /\ Len(b) = Size /\ b[1] \notin Letters /\ b[MarkAt + 1] = "E"
              /\ b[Size - 1] = "CR" /\ b[Size] = "LF"
              /\ b[NumberAt + 1] = Callers[n] /\ b[KindAt + 1] = r
              /\ \A j \in 1 .. Size : /\ b[j] = "E" => j = MarkAt + 1
                                      /\ b[j] = "CR" => j = Size - 1
<1>1. PICK caller : caller = Callers[n]
  OBVIOUS
<1>2. caller \in Byte /\ caller # "E" /\ caller # "CR" /\ (NumberAt = 0 => caller \notin Letters)
  BY <1>1, CallersTellRecords, CallsAreNoAnswers DEF Byte
<1>3. b \in Seq(Byte)
  BY <1>1, <1>2, SentMarks
<1>4. CASE r = "answer"
  BY <1>3, <1>4 DEF Bytes, Letters
<1>5. CASE r = "noise"
  BY <1>3, <1>5 DEF Bytes
<1>6. CASE r \notin {"answer", "noise"}
  <2>1. r \in Kinds /\ r # "E" /\ r # "CR"
    BY <1>6, CallersTellRecords, CallsAreNoAnswers DEF Record
  <2>2. b = [i \in 1 .. Size |->
               CASE i = NumberAt + 1 -> caller
                 [] i = MarkAt + 1 -> "E"
                 [] i = KindAt + 1 -> r
                 [] i = Size - 1 -> "CR"
                 [] i = Size -> "LF"
                 [] OTHER -> "x"]
    BY <1>1, <1>6 DEF Bytes
  <2>3. Len(b) = Size /\ Size \in Nat \ {0}
    BY <2>2, LayoutNats
  <2>4. /\ {NumberAt + 1, MarkAt + 1, KindAt + 1, Size - 1, Size, 1} \subseteq 1 .. Size
        /\ \A i \in {NumberAt + 1, MarkAt + 1, KindAt + 1} : i # Size - 1 /\ i # Size
        /\ NumberAt + 1 # MarkAt + 1 /\ NumberAt + 1 # KindAt + 1 /\ MarkAt + 1 # KindAt + 1
        /\ Size - 1 # Size
    BY LayoutNats
  <2>5. /\ b[NumberAt + 1] = caller /\ b[MarkAt + 1] = "E" /\ b[KindAt + 1] = r
        /\ b[Size - 1] = "CR" /\ b[Size] = "LF"
    <3>1. b[NumberAt + 1] = caller
      BY <2>2, <2>4
    <3>2. b[MarkAt + 1] = "E"
      BY <2>2, <2>4
    <3>3. b[KindAt + 1] = r
      BY <2>2, <2>4
    <3>4. b[Size - 1] = "CR"
      BY <2>2, <2>4
    <3>5. b[Size] = "LF"
      BY <2>2, <2>4
    <3> QED
      BY <3>1, <3>2, <3>3, <3>4, <3>5
  <2>6. \A j \in 1 .. Size : /\ b[j] = "E" => j = MarkAt + 1
                             /\ b[j] = "CR" => j = Size - 1
    BY <1>2, <2>1, <2>2
  <2>7. b[1] \notin Letters
    <3>1. 1 # KindAt + 1 /\ 1 # Size - 1 /\ 1 # Size /\ (1 = NumberAt + 1 => NumberAt = 0)
      BY LayoutNats, CallsAreNoAnswers
    <3>2. b[1] \in {"E", "x"} \/ (NumberAt = 0 /\ b[1] = caller)
      BY <2>2, <2>4, <3>1
    <3> QED
      BY <1>2, <3>2 DEF Letters
  <2> QED
    BY <1>1, <1>3, <1>6, <2>3, <2>5, <2>6, <2>7
<1> QED
  BY <1>4, <1>5, <1>6

LEMMA CallBytes ==
  ASSUME NEW r \in Record, r \notin {"answer", "noise"}, NEW n \in DOMAIN Callers,
         NEW b, b = Bytes(r, Callers[n])
  PROVE  /\ Len(b) = Size /\ b[1] \notin Letters /\ b[MarkAt + 1] = "E"
         /\ b[Size - 1] = "CR" /\ b[Size] = "LF"
         /\ b[NumberAt + 1] = Callers[n] /\ b[KindAt + 1] = r
         /\ \A j \in 1 .. Size : /\ b[j] = "E" => j = MarkAt + 1
                                 /\ b[j] = "CR" => j = Size - 1
BY BytesAre

LEMMA NoiseBytes ==
  ASSUME NEW r \in Record, r = "noise", NEW n \in DOMAIN Callers,
         NEW b, b = Bytes(r, Callers[n])
  PROVE  Len(b) = 1 /\ \A j \in 1 .. Len(b) : b[j] # "E" /\ b[j] # "CR"
<1>1. b = <<"A">>
  BY DEF Bytes
<1> QED
  BY <1>1

LEMMA AnswerBytes ==
  ASSUME NEW r \in Record, r = "answer", NEW n \in DOMAIN Callers,
         NEW b, b = Bytes(r, Callers[n])
  PROVE  Len(b) = 3 /\ \A j \in 1 .. Len(b) : b[j] # "E" /\ (b[j] = "CR" => j = 2)
<1>1. b = <<"F", "CR", "LF">>
  BY DEF Bytes
<1> QED
  BY <1>1

LEMMA PartIs ==
  ASSUME NEW records \in Seq(Record), Len(records) <= Len(Callers), NEW i \in 1 .. Len(records)
  PROVE  /\ records[i] \in Record /\ i \in DOMAIN Callers
         /\ PartOf(records, i) \in Seq(Byte) /\ Len(PartOf(records, i)) \in Nat \ {0}
<1>1. records[i] \in Record /\ i \in DOMAIN Callers
  BY LenProperties, CallersSequence
<1>2. PICK b : b = PartOf(records, i)
  OBVIOUS
<1>3. b = Bytes(records[i], Callers[i])
  BY <1>2 DEF PartOf
<1>4. b \in Seq(Byte) /\ Len(b) \in Nat \ {0}
  BY <1>1, <1>3, BytesAre
<1> QED
  BY <1>1, <1>2, <1>4

\* Every byte is of some record.
LEMMA ByteOfRecord ==
  ASSUME NEW s \in Seq(Byte), NEW records \in Seq(Record), NEW first, NEW start,
         Len(records) <= Len(Callers), Divided(s, records, first, start), NEW p \in 1 .. Len(s)
  PROVE  \E i \in first .. Len(records) :
           /\ start[i] < p /\ p <= start[i + 1]
           /\ p - start[i] \in 1 .. Len(PartOf(records, i))
           /\ s[p] = PartOf(records, i)[p - start[i]]
<1>1. PICK n \in Nat : n = Len(records)
  BY LenProperties
<1>2. Len(s) \in Nat /\ first \in 1 .. n + 1
  BY <1>1, LenProperties DEF Divided
<1>3. /\ \A i \in first .. n + 1 : start[i] \in Nat
      /\ start[first] = 0 /\ start[n + 1] = Len(s)
  <2>1. start \in [first .. n + 1 -> 0 .. Len(s)] /\ start[first] = 0 /\ start[n + 1] = Len(s)
    BY <1>1 DEF Divided
  <2> QED
    BY <1>2, <2>1
<1> DEFINE T == {i \in first .. n + 1 : p <= start[i]}
<1>4. T # {} /\ T \in SUBSET Nat
  BY <1>1, <1>2, <1>3
<1>5. PICK o \in T : \A i \in T : o <= i
  <2> HIDE DEF T
  <2> QED
    BY <1>4, LeastOf
<1>6. o \in first .. n + 1 /\ p <= start[o] /\ o # first
  BY <1>3, <1>5
<1>7. PICK i \in first .. n : o = i + 1
  <2>1. o - 1 \in first .. n /\ o = (o - 1) + 1
    BY <1>1, <1>2, <1>6
  <2> QED
    BY <2>1
<1>8. i \notin T
  BY <1>1, <1>2, <1>5, <1>7
<1>9. start[i] < p /\ start[i] \in Nat
  <2>1. i \in first .. n + 1
    BY <1>1, <1>2
  <2> QED
    BY <1>3, <1>8, <2>1
<1>10. PICK b : b = PartOf(records, i)
  OBVIOUS
<1>11. /\ start[i + 1] = start[i] + Len(b)
       /\ \A j \in 1 .. Len(b) : s[start[i] + j] = b[j]
  BY <1>1, <1>10 DEF Divided
<1>12. PICK j : j = p - start[i]
  OBVIOUS
<1>13. j \in Nat \ {0} /\ p = start[i] + j /\ p <= start[i] + Len(b)
  BY <1>6, <1>7, <1>9, <1>11, <1>12
<1>14. start[i + 1] \in Nat
  BY <1>3, <1>6, <1>7
<1>15. j \in 1 .. Len(b)
  <2>1. start[i] + Len(b) \in Nat /\ start[i] + j <= start[i] + Len(b)
    BY <1>11, <1>13, <1>14
  <2>2. Len(b) \in Nat
    BY <1>1, <1>2, <1>10, PartIs
  <2> QED
    BY <1>9, <1>13, <2>1, <2>2
<1> QED
  BY <1>1, <1>6, <1>7, <1>9, <1>10, <1>11, <1>12, <1>13, <1>15

\* Whole records can be dropped in front.
LEMMA DividedDropped ==
  ASSUME NEW s \in Seq(Byte), NEW records \in Seq(Record), NEW first, NEW start,
         Len(records) <= Len(Callers), Divided(s, records, first, start),
         NEW m \in first .. Len(records) + 1
  PROVE  LET rest == [i \in m .. Len(records) + 1 |-> start[i] - start[m]]
         IN  /\ start[m] \in 0 .. Len(s)
             /\ Divided(Drop(s, start[m]), records, m, rest)
<1>1. PICK n \in Nat : n = Len(records)
  BY LenProperties
<1>2. PICK rest : rest = [i \in m .. n + 1 |-> start[i] - start[m]]
  OBVIOUS
<1>3. /\ Len(s) \in Nat /\ first \in 1 .. n + 1 /\ m \in first .. n + 1 /\ m \in 1 .. n + 1
      /\ \A i \in m .. n + 1 : i \in first .. n + 1
  BY <1>1, LenProperties DEF Divided
<1>4. /\ \A i \in first .. n + 1 : start[i] \in 0 .. Len(s)
      /\ start[n + 1] = Len(s)
      /\ \A i, j \in first .. n + 1 : i < j => start[i] < start[j]
  BY <1>1 DEF Divided
<1>5. PICK c \in 0 .. Len(s) : c = start[m]
  BY <1>3, <1>4
<1>6. PICK d : d = Drop(s, c)
  OBVIOUS
<1>7. /\ d \in Seq(Byte) /\ Len(d) = Len(s) - c
      /\ \A i \in 1 .. (Len(s) - c) : d[i] = s[i + c]
  BY <1>6, DropElements
<1>8. ASSUME NEW i \in m .. n + 1 PROVE c <= start[i] /\ start[i] \in 0 .. Len(s) /\ rest[i] = start[i] - c
  <2>1. i = m \/ m < i
    BY <1>3
  <2>2. start[i] \in 0 .. Len(s) /\ (m < i => start[m] < start[i])
    BY <1>3, <1>4
  <2> QED
    BY <1>2, <1>5, <2>1, <2>2
<1>9. rest \in [m .. n + 1 -> 0 .. Len(d)]
  BY <1>2, <1>3, <1>5, <1>7, <1>8
<1>10. rest[m] = 0 /\ rest[n + 1] = Len(d)
  <2>1. m \in m .. n + 1 /\ n + 1 \in m .. n + 1
    BY <1>1, <1>3
  <2> QED
    BY <1>3, <1>4, <1>5, <1>7, <1>8, <2>1
<1>11. ASSUME NEW i \in m .. n
       PROVE  /\ rest[i + 1] = rest[i] + Len(PartOf(records, i))
              /\ \A j \in 1 .. Len(PartOf(records, i)) : d[rest[i] + j] = PartOf(records, i)[j]
  <2>1. PICK b : b = PartOf(records, i)
    OBVIOUS
  <2>2. i \in first .. n /\ i \in 1 .. n /\ i \in m .. n + 1 /\ i + 1 \in m .. n + 1
    BY <1>1, <1>3
  <2>3. Len(b) \in Nat
    BY <1>1, <2>1, <2>2, PartIs
  <2>4. /\ start[i + 1] = start[i] + Len(b)
        /\ \A j \in 1 .. Len(b) : s[start[i] + j] = b[j]
    BY <1>1, <2>1, <2>2 DEF Divided
  <2>5. /\ c <= start[i] /\ start[i] \in 0 .. Len(s) /\ rest[i] = start[i] - c
        /\ c <= start[i + 1] /\ start[i + 1] \in 0 .. Len(s) /\ rest[i + 1] = start[i + 1] - c
    BY <1>8, <2>2
  <2>6. rest[i + 1] = rest[i] + Len(b)
    BY <1>3, <1>5, <2>3, <2>4, <2>5
  <2>7. ASSUME NEW j \in 1 .. Len(b) PROVE d[rest[i] + j] = b[j]
    <3>1. rest[i] + j \in 1 .. (Len(s) - c) /\ (rest[i] + j) + c = start[i] + j
      <4>1. PICK e \in Nat : e = start[i] /\ rest[i] = e - c /\ c <= e
        BY <2>5
      <4>2. e + Len(b) <= Len(s)
        BY <2>4, <2>5, <4>1
      <4>3. PICK k \in Nat, h \in Nat : k = Len(b) /\ h = Len(s)
        BY <1>3, <2>3
      <4>4. /\ c \in Nat /\ j \in Nat /\ j >= 1 /\ j <= k /\ e + k <= h /\ c <= e
            /\ rest[i] = e - c
        BY <4>1, <4>2, <4>3
      <4>5. /\ (e - c) + j \in Nat /\ (e - c) + j >= 1 /\ (e - c) + j <= h - c
            /\ ((e - c) + j) + c = e + j /\ h - c \in Int
        BY ONLY <4>4, e \in Nat, k \in Nat, h \in Nat
      <4> QED
        BY <4>1, <4>3, <4>4, <4>5
    <3> QED
      BY <1>7, <2>4, <3>1
  <2> QED
    BY <2>1, <2>6, <2>7
<1>12. ASSUME NEW i \in m .. n + 1, NEW j \in m .. n + 1, i < j PROVE rest[i] < rest[j]
  <2>1. start[i] < start[j]
    BY <1>3, <1>4, <1>12
  <2> QED
    BY <1>3, <1>5, <1>8, <2>1
<1>13. Divided(d, records, m, rest)
  BY <1>1, <1>3, <1>9, <1>10, <1>11, <1>12 DEF Divided
<1> QED
  BY <1>1, <1>2, <1>5, <1>6, <1>13

\* A record that is sent is one more.
LEMMA DividedExtended ==
  ASSUME NEW s \in Seq(Byte), NEW records \in Seq(Record), NEW first, NEW start,
         Len(records) < Len(Callers), Divided(s, records, first, start), NEW r \in Record
  PROVE  LET n == Len(records) + 1
             b == Bytes(r, Callers[n])
             more == [i \in first .. n + 1 |-> IF i <= n THEN start[i] ELSE Len(s) + Len(b)]
         IN  Divided(s \o b, Append(records, r), first, more)
<1>1. PICK n : n = Len(records) + 1
  OBVIOUS
<1>2. PICK b : b = Bytes(r, Callers[n])
  OBVIOUS
<1>3. PICK more : more = [i \in first .. n + 1 |-> IF i <= n THEN start[i] ELSE Len(s) + Len(b)]
  OBVIOUS
<1>4. PICK all : all = Append(records, r)
  OBVIOUS
<1>5. PICK t : t = s \o b
  OBVIOUS
<1>6. /\ Len(records) \in Nat /\ n \in Nat \ {0} /\ n \in DOMAIN Callers /\ Len(s) \in Nat
      /\ first \in 1 .. n
  BY <1>1, LenProperties, CallersSequence DEF Divided
<1>7. b \in Seq(Byte) /\ Len(b) \in Nat \ {0}
  BY <1>2, <1>6, BytesAre
<1>8. /\ all \in Seq(Record) /\ Len(all) = n /\ all[n] = r
      /\ \A i \in 1 .. Len(records) : all[i] = records[i]
  BY <1>1, <1>4, AppendProperties
<1>9. /\ t \in Seq(Byte) /\ Len(t) = Len(s) + Len(b)
      /\ \A i \in 1 .. Len(s) : t[i] = s[i]
      /\ \A i \in 1 .. Len(b) : t[Len(s) + i] = b[i]
  <2>1. /\ t \in Seq(Byte) /\ Len(t) = Len(s) + Len(b)
        /\ \A i \in 1 .. (Len(s) + Len(b)) : t[i] = IF i <= Len(s) THEN s[i] ELSE b[i - Len(s)]
    BY <1>5, <1>7, ConcatProperties
  <2>2. \A i \in 1 .. Len(s) : t[i] = s[i]
    BY <1>6, <1>7, <2>1
  <2>3. ASSUME NEW i \in 1 .. Len(b) PROVE t[Len(s) + i] = b[i]
    <3>1. Len(s) + i \in 1 .. (Len(s) + Len(b)) /\ ~(Len(s) + i <= Len(s)) /\ (Len(s) + i) - Len(s) = i
      BY <1>6, <1>7
    <3> QED
      BY ONLY <2>1, <3>1
  <2> QED
    BY <2>1, <2>2, <2>3
<1>10. /\ \A i \in first .. n : start[i] \in 0 .. Len(s)
       /\ start[first] = 0 /\ start[n] = Len(s)
       /\ \A i, j \in first .. n : i < j => start[i] < start[j]
  BY <1>1 DEF Divided
<1>11. /\ \A i \in first .. n : more[i] = start[i]
       /\ more[n + 1] = Len(s) + Len(b)
  BY <1>3, <1>6
<1>12. more \in [first .. n + 1 -> 0 .. Len(t)]
  BY <1>3, <1>6, <1>7, <1>9, <1>10
<1>13. more[first] = 0 /\ more[n + 1] = Len(t)
  BY <1>6, <1>9, <1>10, <1>11
<1>14. ASSUME NEW i \in first .. n
       PROVE  /\ more[i + 1] = more[i] + Len(PartOf(all, i))
              /\ \A j \in 1 .. Len(PartOf(all, i)) : t[more[i] + j] = PartOf(all, i)[j]
  <2>1. CASE i = n
    <3>1. PartOf(all, i) = b
      BY <1>2, <1>8, <2>1 DEF PartOf
    <3>2. more[i] = Len(s) /\ more[i + 1] = Len(s) + Len(b)
      BY <1>10, <1>11, <2>1
    <3> QED
      BY <1>9, <3>1, <3>2
  <2>2. CASE i # n
    <3>1. i \in first .. Len(records) /\ i \in 1 .. Len(records) /\ i \in first .. n /\ i + 1 \in first .. n
      BY <1>1, <1>6, <2>2
    <3>2. PICK part : part = PartOf(records, i)
      OBVIOUS
    <3>3. PartOf(all, i) = part
      BY <1>8, <3>1, <3>2 DEF PartOf
    <3>4. Len(part) \in Nat
      BY <1>6, <3>1, <3>2, PartIs, LenProperties, CallersSequence
    <3>5. /\ start[i + 1] = start[i] + Len(part)
          /\ \A j \in 1 .. Len(part) : s[start[i] + j] = part[j]
      BY <3>1, <3>2 DEF Divided
    <3>6. more[i] = start[i] /\ more[i + 1] = start[i + 1] /\ start[i] \in 0 .. Len(s) /\ start[i + 1] \in 0 .. Len(s)
      BY <1>10, <1>11, <3>1
    <3>7. ASSUME NEW j \in 1 .. Len(part) PROVE t[more[i] + j] = part[j]
      <4>1. start[i] + j \in 1 .. Len(s)
        BY <1>6, <3>4, <3>5, <3>6
      <4> QED
        BY <1>9, <3>5, <3>6, <4>1
    <3> QED
      BY <3>3, <3>5, <3>6, <3>7
  <2> QED
    BY <2>1, <2>2
<1>15. ASSUME NEW i \in first .. n + 1, NEW j \in first .. n + 1, i < j PROVE more[i] < more[j]
  <2>1. i \in first .. n
    BY <1>6, <1>15
  <2>2. more[i] = start[i] /\ start[i] \in 0 .. Len(s)
    BY <1>10, <1>11, <2>1
  <2>3. CASE j = n + 1
    BY <1>6, <1>7, <1>11, <2>2, <2>3
  <2>4. CASE j # n + 1
    <3>1. j \in first .. n
      BY <1>6, <2>4
    <3> QED
      BY <1>10, <1>11, <1>15, <2>1, <3>1
  <2> QED
    BY <2>3, <2>4
<1>16. Divided(t, all, first, more)
  <2>1. first \in 1 .. n + 1
    BY <1>6
  <2> QED
    BY <1>8, <1>12, <1>13, <1>14, <1>15, <2>1 DEF Divided
<1> QED
  BY <1>1, <1>2, <1>3, <1>4, <1>5, <1>16

\* What _IcBox_execute finds at the beginning of a record in the window.
LEMMA HitAtRecord ==
  ASSUME NEW w \in Seq(Byte), NEW rest \in Seq(Byte), NEW records \in Seq(Record),
         Len(records) <= Len(Callers), NEW first, NEW start,
         Divided(w \o rest, records, first, start),
         NEW l \in first .. Len(records) + 1, start[l] = Len(w),
         NEW i \in first .. l - 1
  PROVE  /\ start[i] \in Nat /\ i \in 1 .. Len(records)
         /\ start[i + 1] = start[i] + Len(PartOf(records, i)) /\ start[i + 1] <= Len(w)
         /\ records[i] = "answer" => IsAnswer(w, start[i])
         /\ records[i] \notin {"answer", "noise"} =>
              /\ IsCall(w, start[i])
              /\ w[start[i] + KindAt + 1] = records[i]
              /\ w[start[i] + NumberAt + 1] = Callers[i]
<1>1. PICK n \in Nat : n = Len(records)
  BY LenProperties
<1>2. PICK s : s = w \o rest
  OBVIOUS
<1>3. /\ Len(w) \in Nat /\ Len(rest) \in Nat
      /\ \A p \in 1 .. Len(w) : s[p] = w[p]
  <2>1. Len(w) \in Nat /\ Len(rest) \in Nat
    BY LenProperties
  <2>2. \A p \in 1 .. Len(w) + Len(rest) : s[p] = IF p <= Len(w) THEN w[p] ELSE rest[p - Len(w)]
    BY <1>2, ConcatProperties
  <2> QED
    BY <2>1, <2>2
<1>4. /\ first \in 1 .. n + 1 /\ l \in first .. n + 1 /\ i \in first .. n /\ i \in 1 .. n
      /\ i \in first .. n + 1 /\ i + 1 \in first .. n + 1
  BY <1>1 DEF Divided
<1>5. PICK b : b = PartOf(records, i)
  OBVIOUS
<1>6. Len(b) \in Nat \ {0} /\ records[i] \in Record /\ i \in DOMAIN Callers
  BY <1>1, <1>4, <1>5, PartIs
<1>7. /\ start[i + 1] = start[i] + Len(b)
      /\ \A j \in 1 .. Len(b) : s[start[i] + j] = b[j]
  BY <1>1, <1>2, <1>4, <1>5 DEF Divided
<1>8. start[i] \in Nat /\ start[i + 1] \in Nat /\ start[i + 1] <= Len(w)
  <2>1. start[i] \in Nat /\ start[i + 1] \in Nat
    <3>1. s \in Seq(Byte)
      BY <1>2, ConcatProperties
    <3>2. start \in [first .. n + 1 -> 0 .. Len(s)] /\ Len(s) \in Nat
      BY <1>1, <1>2, <3>1, LenProperties DEF Divided
    <3> QED
      BY <1>4, <3>2
  <2>2. i + 1 < l => start[i + 1] < start[l]
    BY <1>1, <1>2, <1>4 DEF Divided
  <2>3. i + 1 < l \/ i + 1 = l
    BY <1>1, <1>4
  <2> QED
    BY <1>3, <2>1, <2>2, <2>3
<1>9. PICK o \in Nat : o = start[i]
  BY <1>8
<1>10. o + Len(b) <= Len(w)
  BY <1>7, <1>8, <1>9
<1>11. ASSUME NEW j \in 1 .. Len(b) PROVE w[o + j] = b[j]
  <2>1. o + j \in 1 .. Len(w)
    BY <1>3, <1>6, <1>10
  <2> QED
    BY <1>3, <1>7, <1>9, <2>1
<1>12. b = Bytes(records[i], Callers[i])
  BY <1>5 DEF PartOf
<1>13. records[i] = "answer" => IsAnswer(w, o)
  <2> SUFFICES ASSUME records[i] = "answer" PROVE IsAnswer(w, o)
    OBVIOUS
  <2>1. Len(b) = 3 /\ b[1] \in Letters /\ b[2] = "CR" /\ b[3] = "LF"
    BY <1>6, <1>12, BytesAre
  <2>2. w[o + 1] = b[1] /\ w[o + 2] = b[2] /\ w[o + 3] = b[3]
    BY <1>11, <2>1
  <2> QED
    BY <1>3, <1>10, <2>1, <2>2 DEF IsAnswer
<1>14. records[i] \notin {"answer", "noise"} =>
              /\ IsCall(w, o)
              /\ w[o + KindAt + 1] = records[i]
              /\ w[o + NumberAt + 1] = Callers[i]
  <2> SUFFICES ASSUME records[i] \notin {"answer", "noise"}
               PROVE  /\ IsCall(w, o)
                      /\ w[o + KindAt + 1] = records[i]
                      /\ w[o + NumberAt + 1] = Callers[i]
    OBVIOUS
  <2>1. /\ Len(b) = Size /\ b[1] \notin Letters /\ b[MarkAt + 1] = "E"
        /\ b[Size - 1] = "CR" /\ b[Size] = "LF"
        /\ b[NumberAt + 1] = Callers[i] /\ b[KindAt + 1] = records[i]
    <3>1. PICK r \in Record : r = records[i] /\ r \notin {"answer", "noise"} /\ b = Bytes(r, Callers[i])
      BY <1>6, <1>12
    <3>2. /\ Len(b) = Size /\ b[1] \notin Letters /\ b[MarkAt + 1] = "E"
          /\ b[Size - 1] = "CR" /\ b[Size] = "LF"
          /\ b[NumberAt + 1] = Callers[i] /\ b[KindAt + 1] = r
      BY <1>6, <3>1, CallBytes
    <3> QED
      BY <3>1, <3>2
  <2>2. /\ {1, MarkAt + 1, NumberAt + 1, KindAt + 1, Size - 1, Size} \subseteq 1 .. Len(b)
        /\ o + (MarkAt + 1) = o + MarkAt + 1 /\ o + (NumberAt + 1) = o + NumberAt + 1
        /\ o + (KindAt + 1) = o + KindAt + 1 /\ o + (Size - 1) = o + Size - 1
    BY <2>1, LayoutNats
  <2>3. /\ w[o + 1] = b[1] /\ w[o + MarkAt + 1] = b[MarkAt + 1]
        /\ w[o + NumberAt + 1] = b[NumberAt + 1] /\ w[o + KindAt + 1] = b[KindAt + 1]
        /\ w[o + Size - 1] = b[Size - 1] /\ w[o + Size] = b[Size]
    BY <1>11, <2>2
  <2>4. Len(w) - o >= Size
    BY <1>3, <1>10, <2>1, LayoutNats
  <2> QED
    BY <2>1, <2>3, <2>4 DEF IsCall
<1> QED
  BY <1>1, <1>4, <1>5, <1>7, <1>8, <1>9, <1>13, <1>14

\* The first record the parser finds is the first one that is no noise, and it
\* takes that one as a whole.
LEMMA FirstAtRecord ==
  ASSUME NEW w \in Seq(Byte), NEW rest \in Seq(Byte), NEW records \in Seq(Record),
         Len(records) <= Len(Callers), NEW first, NEW start,
         Divided(w \o rest, records, first, start),
         NEW l \in first .. Len(records) + 1, start[l] = Len(w), Hits(w) # {}
  PROVE  \E m \in first .. l - 1 :
           /\ First(w) = start[m] /\ Until(w, First(w)) = start[m + 1]
           /\ records[m] # "noise" /\ (records[m] = "answer" => IsAnswer(w, start[m]))
           /\ \A i \in first .. m - 1 : records[i] = "noise"
<1>1. PICK n \in Nat : n = Len(records)
  BY LenProperties
<1>2. PICK s \in Seq(Byte) : s = w \o rest
  BY ConcatProperties
<1>3. /\ Len(w) \in Nat /\ Len(rest) \in Nat /\ Len(s) = Len(w) + Len(rest)
      /\ \A p \in 1 .. Len(w) : s[p] = w[p]
  <2>1. Len(w) \in Nat /\ Len(rest) \in Nat
    BY LenProperties
  <2>2. /\ Len(s) = Len(w) + Len(rest)
        /\ \A p \in 1 .. Len(w) + Len(rest) : s[p] = IF p <= Len(w) THEN w[p] ELSE rest[p - Len(w)]
    BY <1>2, ConcatProperties
  <2> QED
    BY <2>1, <2>2
<1>4. PICK o \in Nat : o = First(w) /\ o \in Hits(w) /\ \A p \in Hits(w) : o <= p
  <2>1. First(w) \in Hits(w) /\ \A p \in Hits(w) : First(w) <= p
    BY FirstIsHit
  <2>2. Hits(w) \subseteq Nat
    BY <1>3 DEF Hits
  <2> QED
    BY <2>1, <2>2
<1>5. Divided(s, records, first, start)
  BY <1>2
<1>6. /\ first \in 1 .. n + 1 /\ l \in first .. n + 1
      /\ \A i, j \in first .. n + 1 : i < j => start[i] < start[j]
      /\ \A i \in first .. n + 1 : start[i] \in Nat
  <2>1. first \in 1 .. n + 1 /\ \A i, j \in first .. n + 1 : i < j => start[i] < start[j]
    BY <1>1, <1>5 DEF Divided
  <2>2. start \in [first .. n + 1 -> 0 .. Len(s)] /\ Len(s) \in Nat
    BY <1>1, <1>3, <1>5 DEF Divided
  <2>3. l \in first .. n + 1
    BY <1>1
  <2> QED
    BY <2>1, <2>2, <2>3
\* Where a record is in the window, there is a hit.
<1>7. ASSUME NEW i \in first .. l - 1
      PROVE  /\ i \in 1 .. n /\ start[i] \in Nat /\ start[i + 1] <= Len(w)
             /\ start[i + 1] = start[i] + Len(PartOf(records, i))
             /\ records[i] = "answer" => IsAnswer(w, start[i])
             /\ records[i] \notin {"answer", "noise"} => IsCall(w, start[i])
             /\ records[i] # "noise" => o <= start[i]
  <2>1. /\ i \in 1 .. n /\ start[i] \in Nat /\ start[i + 1] <= Len(w)
        /\ start[i + 1] = start[i] + Len(PartOf(records, i))
        /\ records[i] = "answer" => IsAnswer(w, start[i])
        /\ records[i] \notin {"answer", "noise"} => IsCall(w, start[i])
    BY <1>1, HitAtRecord
  <2>2. records[i] # "noise" => start[i] \in Hits(w)
    <3>1. start[i] \in 0 .. Len(w)
      <4>1. start[i] < start[i + 1]
        <5>1. i \in first .. n + 1 /\ i + 1 \in first .. n + 1 /\ i < i + 1
          BY <1>6
        <5> QED
          BY <1>6, <5>1
      <4>2. start[i + 1] \in Nat
        BY <1>6
      <4> QED
        BY <1>3, <2>1, <4>1, <4>2
    <3> QED
      BY <2>1, <3>1 DEF Hits
  <2> QED
    BY <1>4, <2>1, <2>2
\* A byte of the window is of a record in the window.
<1>8. ASSUME NEW p \in 1 .. Len(w)
      PROVE  \E i \in first .. l - 1 :
               /\ p - start[i] \in 1 .. Len(PartOf(records, i))
               /\ w[p] = PartOf(records, i)[p - start[i]]
  <2>1. p \in 1 .. Len(s)
    BY <1>3
  <2>2. PICK i \in first .. n :
          /\ start[i] < p /\ p <= start[i + 1]
          /\ p - start[i] \in 1 .. Len(PartOf(records, i))
          /\ s[p] = PartOf(records, i)[p - start[i]]
    BY <1>1, <1>5, <2>1, ByteOfRecord
  <2>3. i < l
    <3> SUFFICES ASSUME l <= i PROVE FALSE
      BY <1>6
    <3>1. l = i \/ start[l] < start[i]
      BY <1>6
    <3>2. start[i] \in Nat /\ start[l] = Len(w)
      BY <1>6
    <3> QED
      BY <1>3, <2>2, <3>1, <3>2
  <2>4. i \in first .. l - 1
    BY <1>6, <2>3
  <2> QED
    BY <1>3, <2>2, <2>4
\* What is taken for an answer is one, and a call is one.
<1>9. \E m \in first .. l - 1 :
        o = start[m] /\ records[m] # "noise" /\ (IsAnswer(w, o) <=> records[m] = "answer")
  <2>1. CASE IsAnswer(w, o)
    <3>1. PICK p \in 1 .. Len(w) : p = o + 2 /\ w[p] = "CR"
      <4>1. o + 2 \in 1 .. Len(w)
        BY <1>3, <2>1 DEF IsAnswer
      <4> QED
        BY <2>1, <4>1 DEF IsAnswer
    <3>2. PICK i \in first .. l - 1 :
            /\ p - start[i] \in 1 .. Len(PartOf(records, i))
            /\ w[p] = PartOf(records, i)[p - start[i]]
      BY <1>8
    <3>3. PICK b : b = PartOf(records, i)
      OBVIOUS
    <3>4. PICK j : j = p - start[i]
      OBVIOUS
    <3>5. j \in 1 .. Len(b) /\ b[j] = "CR" /\ p = start[i] + j /\ start[i] \in Nat
      <4>1. start[i] \in Nat
        BY <1>7
      <4>2. p \in Nat
        BY <1>3
      <4>3. j \in 1 .. Len(b) /\ b[j] = "CR"
        BY <3>1, <3>2, <3>3, <3>4
      <4>4. p = start[i] + j
        BY ONLY <3>4, <4>1, <4>2
      <4> QED
        BY <4>1, <4>3, <4>4
    <3>6. i \in DOMAIN Callers /\ records[i] \in Record /\ b = Bytes(records[i], Callers[i])
      BY <1>1, <1>7, <3>3, PartIs DEF PartOf
    <3>7. records[i] # "noise"
      BY <3>5, <3>6, NoiseBytes
    <3>8. CASE records[i] = "answer"
      <4>1. j = 2
        BY <3>5, <3>6, <3>8, AnswerBytes
      <4>2. o = start[i]
        <5>1. PICK a \in Nat : a = start[i]
          BY <3>5
        <5>2. o + 2 = a + 2
          BY <3>1, <3>5, <4>1, <5>1
        <5>3. o = a
          BY <5>2
        <5> QED
          BY <5>1, <5>3
      <4> QED
        BY <2>1, <3>8, <4>2
    <3>9. CASE records[i] # "answer"
      <4>1. PICK r \in Record : r = records[i] /\ r \notin {"answer", "noise"} /\ b = Bytes(r, Callers[i])
        BY <3>6, <3>7, <3>9
      <4>2. Len(b) = Size /\ \A k \in 1 .. Size : b[k] = "CR" => k = Size - 1
        BY <3>6, <4>1, CallBytes
      <4>3. j = Size - 1
        BY <3>5, <4>2
      <4>4. o <= start[i]
        BY <1>7, <3>7
      <4>5. Size > 3 /\ Size \in Nat
        BY LayoutNats
      <4> QED
        BY <3>1, <3>5, <4>3, <4>4, <4>5
    <3> QED
      BY <3>8, <3>9
  <2>2. CASE ~IsAnswer(w, o)
    <3>1. IsCall(w, o)
      BY <1>4, <2>2 DEF Hits
    <3>2. PICK p \in 1 .. Len(w) : p = o + MarkAt + 1 /\ w[p] = "E"
      <4>1. o + MarkAt + 1 \in 1 .. Len(w)
        BY <1>3, <3>1, LayoutNats DEF IsCall
      <4> QED
        BY <3>1, <4>1 DEF IsCall
    <3>3. PICK i \in first .. l - 1 :
            /\ p - start[i] \in 1 .. Len(PartOf(records, i))
            /\ w[p] = PartOf(records, i)[p - start[i]]
      BY <1>8
    <3>4. PICK b : b = PartOf(records, i)
      OBVIOUS
    <3>5. PICK j : j = p - start[i]
      OBVIOUS
    <3>6. j \in 1 .. Len(b) /\ b[j] = "E" /\ p = start[i] + j /\ start[i] \in Nat
      <4>1. start[i] \in Nat
        BY <1>7
      <4>2. p \in Nat
        BY <1>3
      <4>3. j \in 1 .. Len(b) /\ b[j] = "E"
        BY <3>2, <3>3, <3>4, <3>5
      <4>4. p = start[i] + j
        BY ONLY <3>5, <4>1, <4>2
      <4> QED
        BY <4>1, <4>3, <4>4
    <3>7. i \in DOMAIN Callers /\ records[i] \in Record /\ b = Bytes(records[i], Callers[i])
      BY <1>1, <1>7, <3>4, PartIs DEF PartOf
    <3>8. records[i] # "noise"
      BY <3>6, <3>7, NoiseBytes
    <3>9. records[i] # "answer"
      BY <3>6, <3>7, AnswerBytes
    <3>10. PICK r \in Record : r = records[i] /\ r \notin {"answer", "noise"} /\ b = Bytes(r, Callers[i])
      BY <3>7, <3>8, <3>9
    <3>11. Len(b) = Size /\ \A k \in 1 .. Size : b[k] = "E" => k = MarkAt + 1
      BY <3>7, <3>10, CallBytes
    <3>12. j = MarkAt + 1
      BY <3>6, <3>11
    <3>13. o = start[i]
      <4>1. o + MarkAt + 1 = start[i] + (MarkAt + 1) /\ MarkAt \in Nat /\ start[i] \in Nat
        BY <3>2, <3>6, <3>12, LayoutNats
      <4> QED
        BY ONLY <4>1, o \in Nat
    <3> QED
      BY <2>2, <3>8, <3>9, <3>13
  <2> QED
    BY <2>1, <2>2
<1>10. PICK m \in first .. l - 1 :
         o = start[m] /\ records[m] # "noise" /\ (IsAnswer(w, o) <=> records[m] = "answer")
  BY <1>9
<1>11. Until(w, o) = start[m + 1]
  <2>1. PICK b : b = PartOf(records, m)
    OBVIOUS
  <2>2. m \in DOMAIN Callers /\ records[m] \in Record /\ b = Bytes(records[m], Callers[m])
    BY <1>1, <1>7, <2>1, PartIs DEF PartOf
  <2>3. start[m + 1] = o + Len(b)
    BY <1>7, <1>10, <2>1
  <2>4. CASE records[m] = "answer"
    <3>1. Len(b) = 3
      BY <2>2, <2>4, BytesAre
    <3> QED
      BY <1>10, <2>3, <2>4, <3>1 DEF Until
  <2>5. CASE records[m] # "answer"
    <3>1. PICK r \in Record : r = records[m] /\ r \notin {"answer", "noise"} /\ b = Bytes(r, Callers[m])
      BY <1>10, <2>2, <2>5
    <3>2. Len(b) = Size
      BY <2>2, <3>1, CallBytes
    <3> QED
      BY <1>10, <2>3, <2>5, <3>2 DEF Until
  <2> QED
    BY <2>4, <2>5
<1>12. ASSUME NEW i \in first .. m - 1 PROVE records[i] = "noise"
  <2>1. i \in first .. l - 1 /\ i \in first .. n + 1 /\ m \in first .. n + 1 /\ i < m
    BY <1>6
  <2>2. start[i] < o /\ start[i] \in Nat
    BY <1>6, <1>10, <2>1
  <2> QED
    BY <1>7, <2>1, <2>2
<1> QED
  BY <1>4, <1>7, <1>10, <1>11, <1>12

\* If the parser finds no record, all that is in the window is noise, and it
\* keeps two bytes of that.
LEMMA NoiseOnly ==
  ASSUME NEW w \in Seq(Byte), NEW rest \in Seq(Byte), NEW records \in Seq(Record),
         Len(records) <= Len(Callers), NEW first, NEW start,
         Divided(w \o rest, records, first, start),
         NEW l \in first .. Len(records) + 1, start[l] = Len(w), Hits(w) = {}
  PROVE  /\ \A i \in first .. l - 1 : records[i] = "noise"
         /\ \E m \in first .. l : DataReceived(w) = start[m]
<1>1. PICK n \in Nat : n = Len(records)
  BY LenProperties
<1>2. PICK s \in Seq(Byte) : s = w \o rest
  BY ConcatProperties
<1>3. Len(w) \in Nat /\ Len(rest) \in Nat /\ Len(s) = Len(w) + Len(rest)
  BY <1>2, ConcatProperties, LenProperties
<1>4. Divided(s, records, first, start)
  BY <1>2
<1>5. /\ first \in 1 .. n + 1 /\ l \in first .. n + 1 /\ start[first] = 0
      /\ \A i, j \in first .. n + 1 : i < j => start[i] < start[j]
      /\ \A i \in first .. n + 1 : start[i] \in Nat
  <2>1. /\ first \in 1 .. n + 1 /\ start[first] = 0
        /\ \A i, j \in first .. n + 1 : i < j => start[i] < start[j]
    BY <1>1, <1>4 DEF Divided
  <2>2. start \in [first .. n + 1 -> 0 .. Len(s)] /\ Len(s) \in Nat
    BY <1>1, <1>3, <1>4 DEF Divided
  <2>3. l \in first .. n + 1
    BY <1>1
  <2> QED
    BY <2>1, <2>2, <2>3
<1>6. ASSUME NEW i \in first .. l - 1 PROVE records[i] = "noise" /\ start[i + 1] = start[i] + 1
  <2>1. /\ i \in 1 .. n /\ start[i] \in Nat /\ start[i + 1] <= Len(w)
        /\ start[i + 1] = start[i] + Len(PartOf(records, i))
        /\ records[i] = "answer" => IsAnswer(w, start[i])
        /\ records[i] \notin {"answer", "noise"} => IsCall(w, start[i])
    BY <1>1, HitAtRecord
  <2>2. start[i] < start[i + 1] /\ start[i + 1] \in Nat
    <3>1. i \in first .. n + 1 /\ i + 1 \in first .. n + 1 /\ i < i + 1
      BY <1>5
    <3> QED
      BY <1>5, <3>1
  <2>3. start[i] \in 0 .. Len(w)
    BY <1>3, <2>1, <2>2
  <2>4. records[i] = "noise"
    BY <2>1, <2>3 DEF Hits
  <2>5. PICK b : b = PartOf(records, i)
    OBVIOUS
  <2>6. i \in DOMAIN Callers /\ records[i] \in Record /\ b = Bytes(records[i], Callers[i])
    BY <1>1, <2>1, <2>5, PartIs DEF PartOf
  <2>7. Len(b) = 1
    BY <2>4, <2>6, BytesAre
  <2> QED
    BY <2>1, <2>4, <2>5, <2>7
<1>7. DataReceived(w) = IF Len(w) < 3 THEN 0 ELSE Len(w) - 2
  <2>1. Scanned(w) = IF Len(w) < 3 THEN 0 ELSE Len(w) - 2
    BY DEF Scanned
  <2>2. Size \in Nat /\ Size >= 3
    BY LayoutNats
  <2>3. DataReceived(w) = IF Scanned(w) = 0 /\ Len(w) > Size THEN Len(w) - Size + 1 ELSE Scanned(w)
    BY DEF DataReceived
  <2>4. ~(Scanned(w) = 0 /\ Len(w) > Size)
    <3>1. PICK z : z = Scanned(w)
      OBVIOUS
    <3>2. PICK k \in Nat : k = Len(w)
      BY <1>3
    <3>3. PICK size \in Nat : size = Size /\ size >= 3
      BY <2>2
    <3>4. z = IF k < 3 THEN 0 ELSE k - 2
      BY <2>1, <3>1, <3>2
    <3>5. ~(z = 0 /\ k > size)
      BY ONLY <3>3, <3>4, k \in Nat, size \in Nat
    <3> QED
      BY <3>1, <3>2, <3>3, <3>5
  <2> QED
    BY <2>1, <2>3, <2>4, Zenon
<1>8. CASE Len(w) < 3
  BY <1>5, <1>6, <1>7, <1>8
<1>9. CASE ~(Len(w) < 3)
  <2>1. l # first
    BY <1>3, <1>5, <1>9
  <2>2. l - 1 \in first .. l - 1 /\ (l - 1) + 1 = l /\ l - 1 \in first .. n + 1
    BY <1>5, <2>1
  <2>3. Len(w) = start[l - 1] + 1 /\ start[l - 1] \in Nat
    BY <1>5, <1>6, <2>2
  <2>4. l - 1 # first
    BY <1>3, <1>5, <1>9, <2>3
  <2>5. l - 2 \in first .. l - 1 /\ (l - 2) + 1 = l - 1 /\ l - 2 \in first .. n + 1
    BY <1>5, <2>1, <2>4
  <2>6. start[l - 1] = start[l - 2] + 1 /\ start[l - 2] \in Nat
    BY <1>5, <1>6, <2>5
  <2>7. DataReceived(w) = start[l - 2]
    <3>1. PICK u \in Nat : u = start[l - 2]
      BY <2>6
    <3>2. Len(w) = (u + 1) + 1
      BY <2>3, <2>6, <3>1
    <3> QED
      BY <1>3, <1>7, <1>9, <3>1, <3>2
  <2>8. l - 2 \in first .. l
    BY <1>5, <2>5
  <2> QED
    BY <1>6, <2>7, <2>8
<1> QED
  BY <1>8, <1>9

LEMMA WholeInit == Init => WholeInv
<1> SUFFICES ASSUME Init PROVE WholeInv
  OBVIOUS
<1>1. Pending = <<>> /\ Len(Pending) = 0 /\ Len(sent) = 0 /\ data = <<>> /\ line = <<>> /\ window = <<>>
  <2>1. Pending = (<<>> \o <<>>) \o <<>>
    BY DEF Init, Pending
  <2>2. (<<>> \o <<>>) \o <<>> = <<>>
    OBVIOUS
  <2> QED
    BY <2>1, <2>2 DEF Init
<1>2. PICK start : start = [i \in 1 .. 1 |-> 0]
  OBVIOUS
<1>3. start \in [1 .. 1 -> 0 .. 0] /\ start[1] = 0
  BY <1>2
<1>4. Divided(Pending, sent, 1, start)
  BY <1>1, <1>3 DEF Divided
<1>5. \E l \in 1 .. Len(sent) + 1 : start[l] = Len(window) + Len(data)
  BY <1>1, <1>3
<1>6. Len(line) <= WindowSize - 2 /\ (pc = "fill" => FALSE)
  BY <1>1, LayoutFits DEF Init
<1> QED
  BY <1>1, <1>4, <1>5, <1>6 DEF WholeInv

LEMMA WholeRead ==
  ASSUME Inv, StreamInv, WholeInv, whole, Read
  PROVE  WholeInv'
<1>1. Len(line) \in Nat /\ line \in Seq(Byte) /\ window \in Seq(Byte) /\ Len(window) \in Nat
  BY LenProperties DEF Inv, TypeOK
<1>2. data' = SubSeq(line, 1, Len(line)) /\ line' = Drop(line, Len(line)) /\ consumed' = 0
  BY DEF Read
<1>3. data' = line /\ Len(line') = 0
  <2>1. SubSeq(line, 1, Len(line)) = line
    BY <1>1, SubSeqFull
  <2>2. Len(Drop(line, Len(line))) = 0
    <3>1. Len(line) \in 0 .. Len(line)
      BY <1>1
    <3>2. Len(Drop(line, Len(line))) = Len(line) - Len(line)
      BY <1>1, <3>1, DropElements
    <3> QED
      BY <1>1, <3>2
  <2> QED
    BY <1>2, <2>1, <2>2
<1>4. UNCHANGED <<window, sent, told, ignored>> /\ Pending' = Pending /\ Pending = window \o line
  BY ReadPending DEF Read
<1>5. PICK first, start :
        first \in Nat /\ Divided(Pending, sent, first, start) /\ \A i \in 1 .. first - 1 : Handled(i)
  BY DEF WholeInv
<1>6. Divided(Pending', sent', first, start) /\ \A i \in 1 .. first - 1 : Handled(i)'
  BY <1>4, <1>5 DEF Handled
<1>7. \E l \in first .. Len(sent') + 1 : start[l] = Len(window') + Len(data')
  <2>1. Len(sent) \in Nat /\ Len(sent) + 1 \in first .. Len(sent) + 1
    BY <1>5, LenProperties DEF Divided, Inv, TypeOK
  <2>2. start[Len(sent) + 1] = Len(Pending)
    BY <1>5 DEF Divided
  <2>3. Len(Pending) = Len(window) + Len(line)
    BY <1>1, <1>4, ConcatProperties
  <2>4. start[Len(sent) + 1] = Len(window') + Len(data')
    BY <1>3, <1>4, <2>2, <2>3
  <2> QED
    BY <1>4, <2>1, <2>4
<1>8. Len(line') <= WindowSize - 2 /\ Len(data') <= WindowSize - 2
  BY <1>3, LayoutFits DEF WholeInv
<1>9. \E f \in Nat : \E s :
        /\ Divided(Pending', sent', f, s)
        /\ \E l \in f .. Len(sent') + 1 : s[l] = Len(window') + Len(data')
        /\ \A i \in 1 .. f - 1 : Handled(i)'
  BY ONLY <1>5, <1>6, <1>7
<1> QED
  BY <1>2, <1>8, <1>9 DEF WholeInv

\* If reads are whole, the first iteration moves all that was read.
LEMMA WholeMoved ==
  ASSUME Inv, WholeInv, whole, pc = "fill"
  PROVE  /\ Drop(data, Moved) = <<>> /\ Pending = Filled \o line
         /\ Len(Filled) = Len(window) + Len(data)
<1>1. /\ Len(window) \in Nat /\ Len(data) \in Nat /\ WindowSize \in Nat /\ 4 <= WindowSize
      /\ data \in Seq(Byte) /\ line \in Seq(Byte)
  BY LenProperties, LayoutFits DEF Inv, TypeOK
<1>2. Moved = Len(data)
  <2>1. CASE data = <<>>
    BY <1>1, <2>1, MovedFits
  <2>2. CASE data # <<>>
    <3>1. Len(window) < 3 /\ Len(data) <= WindowSize - 2
      BY <2>2 DEF WholeInv, Inv, KeptInv
    <3>2. Len(window) <= 2
      BY <1>1, <3>1
    <3>3. Unused = WindowSize - Len(window) /\ Unused # 0 /\ Len(data) <= Unused
      BY <1>1, <3>1, <3>2 DEF Unused
    <3>4. Moved = IF Len(data) < Unused THEN Len(data) ELSE Unused
      BY <3>3 DEF Moved, Lesser
    <3> QED
      BY <1>1, <3>3, <3>4
  <2> QED
    BY <2>1, <2>2
<1>3. Drop(data, Moved) = <<>>
  <2>1. Len(data) \in 0 .. Len(data)
    BY <1>1
  <2>2. Drop(data, Len(data)) \in Seq(Byte) /\ Len(Drop(data, Len(data))) = Len(data) - Len(data)
    BY <1>1, <2>1, DropElements
  <2> QED
    BY <1>1, <1>2, <2>2, EmptySeq
<1>4. Pending = Filled \o (Drop(data, Moved) \o line)
  BY FilledPending
<1>5. <<>> \o line = line
  BY <1>1, ConcatEmptySeq
<1> QED
  BY <1>2, <1>3, <1>4, <1>5, MovedFits

\* What was handled stays handled.
LEMMA HandledStays ==
  ASSUME Inv, NEW i, Handled(i), sent'[i] = sent[i], ignored \subseteq ignored',
         told' = told \/ \E e \in {"I", "D", "A"} \X Byte : told' = Append(told, e)
  PROVE  Handled(i)'
<1>1. /\ DOMAIN told \subseteq DOMAIN told'
      /\ \A j \in DOMAIN told : told'[j] = told[j]
  <2>1. CASE told' = told
    BY <2>1
  <2>2. CASE told' # told
    <3>1. PICK e \in {"I", "D", "A"} \X Byte : told' = Append(told, e)
      BY <2>2
    <3> QED
      BY <3>1, AppendProperties, LenProperties DEF Inv, TypeOK
  <2> QED
    BY <2>1, <2>2
<1> QED
  BY <1>1 DEF Handled

LEMMA WholeFill ==
  ASSUME Inv, StreamInv, WholeInv, whole, Fill
  PROVE  WholeInv'
<1>1. PICK first, start :
        /\ first \in Nat
        /\ Divided(Pending, sent, first, start)
        /\ \E l \in first .. Len(sent) + 1 : start[l] = Len(window) + Len(data)
        /\ \A i \in 1 .. first - 1 : Handled(i)
  BY DEF WholeInv
<1>2. PICK w \in Seq(Byte) : w = Filled
  BY MovedFits
<1>3. PICK c : c = DataReceived(w)
  OBVIOUS
<1>4. /\ data' = <<>> /\ window' = Drop(w, c) /\ Pending = w \o line
      /\ Len(w) = Len(window) + Len(data)
      /\ IF Hits(w) # {} THEN Execute(w, First(w)) ELSE UNCHANGED <<evDetected, told, ignored>>
      /\ UNCHANGED <<whole, line, pc, sent>>
  BY <1>2, <1>3, WholeMoved DEF Fill
<1>5. PICK l \in first .. Len(sent) + 1 : start[l] = Len(w)
  BY <1>1, <1>4
<1>6. /\ sent \in Seq(Record) /\ Len(sent) <= Len(Callers) /\ line \in Seq(Byte)
      /\ Divided(w \o line, sent, first, start)
      /\ Len(sent) \in Nat /\ first \in 1 .. Len(sent) + 1 /\ Len(w) \in Nat
  BY <1>1, <1>4, LenProperties DEF Inv, TypeOK, StreamInv, Divided
<1>7. /\ ignored \subseteq ignored'
      /\ told' = told \/ \E e \in {"I", "D", "A"} \X Byte : told' = Append(told, e)
  <2>1. CASE Hits(w) = {}
    BY <1>4, <2>1
  <2>2. CASE Hits(w) # {}
    <3>1. Execute(w, First(w)) /\ First(w) \in Hits(w)
      BY <1>4, <2>2, FirstIsHit
    <3>2. ASSUME told' # told PROVE Event(w, First(w)) \in {"I", "D", "A"} \X Byte
      <4>1. /\ w[First(w) + KindAt + 1] \in {"I", "D", "A"} /\ IsCall(w, First(w))
            /\ First(w) \in 0 .. Len(w)
        BY <3>1, <3>2 DEF Execute, Hits
      <4>2. First(w) + NumberAt + 1 \in 1 .. Len(w)
        <5>1. PICK o \in Nat : o = First(w)
          BY <4>1
        <5>2. Len(w) - o >= Size
          BY <4>1, <5>1 DEF IsCall
        <5> QED
          BY <1>6, <5>1, <5>2, LayoutNats
      <4>3. w[First(w) + NumberAt + 1] \in Byte
        BY <4>2, LenProperties
      <4> QED
        BY <4>1, <4>3 DEF Event
    <3> QED
      BY <3>1, <3>2 DEF Execute
  <2> QED
    BY <2>1, <2>2
<1>8. ASSUME NEW i \in 1 .. first - 1 PROVE Handled(i)'
  BY <1>1, <1>4, <1>7, HandledStays
\* An iteration drops whole records, each of which it has handled.
<1>9. \E m \in first .. l : c = start[m] /\ \A i \in first .. m - 1 : Handled(i)'
  <2>1. CASE Hits(w) # {}
    <3>1. PICK o : o = First(w)
      OBVIOUS
    <3>2. PICK k \in first .. l - 1 :
            /\ o = start[k] /\ Until(w, o) = start[k + 1]
            /\ sent[k] # "noise" /\ (sent[k] = "answer" => IsAnswer(w, start[k]))
            /\ \A i \in first .. k - 1 : sent[i] = "noise"
      <4>1. \E k \in first .. l - 1 :
              /\ First(w) = start[k] /\ Until(w, First(w)) = start[k + 1]
              /\ sent[k] # "noise" /\ (sent[k] = "answer" => IsAnswer(w, start[k]))
              /\ \A i \in first .. k - 1 : sent[i] = "noise"
        BY ONLY <1>5, <1>6, <2>1, FirstAtRecord, w \in Seq(Byte)
      <4> QED
        BY <3>1, <4>1
    <3>3. /\ o \in Nat /\ k \in 1 .. Len(sent)
          /\ sent[k] \notin {"answer", "noise"} =>
               /\ IsCall(w, o)
               /\ w[o + KindAt + 1] = sent[k] /\ w[o + NumberAt + 1] = Callers[k]
      <4>1. /\ start[k] \in Nat /\ k \in 1 .. Len(sent)
            /\ sent[k] \notin {"answer", "noise"} =>
                 /\ IsCall(w, start[k])
                 /\ w[start[k] + KindAt + 1] = sent[k]
                 /\ w[start[k] + NumberAt + 1] = Callers[k]
        BY ONLY <1>5, <1>6, HitAtRecord, w \in Seq(Byte), k \in first .. l - 1
      <4> QED
        BY <3>2, <4>1
    <3>4. c = start[k + 1]
      <4>1. Until(w, o) # 0
        BY <3>3, LayoutNats DEF Until
      <4> QED
        BY <1>3, <2>1, <3>1, <3>2, <4>1 DEF DataReceived, Scanned
    <3>5. Handled(k)'
      <4> SUFFICES ASSUME sent[k] \in {"I", "D", "A"}
                   PROVE  \/ Callers[k] \in ignored'
                          \/ \E j \in DOMAIN told' : told'[j] = <<sent[k], Callers[k]>>
        BY <1>4 DEF Handled
      <4>1. /\ IsCall(w, o) /\ ~IsAnswer(w, o)
            /\ w[o + KindAt + 1] = sent[k] /\ w[o + NumberAt + 1] = Callers[k]
        BY <3>3 DEF IsCall, IsAnswer
      <4>2. Execute(w, o)
        BY <1>4, <2>1, <3>1
      <4>3. CASE testing
        BY <4>1, <4>2, <4>3 DEF Execute
      <4>4. CASE ~testing
        <5>1. PICK e : e = <<sent[k], Callers[k]>>
          OBVIOUS
        <5>2. Event(w, o) = e
          BY <4>1, <5>1 DEF Event
        <5>3. told' = Append(told, e)
          BY <4>1, <4>2, <4>4, <5>2 DEF Execute
        <5>4. e \in {"I", "D", "A"} \X Byte
          <6>1. k \in DOMAIN Callers
            BY <1>6, <3>3, LenProperties, CallersSequence
          <6> QED
            BY <5>1, <6>1 DEF Byte
        <5>5. Len(told) + 1 \in DOMAIN told' /\ told'[Len(told) + 1] = e
          BY <5>3, <5>4, AppendProperties, LenProperties DEF Inv, TypeOK
        <5> QED
          BY <5>1, <5>5
      <4> QED
        BY <4>3, <4>4
    <3>6. ASSUME NEW i \in first .. (k + 1) - 1 PROVE Handled(i)'
      <4>1. i = k \/ i \in first .. k - 1
        BY <1>6, <3>3
      <4>2. ASSUME sent[i] = "noise" PROVE Handled(i)'
        BY <1>4, <4>2 DEF Handled
      <4> QED
        BY <3>2, <3>5, <4>1, <4>2
    <3>7. k + 1 \in first .. l
      BY <1>6, <3>3
    <3> QED
      BY <3>4, <3>6, <3>7
  <2>2. CASE Hits(w) = {}
    <3>1. /\ \A i \in first .. l - 1 : sent[i] = "noise"
          /\ \E m \in first .. l : c = start[m]
      BY <1>3, <1>5, <1>6, <2>2, NoiseOnly
    <3>2. ASSUME NEW i \in first .. l - 1 PROVE Handled(i)'
      BY <1>4, <3>1 DEF Handled
    <3>3. PICK m \in first .. l : c = start[m]
      BY <3>1
    <3>4. \A i \in first .. m - 1 : i \in first .. l - 1
      BY <1>6
    <3> QED
      BY <3>2, <3>3, <3>4
  <2> QED
    BY <2>1, <2>2
<1>10. PICK m \in first .. l : c = start[m] /\ \A i \in first .. m - 1 : Handled(i)'
  BY <1>9
<1>11. PICK after : after = [i \in m .. Len(sent) + 1 |-> start[i] - start[m]]
  OBVIOUS
<1>12. m \in first .. Len(sent) + 1 /\ m \in Nat /\ l \in m .. Len(sent) + 1
  BY <1>6
<1>13. c \in 0 .. Len(w)
  BY <1>3, ScanBounds
<1>14. Pending' = Drop(Pending, c)
  <2>1. Pending' = (Drop(w, c) \o <<>>) \o line
    BY <1>4 DEF Pending
  <2>2. Drop(w, c) \o <<>> = Drop(w, c)
    <3>1. Drop(w, c) \in Seq(Byte)
      BY <1>13, DropElements
    <3> QED
      BY <3>1, ConcatEmptySeq
  <2> QED
    BY <1>4, <1>6, <1>13, <2>1, <2>2, DropOfConcat
<1>15. Divided(Pending', sent', m, after)
  <2>1. Divided(Drop(Pending, start[m]), sent, m, after)
    <3>1. PICK s \in Seq(Byte) : s = Pending
      BY PendingType DEF Inv
    <3>2. Divided(s, sent, first, start)
      BY <1>1, <3>1
    <3> DEFINE g == [i \in m .. Len(sent) + 1 |-> start[i] - start[m]]
    <3>3. Divided(Drop(s, start[m]), sent, m, g)
      BY ONLY <1>6, <1>12, <3>2, DividedDropped, s \in Seq(Byte)
    <3>4. g = after
      BY <1>11
    <3> HIDE DEF g
    <3> QED
      BY <3>1, <3>3, <3>4
  <2> QED
    BY <1>4, <1>10, <1>14, <2>1
<1>16. after[l] = Len(window') + Len(data')
  <2>1. after[l] = Len(w) - c
    BY <1>5, <1>10, <1>11, <1>12
  <2>2. Len(window') = Len(w) - c /\ Len(data') = 0
    BY <1>4, <1>13, DropElements
  <2> QED
    BY <1>6, <1>13, <2>1, <2>2
<1>17. ASSUME NEW i \in 1 .. m - 1 PROVE Handled(i)'
  <2>1. i \in 1 .. first - 1 \/ i \in first .. m - 1
    BY <1>6, <1>12
  <2> QED
    BY <1>8, <1>10, <2>1
<1>18. Len(line') <= WindowSize - 2
  BY <1>4 DEF WholeInv
<1> QED
  BY <1>4, <1>12, <1>15, <1>16, <1>17, <1>18 DEF WholeInv

LEMMA WholeDeviceSend ==
  ASSUME Inv, StreamInv, WholeInv, whole, NEW r \in Record, DeviceSend(r)
  PROVE  WholeInv'
<1>1. PICK first, start :
        /\ first \in Nat
        /\ Divided(Pending, sent, first, start)
        /\ \E l \in first .. Len(sent) + 1 : start[l] = Len(window) + Len(data)
        /\ \A i \in 1 .. first - 1 : Handled(i)
  BY DEF WholeInv
<1>2. /\ Len(sent) < Len(Callers) /\ sent' = Append(sent, r)
      /\ Len(line') <= WindowSize - 2
      /\ UNCHANGED <<whole, window, data, consumed, pc, told, ignored>>
  BY DEF DeviceSend
<1>3. PICK n : n = Len(sent) + 1
  OBVIOUS
<1>4. PICK b : b = Bytes(r, Callers[n])
  OBVIOUS
<1>5. PICK more : more = [i \in first .. n + 1 |-> IF i <= n THEN start[i] ELSE Len(Pending) + Len(b)]
  OBVIOUS
<1>6. /\ Pending' = Pending \o b /\ Pending \in Seq(Byte) /\ sent \in Seq(Record)
      /\ Len(sent) \in Nat /\ first \in 1 .. n /\ Len(sent') = n
      /\ \A i \in 1 .. Len(sent) : sent'[i] = sent[i]
  <2>1. Pending' = Pending \o b
    BY <1>3, <1>4, SentPending
  <2>2. Pending \in Seq(Byte) /\ sent \in Seq(Record) /\ Len(sent) \in Nat
    BY PendingType, LenProperties DEF Inv, TypeOK
  <2>3. first \in 1 .. n
    BY <1>1, <1>3 DEF Divided
  <2>4. Len(sent') = n /\ \A i \in 1 .. Len(sent) : sent'[i] = sent[i]
    BY <1>2, <1>3, <2>2, AppendProperties
  <2> QED
    BY <2>1, <2>2, <2>3, <2>4
<1>7. Divided(Pending', sent', first, more)
  <2>1. Divided(Pending \o b, Append(sent, r), first, more)
    <3>1. PICK s \in Seq(Byte) : s = Pending
      BY <1>6
    <3>2. Divided(s, sent, first, start)
      BY <1>1, <3>1
    <3>3. sent \in Seq(Record) /\ Len(sent) < Len(Callers)
      BY <1>2, <1>6
    <3> DEFINE m == Len(sent) + 1
               c == Bytes(r, Callers[m])
               f == [i \in first .. m + 1 |-> IF i <= m THEN start[i] ELSE Len(s) + Len(c)]
    <3>4. Divided(s \o c, Append(sent, r), first, f)
      BY ONLY <3>2, <3>3, DividedExtended, s \in Seq(Byte), r \in Record
    <3>5. m = n /\ c = b /\ f = more
      BY <1>3, <1>4, <1>5, <3>1
    <3> HIDE DEF m, c, f
    <3> QED
      BY <3>1, <3>4, <3>5
  <2> QED
    BY <1>2, <1>6, <2>1
<1>8. \E l \in first .. Len(sent') + 1 : more[l] = Len(window') + Len(data')
  <2>1. PICK l \in first .. n : start[l] = Len(window) + Len(data)
    BY <1>1, <1>3
  <2>2. l \in first .. n + 1 /\ l <= n
    BY <1>3, <1>6
  <2> QED
    BY <1>2, <1>5, <1>6, <2>1, <2>2
<1>9. ASSUME NEW i \in 1 .. first - 1 PROVE Handled(i)'
  <2>1. i \in 1 .. Len(sent)
    BY <1>3, <1>6
  <2> QED
    BY <1>1, <1>2, <1>6, <2>1 DEF Handled
<1>10. \E f \in Nat : \E s :
         /\ Divided(Pending', sent', f, s)
         /\ \E l \in f .. Len(sent') + 1 : s[l] = Len(window') + Len(data')
         /\ \A i \in 1 .. f - 1 : Handled(i)'
  BY ONLY <1>1, <1>7, <1>8, <1>9
<1>11. /\ Len(line') <= WindowSize - 2
       /\ pc' = "fill" /\ data' # <<>> => consumed' = 0 /\ Len(data') <= WindowSize - 2
  BY <1>2 DEF WholeInv
<1> QED
  BY <1>10, <1>11 DEF WholeInv

LEMMA WholePreserved == Inv /\ StreamInv /\ WholeInv /\ [Next]_vars => WholeInv'
<1> SUFFICES ASSUME Inv, StreamInv, WholeInv, [Next]_vars PROVE WholeInv'
  OBVIOUS
<1>1. CASE ~whole
  <2>1. whole' = whole
    BY DEF Next, Read, Fill, FillEnd, DeviceSend, EchoTest, vars
  <2> QED
    BY <1>1, <2>1 DEF WholeInv
<1>2. CASE whole
  <2>1. CASE FillEnd \/ EchoTest \/ UNCHANGED vars
    <3>1. /\ UNCHANGED <<whole, window, data, line, consumed, sent, told, ignored>>
          /\ pc' = "fill" => pc = "fill"
      BY <2>1 DEF FillEnd, EchoTest, vars
    <3>2. Pending' = Pending /\ \A i : Handled(i)' <=> Handled(i)
      BY <3>1 DEF Pending, Handled
    <3> QED
      BY <3>1, <3>2 DEF WholeInv
  <2> QED
    BY <1>2, <2>1, WholeRead, WholeFill, WholeDeviceSend DEF Next
<1> QED
  BY <1>1, <1>2

\* When all is read, less is left than a call record.
LEMMA AllHandled == Inv /\ StreamInv /\ WholeInv => WholeCallsHandled
<1> SUFFICES ASSUME Inv, StreamInv, WholeInv, whole, pc = "read", line = <<>>,
                    NEW i \in DOMAIN sent, sent[i] \in {"I", "D", "A"}
             PROVE  Handled(i)
  BY DEF WholeCallsHandled, CallsHandled, Handled
<1>1. PICK first, start :
        first \in Nat /\ Divided(Pending, sent, first, start) /\ \A j \in 1 .. first - 1 : Handled(j)
  BY DEF WholeInv
<1>2. PICK n \in Nat : n = Len(sent)
  BY LenProperties DEF Inv, TypeOK
<1>3. i \in 1 .. n /\ first \in 1 .. n + 1 /\ sent \in Seq(Record) /\ Len(sent) <= Len(Callers)
  BY <1>1, <1>2, LenProperties DEF Inv, TypeOK, StreamInv, Divided
<1>4. i < first
  <2> SUFFICES ASSUME i \in first .. n PROVE FALSE
    BY <1>3
  <2>1. Pending \in Seq(Byte) /\ Len(Pending) \in Nat /\ Len(Pending) < 3
    <3>1. data = <<>> /\ Len(window) < 3 /\ window \in Seq(Byte)
      BY DEF StreamInv, Inv, KeptInv, TypeOK
    <3>2. Pending = window
      BY <3>1, ConcatEmptySeq DEF Pending
    <3> QED
      BY <3>1, <3>2, LenProperties
  <2>2. PICK b : b = PartOf(sent, i)
    OBVIOUS
  <2>3. PICK r \in Record : r = sent[i] /\ r \notin {"answer", "noise"}
    BY <1>3, LenProperties
  <2>4. i \in DOMAIN Callers /\ b = Bytes(r, Callers[i])
    BY <1>2, <1>3, <2>2, <2>3, PartIs DEF PartOf
  <2>5. Len(b) = Size
    BY <2>3, <2>4, CallBytes
  <2>6. start[i + 1] = start[i] + Len(b)
    BY <1>1, <1>2, <2>2 DEF Divided
  <2>7. start[i] \in 0 .. Len(Pending) /\ start[i + 1] \in 0 .. Len(Pending)
    <3>1. start \in [first .. n + 1 -> 0 .. Len(Pending)]
      BY <1>1, <1>2 DEF Divided
    <3>2. i \in first .. n + 1 /\ i + 1 \in first .. n + 1
      BY <1>3
    <3> QED
      BY <3>1, <3>2
  <2> QED
    BY <2>1, <2>5, <2>6, <2>7, LayoutNats, LayoutFits
<1> QED
  BY <1>1, <1>3, <1>4

\* If each record arrives in one read, no call is lost, for every layout of the
\* records and every stream of calls, answers and noise, whatever echo tests
\* begin and end meanwhile.
THEOREM WholeCallsAreHandled == SafeSpec => []WholeCallsHandled
<1>1. Inv /\ StreamInv /\ ToldWasSent /\ [Next]_vars => (StreamInv /\ ToldWasSent)'
  BY StreamPreserved
<1>2. SafeSpec => [](StreamInv /\ ToldWasSent)
  BY <1>1, StreamInit, InvHolds, PTL DEF SafeSpec
<1> QED
  BY <1>2, WholeInit, WholePreserved, AllHandled, InvHolds, PTL DEF SafeSpec

=============================================================================
