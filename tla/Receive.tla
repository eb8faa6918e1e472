------------------------------ MODULE Receive ------------------------------
(***************************************************************************)
(* How thReceive makes records of the bytes it reads: the window of        *)
(* _IcBox_receiveFunc, _IcBox_dataReceived and _IcBox_execute.  The device *)
(* sends answers (a letter, CR, LF) and call records of Size bytes.        *)
(* Module Connection has the reading, the canceling and the alive test of  *)
(* the same thread, and the threads that begin and end echo tests.         *)
(***************************************************************************)
EXTENDS Naturals, Sequences

CONSTANTS
  Size,        \* bytes of a call record (47)
  NumberAt,    \* where in it the number of the caller starts (10)
  MarkAt,      \* where in it the letter E is (22)
  KindAt,      \* where in it the letter of what happened is (38)
  WindowSize,  \* BUFFER_SIZE (256)
  Kinds,       \* what the device reports: letters
  Callers      \* bound: the records the device sends, by their callers

Letters == {"F", "I", "A", "D", "O"}    \* the first bytes of an answer
Byte == Letters \union Kinds \union {"E", "CR", "LF", "x"}
          \union {Callers[i] : i \in DOMAIN Callers}

ASSUME LayoutFits ==
  /\ {Size, NumberAt, MarkAt, KindAt, WindowSize} \subseteq Nat
  /\ 3 <= Size /\ Size < WindowSize
  /\ NumberAt < Size /\ MarkAt < Size /\ KindAt < Size
ASSUME CallersSequence == Callers \in Seq({Callers[i] : i \in DOMAIN Callers})
\* The fields are apart from each other and from the CR and LF at the end.
ASSUME FieldsApart ==
  /\ NumberAt # MarkAt /\ NumberAt # KindAt /\ MarkAt # KindAt
  /\ {NumberAt, MarkAt, KindAt} \subseteq 0 .. (Size - 3)
\* The caller tells a record from others, and no other field has an E.
ASSUME CallersTellRecords ==
  /\ \A i, j \in DOMAIN Callers : Callers[i] = Callers[j] => i = j
  /\ "E" \notin Kinds \union {Callers[i] : i \in DOMAIN Callers}
\* A record begins with no letter of an answer, and no field of it is a CR.
ASSUME CallsAreNoAnswers ==
  /\ KindAt # 0
  /\ NumberAt = 0 => Letters \intersect {Callers[i] : i \in DOMAIN Callers} = {}
  /\ "CR" \notin Kinds \union {Callers[i] : i \in DOMAIN Callers}

VARIABLES
  whole,       \* whether the bytes of a record always arrive in one read
  line,        \* the bytes sent and not yet read
  window,      \* the first window_size bytes of window
  data,        \* the last remaining bytes of buffer
  consumed,    \* the variable consumed
  pc,          \* "read" or "fill", the loop over what was read
  testing,     \* lib->testing
  evDetected,  \* the signal of lib->evDetected
  sent,        \* history: the records sent
  told,        \* history: the events pushed
  ignored      \* history: the callers of records that answered an echo test

vars == <<whole, line, window, data, consumed, pc, testing, evDetected, sent,
          told, ignored>>

-----------------------------------------------------------------------------
Drop(s, n) == SubSeq(s, n + 1, Len(s))
Lesser(m, n) == IF m < n THEN m ELSE n

\* What the device sends: an answer, a call record, a byte of noise.
Record == {"answer", "noise"} \union Kinds

Bytes(r, caller) ==
  CASE r = "answer" -> <<"F", "CR", "LF">>
    [] r = "noise"  -> <<"A">>
    [] OTHER -> [i \in 1 .. Size |->
                   CASE i = NumberAt + 1 -> caller
                     [] i = MarkAt + 1 -> "E"
                     [] i = KindAt + 1 -> r
                     [] i = Size - 1 -> "CR"
                     [] i = Size -> "LF"
                     [] OTHER -> "x"]

Init ==
  /\ whole \in BOOLEAN
  /\ line = <<>> /\ window = <<>> /\ data = <<>>
  /\ consumed = 0
  /\ pc = "read"
  /\ testing \in BOOLEAN
  /\ evDetected = FALSE
  /\ sent = <<>> /\ told = <<>> /\ ignored = {}

-----------------------------------------------------------------------------
(***************************************************************************)
(* _IcBox_execute at offset o of the window w: whether it finds a record   *)
(* there, and how long that one is.                                        *)
(***************************************************************************)
IsAnswer(w, o) ==
  /\ Len(w) - o >= 3
  /\ w[o + 1] \in Letters
  /\ w[o + 2] = "CR"
  /\ w[o + 3] = "LF"

IsCall(w, o) ==
  /\ Len(w) - o >= Size
  /\ w[o + 1] \notin Letters
  /\ w[o + MarkAt + 1] = "E"
  /\ w[o + Size - 1] = "CR"
  /\ w[o + Size] = "LF"

\* _IcBox_dataReceived stops at the first offset with a record, or when less
\* than three bytes are left.
Hits(w) == {o \in 0 .. Len(w) : IsAnswer(w, o) \/ IsCall(w, o)}
First(w) == LET hits == Hits(w) IN CHOOSE o \in hits : \A p \in hits : o <= p

\* Mutant: a record takes all of the window with it.
UntilEnd(w, o) == Len(w)

Until(w, o) == o + (IF IsAnswer(w, o) THEN 3 ELSE Size)

\* Mutant: without a record nothing is consumed.
ScannedKept(w) == IF Hits(w) # {} THEN Until(w, First(w)) ELSE 0

\* Mutant: the record found is left in the window.
ScannedBefore(w) ==
  IF Hits(w) # {} THEN First(w) ELSE IF Len(w) < 3 THEN 0 ELSE Len(w) - 2

Scanned(w) ==
  IF Hits(w) # {} THEN Until(w, First(w))
                  ELSE IF Len(w) < 3 THEN 0 ELSE Len(w) - 2

\* The number of bytes _IcBox_dataReceived returns.
DataReceived(w) ==
  LET n == Scanned(w)
  IN  IF n = 0 /\ Len(w) > Size THEN Len(w) - Size + 1 ELSE n

\* Mutant: the parts of an event are swapped.
EventSwapped(w, o) == <<w[o + NumberAt + 1], w[o + KindAt + 1]>>

Event(w, o) == <<w[o + KindAt + 1], w[o + NumberAt + 1]>>

\* What _IcBox_execute does about the record at offset o.
Execute(w, o) ==
  \/ /\ IsAnswer(w, o)
     /\ evDetected' = TRUE
     /\ UNCHANGED <<told, ignored>>
  \/ /\ IsCall(w, o)
     /\ testing
     /\ evDetected' = TRUE
     /\ ignored' = ignored \union {w[o + NumberAt + 1]}
     /\ UNCHANGED told
  \/ /\ IsCall(w, o)
     /\ ~testing
     /\ evDetected' = FALSE
     /\ told' = IF w[o + KindAt + 1] \in {"I", "D", "A"}
                  THEN Append(told, Event(w, o)) ELSE told
     /\ UNCHANGED ignored

-----------------------------------------------------------------------------
(***************************************************************************)
(* _IcBox_receiveFunc.  A read returns when the line was silent for one    *)
(* millisecond (ReadIntervalTimeout), wherever in a record that is.        *)
(***************************************************************************)
Read ==
  /\ pc = "read"
  /\ line # <<>>
  /\ \E n \in 1 .. Lesser(Len(line), WindowSize) :
       /\ whole => n = Len(line)
       /\ data' = SubSeq(line, 1, n)
       /\ line' = Drop(line, n)
  /\ consumed' = 0
  /\ pc' = "fill"
  /\ UNCHANGED <<whole, window, testing, evDetected, sent, told, ignored>>

Unused == WindowSize - Len(window)

\* The bytes one iteration moves to the window: at least one, for which the
\* first one of a full window is given up.
Moved == IF Unused = 0 /\ data # <<>> THEN 1 ELSE Lesser(Len(data), Unused)

Filled ==
  (IF Moved > Unused THEN Drop(window, Moved) ELSE window) \o SubSeq(data, 1, Moved)

\* Mutant: what was consumed stays in the window.
FillStays ==
  /\ pc = "fill"
  /\ data # <<>> \/ consumed > 0
  /\ data' = Drop(data, Moved)
  /\ window' = Filled
  /\ \E w \in {Filled} : \E c \in {DataReceived(w)} :
       /\ consumed' = IF w = <<>> THEN 0 ELSE c
       /\ IF Hits(w) # {} THEN Execute(w, First(w))
                          ELSE UNCHANGED <<evDetected, told, ignored>>
  /\ UNCHANGED <<whole, line, pc, testing, sent>>

\* One iteration; consumed is 0 after it if the window is empty.
Fill ==
  /\ pc = "fill"
  /\ data # <<>> \/ consumed > 0
  /\ data' = Drop(data, Moved)
  /\ \E w \in {Filled} : \E c \in {DataReceived(w)} :
       /\ window' = Drop(w, c)
       /\ consumed' = IF Len(w) = c THEN 0 ELSE c
       /\ IF Hits(w) # {} THEN Execute(w, First(w))
                          ELSE UNCHANGED <<evDetected, told, ignored>>
  /\ UNCHANGED <<whole, line, pc, testing, sent>>

FillEnd ==
  /\ pc = "fill"
  /\ data = <<>> /\ consumed = 0
  /\ pc' = "read"
  /\ UNCHANGED <<whole, line, window, data, consumed, testing, evDetected, sent,
                 told, ignored>>

-----------------------------------------------------------------------------
\* The device.  If reads are whole, it never has more on the line than fits
\* into the window behind the two bytes that may be left there.
DeviceSend(r) ==
  /\ Len(sent) < Len(Callers)
  /\ sent' = Append(sent, r)
  /\ line' = line \o Bytes(r, Callers[Len(sent) + 1])
  /\ whole => Len(line') <= WindowSize - 2
  /\ UNCHANGED <<whole, window, data, consumed, pc, testing, evDetected, told,
                 ignored>>

\* The other threads begin and end echo tests, and wait in them.
EchoTest ==
  /\ \/ testing' = ~testing /\ UNCHANGED evDetected
     \/ testing /\ evDetected /\ evDetected' = FALSE /\ UNCHANGED testing
  /\ UNCHANGED <<whole, line, window, data, consumed, pc, sent, told, ignored>>

Next ==
  Read \/ Fill \/ FillEnd \/ (\E r \in Record : DeviceSend(r)) \/ EchoTest

\* The thread runs.
Fairness == WF_vars(Fill \/ FillEnd)

SafeSpec == Init /\ [][Next]_vars

Spec == SafeSpec /\ Fairness

-----------------------------------------------------------------------------
\* Every variable has its type.
TypeOK ==
  /\ whole \in BOOLEAN /\ testing \in BOOLEAN /\ evDetected \in BOOLEAN
  /\ line \in Seq(Byte) /\ window \in Seq(Byte) /\ data \in Seq(Byte)
  /\ consumed \in Nat
  /\ pc \in {"read", "fill"}
  /\ sent \in Seq(Record)
  /\ told \in Seq({"I", "D", "A"} \X Byte)
  /\ ignored \subseteq Byte

\* There is always room in the window for a byte that was read, so the branch
\* that gives one up for it is never needed and the copy stays inside.
WindowNeverFull == Len(window) < WindowSize

\* Between two reads the window holds less than the shortest record.
LittleIsKept == pc = "read" => Len(window) < 3

\* The events are some of the call records sent, each at most once and in
\* their order, whatever the reads make of the bytes: nothing is invented from
\* the remains of two records.
CallNo(e) == CHOOSE i \in DOMAIN Callers : Callers[i] = e[2]

ToldWasSent ==
  /\ \A i \in DOMAIN told :
       CallNo(told[i]) \in DOMAIN sent /\ sent[CallNo(told[i])] = told[i][1]
  /\ \A i, j \in DOMAIN told : i < j => CallNo(told[i]) < CallNo(told[j])

\* Once all that was sent is read, every call was reported, or came during an
\* echo test.
CallsHandled ==
  pc = "read" /\ line = <<>> =>
    \A i \in DOMAIN sent :
      sent[i] \in {"I", "D", "A"} =>
        \/ Callers[i] \in ignored
        \/ \E j \in DOMAIN told : told[j] = <<sent[i], Callers[i]>>

\* That is so if every record arrives in one read ...
WholeCallsHandled == whole => CallsHandled

\* What was read is parsed to its end.
ReadsOn == pc = "fill" ~> pc = "read"

=============================================================================
