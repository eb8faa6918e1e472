-------------------------- MODULE EventQueueProofs --------------------------
(***************************************************************************)
(* For any set of pushing threads, any set of events and any bound: what   *)
(* the runs of EventQueue show on a small instance.  The argument is one   *)
(* inductive invariant, Inv.  Its heart is SignalInv and ReadyInv: because *)
(* evReceive is reset in the same critical section that pops, a signal     *)
(* never outlives the event it announced, so a poller that was woken finds *)
(* an event or a cancel.                                                   *)
(***************************************************************************)
EXTENDS EventQueue, SequenceTheorems, TLAPS

\* The owner of writeMutex is the thread inside a critical section.
MutexInv ==
  /\ \A p \in Pushers : pc[p] \in {"push", "post"} <=> writeMutex = p
  /\ pollPc \in {"pop", "reset"} <=> writeMutex = Poller

\* The poller holds an event exactly between its pop and its return.
HandInv == qEvent # NoEvent <=> pollPc \in {"reset", "copy"}

\* evReceive is never left set on an empty queue, except in the critical
\* section that is about to reset it; nor is it set on an empty queue.
SignalInv ==
  /\ evReceive => queue # <<>> \/ pollPc \in {"reset", "freed"}
  /\ \A p \in Pushers : pc[p] = "post" => queue # <<>>

\* A poller past its wait has a reason to go on.
ReadyInv ==
  /\ pollPc = "test" => canceled \/ queue # <<>>
  /\ pollPc \in {"lock", "pop"} => queue # <<>>

Inv ==
  /\ TypeOK
  /\ MutexInv
  /\ HandInv
  /\ SignalInv
  /\ ReadyInv
  /\ EndsOnlyCanceled
  /\ NoLostWakeup

-----------------------------------------------------------------------------
(***************************************************************************)
(* Two facts about sequences.                                              *)
(***************************************************************************)

\* A nonempty sequence is its head followed by its tail.
LEMMA HeadThenTail ==
  ASSUME NEW S, NEW s \in Seq(S), s # <<>>
  PROVE  s = <<Head(s)>> \o Tail(s)
<1>1. /\ Head(s) \in S
      /\ Tail(s) \in Seq(S)
      /\ Len(Tail(s)) = Len(s) - 1
      /\ \A i \in 1 .. Len(Tail(s)) : Tail(s)[i] = s[i+1]
  BY HeadTailProperties
<1>2. <<Head(s)>> \in Seq(S) /\ Len(<<Head(s)>>) = 1 /\ <<Head(s)>>[1] = Head(s)
  BY <1>1
<1> DEFINE t == <<Head(s)>> \o Tail(s)
<1>3. /\ t \in Seq(S)
      /\ Len(t) = 1 + Len(Tail(s))
      /\ \A i \in 1 .. 1 + Len(Tail(s)) :
            t[i] = IF i <= 1 THEN <<Head(s)>>[i] ELSE Tail(s)[i - 1]
  BY <1>1, <1>2, ConcatProperties
<1>4. Len(s) \in Nat /\ Head(s) = s[1]
  BY LenProperties
<1>5. Len(s) = Len(t)
  BY <1>1, <1>3, <1>4
<1>6. ASSUME NEW i \in 1 .. Len(s)
      PROVE  s[i] = t[i]
  <2>1. CASE i = 1
    BY <2>1, <1>2, <1>3, <1>4, <1>5
  <2>2. CASE i # 1
    <3>1. i - 1 \in 1 .. Len(Tail(s)) /\ i \in 1 .. 1 + Len(Tail(s)) /\ ~ (i <= 1)
      BY <2>2, <1>1, <1>4
    <3> QED
      BY <3>1, <1>1, <1>3, <1>4
  <2> QED
    BY <2>1, <2>2
<1> HIDE DEF t
<1>7. s = t
  BY <1>3, <1>5, <1>6, SeqEqual
<1> QED
  BY <1>7 DEF t

\* Appending to the last part of a concatenation appends to the whole.
LEMMA AppendToLast ==
  ASSUME NEW S, NEW s \in Seq(S), NEW t \in Seq(S), NEW e \in S
  PROVE  s \o Append(t, e) = Append(s \o t, e)
<1>1. Append(t, e) = t \o <<e>> /\ <<e>> \in Seq(S)
  BY AppendIsConcat
<1>2. s \o t \in Seq(S)
  BY ConcatProperties
<1>3. Append(s \o t, e) = (s \o t) \o <<e>>
  BY <1>2, AppendIsConcat
<1> QED
  BY <1>1, <1>3, ConcatAssociative

-----------------------------------------------------------------------------
(***************************************************************************)
(* The inductive invariant.                                                *)
(***************************************************************************)
LEMMA InitInv == Init => Inv
<1> SUFFICES ASSUME Init PROVE Inv
  OBVIOUS
<1>1. TypeOK
  <2>1. <<>> \in Seq(Event)
    BY EmptySeq
  <2>2. pc \in [Pushers -> PusherPcs] /\ event \in [Pushers -> Event]
    BY EventsDistinct DEF Init, PusherPcs
  <2> QED
    BY <2>1, <2>2 DEF Init, TypeOK, PollPcs
<1>2. MutexInv
  BY ThreadsDistinct DEF Init, MutexInv, Pushers
<1>3. HandInv /\ SignalInv /\ ReadyInv /\ EndsOnlyCanceled /\ NoLostWakeup
  BY DEF Init, HandInv, SignalInv, ReadyInv, EndsOnlyCanceled, NoLostWakeup
<1> QED
  BY <1>1, <1>2, <1>3 DEF Inv

\* A worker's steps outside the critical section.
LEMMA WorkerStep ==
  ASSUME Inv, NEW w \in Workers,
         (\E e \in Event : BeginPush(w, e)) \/ WorkerEnd(w)
  PROVE  Inv'
<1> USE DEF Inv, TypeOK, MutexInv, HandInv, SignalInv, ReadyInv,
            EndsOnlyCanceled, NoLostWakeup, PusherPcs, PollPcs, Pushers
<1>1. CASE WorkerEnd(w)
  BY <1>1 DEF WorkerEnd
<1>2. ASSUME NEW e \in Event, BeginPush(w, e)
      PROVE  Inv'
  BY <1>2 DEF BeginPush
<1> QED
  BY <1>1, <1>2

LEMMA PushStep ==
  ASSUME Inv, NEW p \in Pushers, Push(p)
  PROVE  Inv'
<1> USE ThreadsDistinct DEF Inv, TypeOK, MutexInv, HandInv, SignalInv,
            ReadyInv, EndsOnlyCanceled, NoLostWakeup, PusherPcs, PollPcs
<1>1. CASE PushLock(p)
  BY <1>1 DEF PushLock
<1>2. CASE PushQueue(p)
  <2>1. /\ Append(queue, event[p]) \in Seq(Event)
        /\ Append(queue, event[p]) # <<>>
        /\ Append(sent, event[p]) \in Seq(Event)
    BY AppendProperties
  <2> QED
    BY <1>2, <2>1 DEF PushQueue
<1>3. CASE PushPost(p)
  BY <1>3 DEF PushPost
<1> QED
  BY <1>1, <1>2, <1>3 DEF Push

LEMMA CancelStep ==
  ASSUME Inv, Cancel
  PROVE  Inv'
<1> USE ThreadsDistinct, EventsDistinct
        DEF Inv, TypeOK, MutexInv, HandInv, SignalInv, ReadyInv,
            EndsOnlyCanceled, NoLostWakeup, PusherPcs, PollPcs, Pushers
<1>1. CASE CancelRequest
  BY <1>1 DEF CancelRequest
<1>2. CASE CancelDisconnect
  BY <1>2 DEF CancelDisconnect
<1>3. CASE CancelSignal
  BY <1>3 DEF CancelSignal
<1> QED
  BY <1>1, <1>2, <1>3 DEF Cancel

LEMMA PollStep ==
  ASSUME Inv, Poll \/ PollFree
  PROVE  Inv'
<1> USE ThreadsDistinct, EventsDistinct
        DEF Inv, TypeOK, MutexInv, HandInv, SignalInv, ReadyInv,
            EndsOnlyCanceled, NoLostWakeup, PusherPcs, PollPcs
<1>1. CASE PollCheck
  BY <1>1 DEF PollCheck
<1>2. CASE PollWait
  BY <1>2 DEF PollWait
<1>3. CASE PollTest
  BY <1>3 DEF PollTest
<1>4. CASE PollLock
  BY <1>4 DEF PollLock
<1>5. CASE PollPop
  <2>1. queue # <<>> /\ Head(queue) \in Event /\ Tail(queue) \in Seq(Event)
    BY <1>5, HeadTailProperties DEF PollPop
  <2>2. \A p \in Pushers : pc[p] \notin {"push", "post"}
    BY <1>5 DEF PollPop
  <2> QED
    BY <1>5, <2>1, <2>2 DEF PollPop
<1>6. CASE PollReset
  BY <1>6 DEF PollReset
<1>7. CASE PollReturn
  <2>1. qEvent \in Event /\ Append(delivered, qEvent) \in Seq(Event)
    BY <1>7, AppendProperties DEF PollReturn
  <2> QED
    BY <1>7, <2>1 DEF PollReturn
<1>8. CASE PollFree
  BY <1>8, EmptySeq DEF PollFree
<1> QED
  BY <1>1, <1>2, <1>3, <1>4, <1>5, <1>6, <1>7, <1>8 DEF Poll

LEMMA InvPreserved == Inv /\ [Next]_vars => Inv'
<1> SUFFICES ASSUME Inv, [Next]_vars PROVE Inv'
  OBVIOUS
<1>1. CASE UNCHANGED vars
  BY <1>1 DEF vars, Inv, TypeOK, MutexInv, HandInv, SignalInv, ReadyInv,
              EndsOnlyCanceled, NoLostWakeup
<1>2. CASE Next
  BY <1>2, WorkerStep, PushStep, CancelStep, PollStep DEF Next
<1> QED
  BY <1>1, <1>2

THEOREM InvHolds == SafeSpec => []Inv
<1> QED
  BY InitInv, InvPreserved, PTL DEF SafeSpec

\* Every variable of the event queue keeps its type.
THEOREM TypeCorrect == SafeSpec => []TypeOK
<1>1. Inv => TypeOK
  BY DEF Inv
<1> QED
  BY <1>1, InvHolds, PTL

\* IcBox_pollEvent never copies from NULL, whoever pushes and cancels.
THEOREM PopAlwaysFindsEvent == SafeSpec => []PopFindsEvent
<1>1. Inv => PopFindsEvent
  BY DEF Inv, HandInv, PopFindsEvent
<1> QED
  BY <1>1, InvHolds, PTL

\* A waiting poller always has a signal coming for a queued event.
THEOREM WakeupNeverLost == SafeSpec => []NoLostWakeup
<1>1. Inv => NoLostWakeup
  BY DEF Inv
<1> QED
  BY <1>1, InvHolds, PTL

-----------------------------------------------------------------------------
(***************************************************************************)
(* Nothing is lost, duplicated or reordered.                               *)
(***************************************************************************)

\* The steps that touch neither the queue nor the histories.
Untouched == UNCHANGED <<queue, qEvent, sent, delivered>>

LEMMA OtherSteps ==
  ASSUME Next
  PROVE  \/ Untouched /\ (pollPc' = "freed" => pollPc = "freed")
         \/ \E p \in Pushers : PushQueue(p)
         \/ PollPop
         \/ PollReturn
         \/ PollFree
<1> USE DEF Untouched
<1>1. ASSUME NEW w \in Workers,
             (\E e \in Event : BeginPush(w, e)) \/ WorkerEnd(w)
      PROVE  Untouched /\ (pollPc' = "freed" => pollPc = "freed")
  BY <1>1 DEF BeginPush, WorkerEnd
<1>2. ASSUME NEW p \in Pushers, PushLock(p) \/ PushPost(p)
      PROVE  Untouched /\ (pollPc' = "freed" => pollPc = "freed")
  BY <1>2 DEF PushLock, PushPost
<1>3. ASSUME Cancel
      PROVE  Untouched /\ (pollPc' = "freed" => pollPc = "freed")
  BY <1>3 DEF Cancel, CancelRequest, CancelDisconnect, CancelSignal
<1>4. ASSUME PollCheck \/ PollWait \/ PollTest \/ PollLock \/ PollReset
      PROVE  Untouched /\ (pollPc' = "freed" => pollPc = "freed")
  BY <1>4 DEF PollCheck, PollWait, PollTest, PollLock, PollReset
<1> QED
  BY <1>1, <1>2, <1>3, <1>4 DEF Next, Push, Poll

LEMMA NothingLostPreserved ==
  ASSUME Inv, Inv', NothingLost, [Next]_vars
  PROVE  NothingLost'
<1> SUFFICES ASSUME pollPc' # "freed"
             PROVE  (delivered \o InHand \o queue = sent)'
  BY DEF NothingLost
<1> USE DEF Inv, TypeOK
<1>1. InHand \in Seq(Event) /\ delivered \o InHand \in Seq(Event)
  <2>1. InHand \in Seq(Event)
    BY EmptySeq DEF InHand
  <2> QED
    BY <2>1, ConcatProperties
<1>2. CASE (Untouched /\ (pollPc' = "freed" => pollPc = "freed"))
             \/ UNCHANGED vars
  <2>1. pollPc # "freed" \/ UNCHANGED vars
    <3>1. CASE UNCHANGED vars
      BY <3>1
    <3>2. CASE Next
      BY <3>2 DEF Next
    <3> QED
      BY <3>1, <3>2
  <2>2. pollPc # "freed"
    BY <2>1 DEF vars
  <2> QED
    BY <1>2, <2>2 DEF NothingLost, InHand, Untouched, vars
<1>3. ASSUME NEW p \in Pushers, PushQueue(p), pollPc # "freed"
      PROVE  (delivered \o InHand \o queue = sent)'
  <2>1. (delivered \o InHand) \o Append(queue, event[p])
          = Append((delivered \o InHand) \o queue, event[p])
    BY <1>1, AppendToLast
  <2>2. InHand' = InHand
    BY <1>3 DEF PushQueue, InHand
  <2> QED
    BY <1>3, <2>1, <2>2 DEF PushQueue, NothingLost
<1>4. ASSUME PollPop
      PROVE  (delivered \o InHand \o queue = sent)'
  <2>1. queue # <<>> /\ InHand = <<>> /\ pollPc # "freed"
    BY <1>4 DEF PollPop, ReadyInv, HandInv, InHand
  <2>2. /\ qEvent' = Head(queue)
        /\ queue' = Tail(queue)
        /\ Head(queue) \in Event
        /\ Tail(queue) \in Seq(Event)
        /\ UNCHANGED <<delivered, sent>>
    BY <1>4, <2>1, HeadTailProperties DEF PollPop
  <2>3. InHand' = <<Head(queue)>>
    BY <2>2, EventsDistinct DEF InHand
  <2>4. <<Head(queue)>> \in Seq(Event)
    BY <2>2
  <2>5. (delivered \o <<Head(queue)>>) \o Tail(queue)
          = delivered \o (<<Head(queue)>> \o Tail(queue))
    BY <2>2, <2>4, ConcatAssociative
  <2>6. <<Head(queue)>> \o Tail(queue) = queue
    BY <2>1, HeadThenTail
  <2>7. delivered \o <<>> = delivered
    BY ConcatEmptySeq
  <2>8. delivered \o queue = sent
    BY <2>1, <2>7 DEF NothingLost
  <2> QED
    BY <2>2, <2>3, <2>5, <2>6, <2>8
<1>5. ASSUME PollReturn
      PROVE  (delivered \o InHand \o queue = sent)'
  <2>1. /\ qEvent \in Event
        /\ pollPc # "freed"
        /\ InHand = <<qEvent>>
        /\ InHand' = <<>>
        /\ delivered' = Append(delivered, qEvent)
        /\ UNCHANGED <<queue, sent>>
    BY <1>5 DEF PollReturn, InHand
  <2>2. Append(delivered, qEvent) = delivered \o <<qEvent>>
    BY <2>1, AppendIsConcat
  <2>3. Append(delivered, qEvent) \o <<>> = Append(delivered, qEvent)
    BY <2>1, AppendProperties, ConcatEmptySeq
  <2> QED
    BY <2>1, <2>2, <2>3 DEF NothingLost
<1>6. CASE PollFree
  BY <1>6 DEF PollFree
<1> QED
  BY <1>2, <1>3, <1>4, <1>5, <1>6, OtherSteps DEF Next

\* What was delivered, is held and is queued is what was pushed, in order.
THEOREM NothingIsLost == SafeSpec => []NothingLost
<1>1. Init => NothingLost
  <2> SUFFICES ASSUME Init PROVE delivered \o InHand \o queue = sent
    BY DEF NothingLost
  <2>1. delivered = <<>> /\ InHand = <<>> /\ queue = <<>> /\ sent = <<>>
    BY DEF Init, InHand
  <2>2. <<>> \in Seq(Event)
    BY EmptySeq
  <2>3. <<>> \o <<>> = <<>>
    BY <2>2, ConcatEmptySeq
  <2> QED
    BY <2>1, <2>3
<1>2. Inv /\ Inv' /\ NothingLost /\ [Next]_vars => NothingLost'
  BY NothingLostPreserved
<1> QED
  BY <1>1, <1>2, InvHolds, PTL DEF SafeSpec

-----------------------------------------------------------------------------
(***************************************************************************)
(* EventQueue implements EventChannel.                                     *)
(***************************************************************************)

\* The event about to be returned is the next one of the abstract stream.
LEMMA HeldIsNext ==
  ASSUME Inv, NothingLost, pollPc = "copy"
  PROVE  /\ Len(delivered) < Len(sent)
         /\ sent[Len(delivered) + 1] = qEvent
<1> USE DEF Inv, TypeOK
<1>1. qEvent \in Event /\ InHand = <<qEvent>>
  BY DEF HandInv, InHand
<1>2. <<qEvent>> \in Seq(Event) /\ Len(<<qEvent>>) = 1 /\ <<qEvent>>[1] = qEvent
  BY <1>1
<1> DEFINE front == delivered \o <<qEvent>>
<1>3. /\ front \in Seq(Event)
      /\ Len(front) = Len(delivered) + 1
      /\ \A i \in 1 .. Len(delivered) + 1 :
           front[i] = IF i <= Len(delivered) THEN delivered[i]
                      ELSE <<qEvent>>[i - Len(delivered)]
  BY <1>2, ConcatProperties
<1>4. Len(delivered) \in Nat /\ Len(queue) \in Nat
  BY LenProperties
<1>5. front[Len(delivered) + 1] = qEvent
  <2>1. Len(delivered) + 1 \in 1 .. Len(delivered) + 1
    BY <1>4
  <2>2. ~ (Len(delivered) + 1 <= Len(delivered))
        /\ (Len(delivered) + 1) - Len(delivered) = 1
    BY <1>4
  <2> HIDE DEF front
  <2> QED
    BY <2>1, <2>2, <1>2, <1>3
<1>6. front \o queue = sent
  BY <1>1 DEF NothingLost
<1> HIDE DEF front
<1>7. /\ Len(front \o queue) = Len(front) + Len(queue)
      /\ \A i \in 1 .. Len(front) + Len(queue) :
           (front \o queue)[i] = IF i <= Len(front) THEN front[i]
                                 ELSE queue[i - Len(front)]
  <2>1. front \in Seq(Event) /\ queue \in Seq(Event)
    BY <1>3
  <2> QED
    BY ONLY <2>1, ConcatProperties
<1>8. Len(sent) = Len(delivered) + 1 + Len(queue)
  BY <1>3, <1>6, <1>7
<1>9. sent[Len(delivered) + 1] = front[Len(delivered) + 1]
  BY <1>3, <1>4, <1>6, <1>7
<1> QED
  BY <1>4, <1>5, <1>8, <1>9

LEMMA ChannelStep ==
  ASSUME Inv, NothingLost, [Next]_vars
  PROVE  [Channel!Next]_Channel!vars
<1> USE DEF Channel!vars
<1>1. CASE UNCHANGED vars
  BY <1>1 DEF vars
<1>2. ASSUME NEW w \in Workers,
             (\E e \in Event : BeginPush(w, e)) \/ WorkerEnd(w)
      PROVE  UNCHANGED Channel!vars
  BY <1>2 DEF BeginPush, WorkerEnd
<1>3. ASSUME NEW p \in Pushers, PushLock(p) \/ PushPost(p)
      PROVE  UNCHANGED Channel!vars
  BY <1>3 DEF PushLock, PushPost
<1>4. ASSUME NEW p \in Pushers, PushQueue(p)
      PROVE  \E e \in Event : Channel!Send(e)
  <2>1. event[p] \in Event
    BY DEF Inv, TypeOK
  <2>2. Channel!Send(event[p])
    BY <1>4 DEF PushQueue, Channel!Send
  <2> QED
    BY <2>1, <2>2
<1>5. ASSUME CancelRequest
      PROVE  Channel!Cancel
  BY <1>5 DEF CancelRequest, Channel!Cancel
<1>6. ASSUME CancelDisconnect \/ CancelSignal
      PROVE  UNCHANGED Channel!vars
  BY <1>6 DEF CancelDisconnect, CancelSignal
<1>7. ASSUME PollCheck \/ PollWait \/ PollLock \/ PollPop \/ PollReset \/ PollFree
      PROVE  UNCHANGED Channel!vars
  BY <1>7 DEF PollCheck, PollWait, PollLock, PollPop, PollReset, PollFree
<1>8. ASSUME PollTest
      PROVE  Channel!End \/ UNCHANGED Channel!vars
  BY <1>8 DEF PollTest, Channel!End
<1>9. ASSUME PollReturn
      PROVE  Channel!Deliver
  BY <1>9, HeldIsNext DEF PollReturn, Channel!Deliver
<1> QED
  BY <1>1, <1>2, <1>3, <1>4, <1>5, <1>6, <1>7, <1>8, <1>9
     DEF Next, Push, Cancel, Poll, Channel!Next

\* The queue, its signals and its lock implement the abstract stream of
\* events: received once, in order, and ended only by a cancel.
THEOREM QueueImplementsChannel == SafeSpec => Channel!SafeSpec
<1>1. Init => Channel!Init
  BY DEF Init, Channel!Init
<1>2. Inv /\ NothingLost /\ [Next]_vars => [Channel!Next]_Channel!vars
  BY ChannelStep
<1> QED
  BY <1>1, <1>2, InvHolds, NothingIsLost, PTL DEF SafeSpec, Channel!SafeSpec

=============================================================================
