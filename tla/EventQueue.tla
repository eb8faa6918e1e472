----------------------------- MODULE EventQueue -----------------------------
(***************************************************************************)
(* How events reach the application: _IcBox_pushEvent on the library's     *)
(* threads, IcBox_pollEvent on the thread that receives, IcBox_cancel on   *)
(* another one (src/win/main.c: the main thread polls and then frees, the  *)
(* input thread cancels) and the tail of IcBox_free.  They share           *)
(* lib->queue, the events evReceive (auto-reset) and evCancel              *)
(* (manual-reset), the flag canceled and writeMutex.  _IcBox_disconnect,   *)
(* which touches none of these but the mutex, is one step here and is      *)
(* taken apart in module Connection.                                       *)
(***************************************************************************)
EXTENDS Naturals, Sequences

CONSTANTS
  Workers,        \* the threads of the library that push events
  Canceler,       \* the application thread that calls IcBox_cancel
  Event,          \* the events that are told apart
  Disconnected,   \* ICBOX_EVENT_DISCONNECTED
  NoEvent,        \* NULL, as returned by Queue_pop on an empty queue
  Nobody,         \* the owner of an unlocked mutex
  Poller,         \* the application thread that polls, as owner of the mutex
  MaxEvents       \* bound: workers begin no push once this many were sent

Pushers == Workers \union {Canceler}

ASSUME ThreadsDistinct ==
  /\ Canceler \notin Workers
  /\ Poller \notin Pushers
  /\ Nobody \notin Pushers \union {Poller}
ASSUME EventsDistinct == Disconnected \in Event /\ NoEvent \notin Event
ASSUME MaxEventsNat == MaxEvents \in Nat

VARIABLES
  queue,       \* lib->queue, first to last
  evReceive,   \* the signal of lib->evReceive
  evCancel,    \* the signal of lib->evCancel
  canceled,    \* lib->canceled
  writeMutex,  \* the owner of lib->writeMutex
  pc,          \* where each pusher is
  event,       \* the event each pusher has allocated
  pollPc,      \* where the poller is
  qEvent,      \* what the poller has popped
  sent,        \* history: every event pushed
  delivered    \* history: every event IcBox_pollEvent returned

vars == <<queue, evReceive, evCancel, canceled, writeMutex, pc, event, pollPc,
          qEvent, sent, delivered>>

-----------------------------------------------------------------------------
Init ==
  /\ queue = <<>>
  /\ evReceive = FALSE
  /\ evCancel = FALSE
  /\ canceled = FALSE
  /\ writeMutex = Nobody
  /\ pc = [p \in Pushers |-> "idle"]
  /\ event = [p \in Pushers |-> Disconnected]
  /\ pollPc = "check"
  /\ qEvent = NoEvent
  /\ sent = <<>>
  /\ delivered = <<>>

-----------------------------------------------------------------------------
(***************************************************************************)
(* _IcBox_pushEvent.                                                       *)
(***************************************************************************)

\* A worker allocates an event to push.  DISCONNECTED is pushed by
\* _IcBox_cancel, which first posts evCancel if the instance is canceled.
BeginPush(w, e) ==
  /\ pc[w] = "idle"
  /\ Len(sent) < MaxEvents
  /\ event' = [event EXCEPT ![w] = e]
  /\ evCancel' = (evCancel \/ (e = Disconnected /\ canceled))
  /\ pc' = [pc EXCEPT ![w] = "lock"]
  /\ UNCHANGED <<queue, evReceive, canceled, writeMutex, pollPc, qEvent, sent,
                 delivered>>

PushLock(p) ==
  /\ pc[p] = "lock"
  /\ writeMutex = Nobody
  /\ writeMutex' = p
  /\ pc' = [pc EXCEPT ![p] = "push"]
  /\ UNCHANGED <<queue, evReceive, evCancel, canceled, event, pollPc, qEvent,
                 sent, delivered>>

\* Mutant: the last event pushed is the first one popped.
PushQueueFirst(p) ==
  /\ pc[p] = "push"
  /\ queue' = <<event[p]>> \o queue
  /\ sent' = Append(sent, event[p])
  /\ pc' = [pc EXCEPT ![p] = "post"]
  /\ UNCHANGED <<evReceive, evCancel, canceled, writeMutex, event, pollPc,
                 qEvent, delivered>>

PushQueue(p) ==
  /\ pc[p] = "push"
  /\ queue' = Append(queue, event[p])
  /\ sent' = Append(sent, event[p])
  /\ pc' = [pc EXCEPT ![p] = "post"]
  /\ UNCHANGED <<evReceive, evCancel, canceled, writeMutex, event, pollPc,
                 qEvent, delivered>>

\* Mutant: the event is queued and nobody is told.
PushPostForgotten(p) ==
  /\ pc[p] = "post"
  /\ writeMutex' = Nobody
  /\ pc' = [pc EXCEPT ![p] = IF p = Canceler THEN "off" ELSE "idle"]
  /\ UNCHANGED <<queue, evReceive, evCancel, canceled, event, pollPc, qEvent,
                 sent, delivered>>

PushPost(p) ==
  /\ pc[p] = "post"
  /\ evReceive' = TRUE
  /\ writeMutex' = Nobody
  /\ pc' = [pc EXCEPT ![p] = IF p = Canceler THEN "off" ELSE "idle"]
  /\ UNCHANGED <<queue, evCancel, canceled, event, pollPc, qEvent, sent,
                 delivered>>

\* A worker ends: every thread function leaves its loop once canceled is set.
WorkerEnd(w) ==
  /\ pc[w] = "idle"
  /\ canceled
  /\ pc' = [pc EXCEPT ![w] = "off"]
  /\ UNCHANGED <<queue, evReceive, evCancel, canceled, writeMutex, event,
                 pollPc, qEvent, sent, delivered>>

-----------------------------------------------------------------------------
(***************************************************************************)
(* IcBox_cancel on the application's other thread.                         *)
(***************************************************************************)
CancelRequest ==
  /\ pc[Canceler] = "idle"
  /\ canceled' = TRUE
  /\ pc' = [pc EXCEPT ![Canceler] = "disconnect"]
  /\ UNCHANGED <<queue, evReceive, evCancel, writeMutex, event, pollPc, qEvent,
                 sent, delivered>>

CancelDisconnect ==
  /\ pc[Canceler] = "disconnect"
  /\ writeMutex = Nobody
  /\ pc' = [pc EXCEPT ![Canceler] = "signal"]
  /\ UNCHANGED <<queue, evReceive, evCancel, canceled, writeMutex, event,
                 pollPc, qEvent, sent, delivered>>

\* Mutant: NULL is pushed in place of an event that says DISCONNECTED.
CancelSignalNull ==
  /\ pc[Canceler] = "signal"
  /\ evCancel' = (evCancel \/ canceled)
  /\ event' = [event EXCEPT ![Canceler] = NoEvent]
  /\ pc' = [pc EXCEPT ![Canceler] = "lock"]
  /\ UNCHANGED <<queue, evReceive, canceled, writeMutex, pollPc, qEvent, sent,
                 delivered>>

CancelSignal ==
  /\ pc[Canceler] = "signal"
  /\ evCancel' = (evCancel \/ canceled)
  /\ event' = [event EXCEPT ![Canceler] = Disconnected]
  /\ pc' = [pc EXCEPT ![Canceler] = "lock"]
  /\ UNCHANGED <<queue, evReceive, canceled, writeMutex, pollPc, qEvent, sent,
                 delivered>>

-----------------------------------------------------------------------------
(***************************************************************************)
(* IcBox_pollEvent in the loop every program of the repository runs:       *)
(* while(IcBox_pollEvent(lib, &event)) ...; IcBox_free(lib).               *)
(***************************************************************************)

\* Queue_empty is read without the mutex.
PollCheck ==
  /\ pollPc = "check"
  /\ pollPc' = IF queue = <<>> THEN "wait" ELSE "test"
  /\ UNCHANGED <<queue, evReceive, evCancel, canceled, writeMutex, pc, event,
                 qEvent, sent, delivered>>

\* WaitForMultipleObjects takes the first signaled object: evCancel comes
\* first and stays signaled, evReceive is reset by the wait it satisfies.
PollWait ==
  /\ pollPc = "wait"
  /\ evCancel \/ evReceive
  /\ evReceive' = (evReceive /\ evCancel)
  /\ pollPc' = "test"
  /\ UNCHANGED <<queue, evCancel, canceled, writeMutex, pc, event, qEvent, sent,
                 delivered>>

\* Mutant: only the object the wait returned is looked at, and the code never
\* assigns it.
PollTestIgnoresFlag ==
  /\ pollPc = "test"
  /\ pollPc' = "lock"
  /\ UNCHANGED <<queue, evReceive, evCancel, canceled, writeMutex, pc, event,
                 qEvent, sent, delivered>>

\* The variable object stays NULL, so canceled alone decides.
PollTest ==
  /\ pollPc = "test"
  /\ pollPc' = IF canceled THEN "ended" ELSE "lock"
  /\ UNCHANGED <<queue, evReceive, evCancel, canceled, writeMutex, pc, event,
                 qEvent, sent, delivered>>

PollLock ==
  /\ pollPc = "lock"
  /\ writeMutex = Nobody
  /\ writeMutex' = Poller
  /\ pollPc' = "pop"
  /\ UNCHANGED <<queue, evReceive, evCancel, canceled, pc, event, qEvent, sent,
                 delivered>>

\* Mutant: the event is looked at and stays in the queue (Queue_front).
PollPopFront ==
  /\ pollPc = "pop"
  /\ qEvent' = IF queue = <<>> THEN NoEvent ELSE Head(queue)
  /\ pollPc' = "reset"
  /\ UNCHANGED <<queue, evReceive, evCancel, canceled, writeMutex, pc, event,
                 sent, delivered>>

PollPop ==
  /\ pollPc = "pop"
  /\ IF queue = <<>>
       THEN qEvent' = NoEvent /\ UNCHANGED queue
       ELSE qEvent' = Head(queue) /\ queue' = Tail(queue)
  /\ pollPc' = "reset"
  /\ UNCHANGED <<evReceive, evCancel, canceled, writeMutex, pc, event, sent,
                 delivered>>

\* Mutant: evReceive keeps the signal of an event that needed no wait.
PollResetForgotten ==
  /\ pollPc = "reset"
  /\ writeMutex' = Nobody
  /\ pollPc' = "copy"
  /\ UNCHANGED <<queue, evReceive, evCancel, canceled, pc, event, qEvent, sent,
                 delivered>>

PollReset ==
  /\ pollPc = "reset"
  /\ evReceive' = FALSE
  /\ writeMutex' = Nobody
  /\ pollPc' = "copy"
  /\ UNCHANGED <<queue, evCancel, canceled, pc, event, qEvent, sent, delivered>>

\* memcpy from the popped event: with NULL the program ends here.
PollReturn ==
  /\ pollPc = "copy"
  /\ qEvent # NoEvent
  /\ delivered' = Append(delivered, qEvent)
  /\ qEvent' = NoEvent
  /\ pollPc' = "check"
  /\ UNCHANGED <<queue, evReceive, evCancel, canceled, writeMutex, pc, event,
                 sent>>

\* IcBox_free after pollEvent returned 0: IcBox_cancel returns at once since
\* canceled is set; the workers are joined, the queue is drained under the
\* mutex and the instance is gone.
PollFree ==
  /\ pollPc = "ended"
  /\ \A w \in Workers : pc[w] = "off"
  /\ writeMutex = Nobody
  /\ queue' = <<>>
  /\ pollPc' = "freed"
  /\ UNCHANGED <<evReceive, evCancel, canceled, writeMutex, pc, event, qEvent,
                 sent, delivered>>

-----------------------------------------------------------------------------
Push(p) == PushLock(p) \/ PushQueue(p) \/ PushPost(p)

Cancel == CancelRequest \/ CancelDisconnect \/ CancelSignal

Poll == PollCheck \/ PollWait \/ PollTest \/ PollLock \/ PollPop \/ PollReset
          \/ PollReturn

\* Nothing an instance does after it was freed is defined.
Next ==
  /\ pollPc # "freed"
  /\ \/ \E w \in Workers : (\E e \in Event : BeginPush(w, e)) \/ WorkerEnd(w)
     \/ \E p \in Pushers : Push(p)
     \/ Cancel
     \/ Poll
     \/ PollFree

\* The scheduler runs every thread that can run, and none is kept out of
\* writeMutex forever; nobody has to push an event or to cancel.
Fairness ==
  /\ \A p \in Pushers : WF_vars(PushQueue(p) \/ PushPost(p)) /\ SF_vars(PushLock(p))
  /\ WF_vars(CancelDisconnect \/ CancelSignal)
  /\ WF_vars(PollCheck \/ PollWait \/ PollTest \/ PollPop \/ PollReset \/ PollReturn)
  /\ SF_vars(PollLock)

SafeSpec == Init /\ [][Next]_vars

Spec == SafeSpec /\ Fairness

-----------------------------------------------------------------------------
PusherPcs == {"idle", "disconnect", "signal", "lock", "push", "post", "off"}

PollPcs == {"check", "wait", "test", "lock", "pop", "reset", "copy", "ended",
            "freed"}

\* Every variable has its type.
TypeOK ==
  /\ queue \in Seq(Event)
  /\ evReceive \in BOOLEAN
  /\ evCancel \in BOOLEAN
  /\ canceled \in BOOLEAN
  /\ writeMutex \in Pushers \union {Poller, Nobody}
  /\ pc \in [Pushers -> PusherPcs]
  /\ event \in [Pushers -> Event]
  /\ pollPc \in PollPcs
  /\ qEvent \in Event \union {NoEvent}
  /\ sent \in Seq(Event)
  /\ delivered \in Seq(Event)

\* IcBox_pollEvent never copies from the NULL that Queue_pop returns for an
\* empty queue, although it tests the queue and pops it in different critical
\* sections and wakes up on signals that may be older than the test.
PopFindsEvent == pollPc \in {"reset", "copy"} => qEvent # NoEvent

\* While IcBox_pollEvent waits, an event in the queue is always announced: its
\* signal is set or the thread that queued it is about to set it.
NoLostWakeup ==
  pollPc = "wait" /\ queue # <<>> =>
    evReceive \/ \E p \in Pushers : pc[p] = "post"

\* IcBox_pollEvent returns 0, and wakes on evCancel, only after a cancel.
EndsOnlyCanceled == evCancel \/ pollPc \in {"ended", "freed"} => canceled

\* What the application has received, holds, and will find in the queue is
\* exactly what was pushed, in the order of the pushes; only IcBox_free drops
\* events.
InHand == IF qEvent = NoEvent THEN <<>> ELSE <<qEvent>>
NothingLost == pollPc # "freed" => delivered \o InHand \o queue = sent

\* The queue and its signals implement the abstract stream of events.
Channel == INSTANCE EventChannel WITH ended <- pollPc \in {"ended", "freed"}
ImplementsChannel == Channel!Spec

\* A cancel ends the polling, whatever the poller was doing (IcBox.h: "Cancel
\* a poll event waiting call").
CancelEndsPolling == canceled ~> pollPc \in {"ended", "freed"}

\* Every event pushed is delivered unless the instance is canceled.
AllDelivered == <>[](Len(delivered) = Len(sent)) \/ <>canceled

\* Nobody is inside the library when the instance is freed: IcBox_free joins
\* the library's threads, and the application frees when told that the
\* instance is canceled (IcBox.h: "0 when instance is freed or canceled").
FreedUnused == pollPc = "freed" => pc[Canceler] \in {"idle", "off"}

=============================================================================
