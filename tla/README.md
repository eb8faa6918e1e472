# A verification development for IcBox

IcBox is a C library (`src/src`) that looks for an IcBox caller-id device on
the serial ports of a Windows machine, keeps a connection to it and hands the
calls it reports to the application as events.  This directory has TLA+ models
of the library, TLC configurations that check them on small instances, and
theorems about them that TLAPS has checked for all instances.

Contents: 1 the system, 2 modules and code, 3 what the runs check,
4 bounds and assumptions, 5 what is proved, 6 disagreements found,
7 what is not modelled, 8 plan, 9 how to run it.

## 1. The system

    application threads            threads of the library
    -------------------            ----------------------
    IcBox_pollEvent <--- queue <-- _IcBox_pushEvent <--- thConnect (search)
    IcBox_setConfiguration --+                      <--- thReceive (read, parse)
    IcBox_cancel, IcBox_free-+-> _IcBox_disconnect  <--- thAlive (echo test)
                                                    \
                                              lib->comm (serial port) <-> device

| Component | State | Operations | Interacts with |
|---|---|---|---|
| Event queue (`IcBox.c`, `Queue.c`) | `queue`, `evReceive`, `evCancel`, `canceled` | `_IcBox_pushEvent`, `IcBox_pollEvent`, `IcBox_cancel`, drain in `IcBox_free` | every thread pushes, one application thread polls, another may cancel |
| Search, `thConnect` | `comm`, list of ports, entry, rate, `tried` | `_IcBox_connectFunc`, `_IcBox_echoTest`, `_IcBox_disconnect` | starts `thReceive`, waits on `evDetected` |
| Reader, `thReceive` | the port it reads, the byte window | `_IcBox_receiveFunc`, `_IcBox_dataReceived`, `_IcBox_execute` | posts `evDetected`, starts `thAlive`, pushes call events |
| Alive test, `thAlive` | `testing`, `old_testing` | `_IcBox_aliveTest`, `_IcBox_reconnect` | disconnects, pushes DISCONNECTED, restarts `thConnect` |
| Application calls | configuration, `canceled` | `IcBox_create`, `IcBox_setConfiguration`, `IcBox_getConfiguration`, `IcBox_cancel`, `IcBox_free` | disconnects and restarts from a fourth thread, joins the three others |
| Threads, events, mutexes (`win/`) | `hThread`, signals, owner | `Thread_start/join/free`, `Event_*`, `Mutex_*` | used by all of the above |
| Serial port (`CommPort.c`) | handle, cancel event, settings, operations under way | create, configure, enum, read, write, cancel, free | used by the three threads |
| Configuration (`IcBox.c`) | port, rate and seven other settings | `IcBox_setConfiguration`, `_IcBox_getProperty`, `IcBox_getConfiguration` | application; the search stores the port and the rate it found |
| String builder (`StringBuilder.c`) | buffers, collected text | append, format, get, clear | `IcBox_getConfiguration` only |
| Console program (`main.c`) | - | polls until 0, then frees; an input thread cancels | the application of the models |
| Emulator (`src/emulator`) | rings, open port | answers commands, sends call records | the device of the models |

What is hard about it:

* Only the queue and the port pointer are under `writeMutex`.  `canceled`,
  `abandoned`, `testing`, `comm` and `hThread` are read and written without a
  lock by up to four threads.
* The threads start and join each other.  `Thread_start` is dropped silently
  if the handle is set, and the handle is stored after the thread has begun.
* Two signals are auto-reset.  A signal that nobody waits for stays.
* The bytes of a record arrive in as many reads as the line pleases, and the
  parser has to find records again after noise.
* The device may be unplugged or moved at any step of a search or a test, and a
  read, a write or an open may fail; a failed read looks like silence.
* The settings have two writers, the application and the search, and no lock.
* A read waits for three things at once (bytes, a cancel, its timeout), and its
  operation may outlive it.

What makes each component correct: the queue loses, invents and reorders
nothing and no wakeup is missed; a disconnect stops the reader before it closes
the port; the flags that make loops stop or calls be dropped are always taken
back; some thread is always at work on having a connection; CONNECTED and
DISCONNECTED alternate; a device that stays is found and one that goes is
reported; `IcBox_free` returns and leaves no port open and no thread running; the parser stays in
its window and reports only what was sent; every rate of every port in the list
comes up; a port's bytes come in order, and nobody is inside a port when it is
freed; documented texts mean what they say, and what is printed can be read
back.

Section "hazards" of PROJECT.json lists each risk at its line.

## 2. Modules and code

| Module | What it is | Code |
|---|---|---|
| `EventChannel` | abstract: a stream of events, sent, delivered in order, ended | what `IcBox.h` promises of events |
| `EventQueue` | queue, both signals, push, poll, cancel, one action per critical section or unlocked access | `IcBox.c` 72-100, 609-670; `Queue.c`; `Event.c`; loop of `main.c` |
| `Connection` | the three threads and the application over flags, port, signals, handles and mutex; the device | `IcBox.c` 49-70, 102-106, 176-282, 284-406, 472-560 (its end), 646-670; `Thread.c`; callers' view of `CommPort.c` |
| `Receive` | the window and the scan for records, byte by byte | `IcBox.c` 108-174, 218-252 |
| `Search` | where the search looks: the list of ports, the rounds, the rates; settings stored meanwhile | `IcBox.c` 284-406, 553-560; `CommPort_enum` |
| `CommPort` | one open port: the overlapped operations inside a read and a write, their timeout, the cancel signal, the disconnect | `CommPort.c` 28-56, 240-307, 338-372; `IcBox.c` 49-70, 193-207, 254-267 |
| `Configuration` | the settings and their text, read and printed property by property | `IcBox.c` 408-465, 472-607; `CommPort_configure` |
| `StringBuilder` | operators on a builder; `Configuration` holds it | `StringBuilder.c` |
| `MC...` | values of the constants for TLC | - |
| `...Proofs` | theorems about the module they are named for | - |
| `AloneProofs` | theorems about `Connection` left alone by the application | - |
| `FreeProofs` | theorems about `Connection` when the application only frees it | - |

One thing is in two modules where they look at it from two sides.  `Search` has
an echo test, a disconnect and a reconnect as one step each; `Connection` takes
them apart and has a list of ports and no rates.  `Connection` has a read as one
step; `CommPort` takes it apart.  `Configuration` opens its port in two steps,
as the code does (`CommPort_createEx` and the store of `lib->comm`), and closes
it in one, which `Connection` takes apart.

How to read them next to the code:

* `pc[t]` says where a thread is; the labels are named for what comes next.
  An action is one access to shared state, or a critical section of
  `writeMutex` that no unlocked access can cut in two.  `NullComm` is apart
  from `FreeComm` because the reader and the search look at `comm` without the
  mutex.
* `Goto(t, label)` assigns `pc`; `Jump` is a step that does only that, such as
  a test of a flag.  `Crash(why)` is the end of the program by undefined
  behaviour: `fault` says which, and `Next` is disabled from then on.
* `StartThread(t, w, next)` is `Thread_start`.  If `PromptStore` is FALSE, the
  handle reaches `hThread` in a later step (`StoreHandle`), so the new thread
  may run, and end, before.
* `StartThread` and closing a port that is being read are not followed past
  the point where two threads of one kind would run, or where a read loses its
  handle: those states end the behaviour with a fault.
* `Connection` treats a record as a unit ("answer", "call"); `Receive` has the
  bytes.  The two share `testing` and `evDetected`, which `Receive` lets its
  environment change at any moment, whoever runs a test; what the parser does
  depends on `testing` only.
* In `Connection` a read ends with a record, with nothing when its port is
  canceled (`ReceiveCanceled`), when it has lasted long enough (`ReadTimeout`),
  or because it fails (`ReceiveFailed`, at any moment).  A write may fail or be
  canceled, an open may fail, and a wait may end before its answer comes
  (`EchoLate`).  `Fails` takes one from the budget of failures.
* `overlap` remembers that `Thread_start(thAlive)` was called while `thConnect`
  had not ended.  A device that answers or times out never leads there, as
  `testing` is set by then; a read that fails does (section 6).  Two threads then
  test and disconnect at once, and nearly every property of `Connection` breaks;
  so the properties are claimed until then.  `AbandonEnds` is claimed of all.
* History variables: `sent`, `delivered`, `told`, `ignored`, `lastEvent`,
  `overlap`, `fault`, `unheard` (`Search`), `got`, `lost`, `guessed`, `timedOut`
  (`CommPort`), `missed`, `wanted`, `stored`, `torn`, `pieces`
  (`Configuration`).  They influence no step (but `fault`, as said, and `overlap`
  if `FollowOverlap` is FALSE) and exist to state properties.
* `Search`: `comm` is the port that is open, from `CommPort_createEx` on; it is
  `lib->comm` from `Store` on, which is when a configuration reaches it.  At
  "ending" the device is found and `thConnect` has not returned: a configuration
  then closes the port and its restart of the search is dropped (`Drop`), as it
  is at "test".  If the search ends after that, nobody searches ("gone").  An
  enumeration that fails gives no ports; one whose buffer is too small is asked
  again, with the size that was needed then.
* `CommPort`: bytes are numbered as they arrive, so that order and loss can be
  stated.  `op` is what the driver does for a call, `orphans` counts operations
  whose call returned before them.
* `Configuration`: a text is a sequence of tokens (a name, a colon, a semicolon,
  a word, a number), each counting as one character.  `Decimal` has the digits
  of the numbers that occur, `Lower` the lower case of names that have another.
* Definitions whose comment begins with "Mutant:" are what a plausible slip
  would have made of the definition that follows.  No specification uses them.
  PROJECT.json names them: each property that passes fails with its mutant.

The device and the other side of the line (`Hear`, `DeviceAnswer`,
`DeviceCall`, `DeviceMove`, `DeviceSend`) are taken from the emulator, which
answers each command once and sends call records of the layout `_IcBox_execute`
expects.

## 3. What the runs check

Runs that pass:

* **event_queue** (`EventQueue.cfg`).  `PopFindsEvent`: a poll never pops an
  empty queue, although it tests the queue without the lock, and signals may
  be older than the test.  `NoLostWakeup`: a waiting poller is told of what is
  queued.  `NothingLost`: exactly what was pushed comes out, in that order.
  `ImplementsChannel`: refinement of `EventChannel` with its liveness.
  `CancelEndsPolling`, `AllDelivered`: liveness.
* **connection** (`Connection.cfg`).  An instance the application leaves alone.
  The device is plugged in, moved or taken out once and reports a call, and one
  read, write or open fails, or one answer comes too late.  `NoFault`,
  `ReadsOpenPort`: nobody uses a null port, and the reader reads the open one.
  `TestingEnds`: `testing` is cleared whatever the test ran into.  `Alert`:
  somebody always works on the connection.  `EventsAlternate`.  Liveness:
  `DeviceFound` and `DeviceLossReported`, which an answer that came too late and
  is taken for that of the next test must not prevent.  All of them until
  `overlap`, that is, not for two tests or two disconnects at once.
* **shutdown** (`Shutdown.cfg`).  `IcBox_free` at every moment, with one failure:
  `FreeReturns`, and `FreedClean` (no port open, no thread alive), both until
  `overlap`.  Here two threads do disconnect at once, the one that frees and
  another.  It may also end in the fault of the run free_while_connecting, which
  `FreeReturns` excepts.
* **interleavings** (`Interleavings.cfg`).  Late handles, reconfiguration, free
  and one failure together, also after `overlap`: `TypeOK` and `AbandonEnds` (no
  overlap of disconnects leaves `abandoned` set, which would stop every loop for
  good; that it may be reset too early is not excluded).
* **receive** (`Receive.cfg`).  All ways to cut three records into reads, with
  echo tests going on and off: `WindowNeverFull`, `LittleIsKept`,
  `ToldWasSent` (no event from parts of two records, none twice, in order),
  `WholeCallsHandled` (if records are not cut, each call outside of a test is
  reported), `ReadsOn` (the inner loop ends).
* **search** (`Search.cfg`).  `EntriesInList`: how far behind its list the
  search can get.  `SettingsOfConnection`: whoever stored a port or a rate
  during the search, a connected instance has those of its connection.
  `RatesComeUp`: each round brings each rate nearer, wherever a search that was
  interrupted left `tried` and `baundIndex`.  `DeviceFound`: a device that
  stays in a port of the list, at a rate the library tries, is found and kept,
  unless a configuration met a search that had not ended and nobody searches any
  more (run reconfigure shows how).
* **serial_port** (`CommPort.cfg`).  `BytesInOrder`: reads return bytes in order
  and none twice, and what they do not return is accounted for.
  `LocalsReleased`: a canceled call waits until its operation has let go of its
  locals; only a timeout leaves one behind.  `FreedUnused`: nobody is in the
  port when it is freed.  `CloseReturns`: a disconnect ends, also when the
  writer has taken the signal meant for the reader.
* **configuration** (`Configuration.cfg`).  `DocumentedTextWorks`: a text of the
  documented form, in any order and case, with or without its last semicolon,
  sets what it names and nothing else.  `RoundTrip`: a printed text gives a new
  instance the same settings.  `DataIsContent`: the lazily collected text is all
  that was appended since it was cleared.  `DriverFollows`: an open port has the
  settings of the instance, unless a text changed them between
  `CommPort_createEx` and the store of `lib->comm`.

Runs that end in a violation, one per disagreement of section 6:
**free_while_canceling**, **free_while_connecting**, **reconfigure**,
**split_record**.

`CHECK_DEADLOCK FALSE` in all but the runs of `Receive` and `Configuration`: a
freed instance, a closed port, and an instance with nothing left to do within
its bounds, stop.

## 4. Bounds and assumptions

Bounds, each a constant:

* `MaxEvents = 2` with two workers and a canceler gives queues of up to five
  events: empty, one, several, and pushes on either side of every poll step.
* One or two ports (`PortList`).  Two are enough for "another port than the
  one that answers"; the search treats all ports alike.
* `MaxCalls`, `MaxMoves`, `MaxConfigs` are budgets of the environment.  The
  device begins in any port or none, so one move is plugging in, taking out or
  moving to the other port, at any step of the search, the test or the
  reconnect that an earlier failure caused; one call is enough to leave a signal
  in `evDetected`; one reconfiguration overlaps a disconnect by another thread.
* `MaxFailures = 1`: a failure at any step, of any kind.  One is enough for
  `overlap`, and to lose a connection that the device did not leave.  `AloneProofs`
  has any number of moves, calls and failures.
* `LateAnswers` lets a wait for an answer end early at the cost of a failure.
  The run shutdown is without (see below).
* `FollowOverlap = FALSE` in connection and shutdown: a behaviour stops when
  `overlap` is set.  Their properties claim nothing of what follows, the safety
  properties by `~overlap`, the liveness properties by `<>(canceled \/ overlap)`
  and by `FreeReturns` having `overlap` among its ends; so nothing is lost, and
  the runs stay small.
* The run shutdown has no call records: with one, the search may take the
  signal left behind for an answer after `IcBox_free` has begun, reports a
  connection and leaves the port and its reader behind.  That is the same
  stale signal as in section 6 (a thread that cannot be started again).  It has
  no configurations either: one that overlaps the free starts the search again
  behind the join.  So `FreedClean` is claimed only without both, with punctual
  timeouts (an echo test that gives up before its answer leaves the answer for
  the next one), and until `overlap`.
* `Receive` scales the layout down: records of 6 bytes (caller, E, kind, x, CR,
  LF) and a window of 14 in place of 47 and 256.  The order of the fields and
  the ratio (a window holds two records and not three) are kept; the theorems
  hold for the real numbers.  They assume what the layout of the code meets: the
  caller, the mark E and the kind are apart from each other and from the end of
  the record (`FieldsApart`); no other field has an E (`CallersTellRecords`,
  where the caller also names the record, so that an event can be told from
  another); no field of a call has a CR, and its first byte is none of the
  letters that begin an answer (`CallsAreNoAnswers`): the records of the device
  begin with a date or blanks.
* If reads are whole (`whole`), the device has at most `WindowSize - 2` bytes on
  the line: 254 bytes, which is five call records and more.  With more, a read
  that fills the buffer ends inside of a record, and one that is two bytes
  shorter does not fit behind the two bytes that an earlier read may have left
  in the window; either cuts a record as a split read does.
* `Search`: three rates with the repeated one last, `<<3, 2, 1>>`, two of which
  are fast, are the shortest list in which the cycle goes back before, and on
  after, its third try.  Two ports, one of them possibly not installed, and a
  first buffer for one entry (of up to three, one of which is no serial port) make
  enumerations that fit at once, after a retry, and, with a port that comes
  meanwhile, not even then (two failed turns).  A fourth rate may be configured,
  also for `IcBox_create`, and is not tried.  Two changes (`MaxChanges`) are a
  configuration and a move, two configurations in one round, a port that goes
  and comes.  The theorems have no such bounds.
* `CommPort`: one reader, one writer, three bytes (a read that takes some, an
  orphan that takes some, one that is left) and two orphans per thread.
* `Configuration`: buffers of five tokens make a printed text of up to nine
  pieces cross buffers in many places, and the longest formatted piece (port)
  is one short of a buffer, as in the code, where it is far shorter.  A value
  buffer of three tokens is too short for one of `OtherTexts`.  Two texts, so
  that the second finds what the first left; a pair of each kind, an interval on
  either side of its limit, and a negative one.
* The theorems about the settings assume of the texts: names and values are no
  separators, and a value is no name and fits the buffer (`PairsDocumented`,
  `PROPERY_BUFFER_SIZE` 256); a port the search finds, or a text of another form
  gives, is shorter than the buffer and than `DEFAULT_ALLOC`, 256, and has no
  name or semicolon in it (`PortsArePlain`; `lib->port` has 8 characters); words
  and numbers are no names (`ValuesArePlain`).  A port that is named like a
  property would not survive printing and reading: `strstr` finds it first.
* A call's kind is A (reported) or R (a letter the code ignores) in the run.

Timing, `Connection`:

* `Punctual`: no timeout passes while a thread can run or the device has yet
  to answer.  The timeouts are seconds (1000 ms, 1500 ms, 10000 ms) and a
  step takes microseconds, so this is the normal operation.  The runs keep it to
  stay small, and `ReceiveFailed` and `EchoLate` have what it leaves out: a read
  that ends with nothing, and a wait that ends too early, at any moment, within
  the bound of failures.  `AloneProofs` is without it.
* `PromptStore`: the store after `CreateThread` happens before anything else.
  Run interleavings checks without it; section 6 says what it hides.
* `ConnectionProofs` assumes neither, `AloneProofs` assumes `PromptStore`,
  `FreeProofs` both and that no answer is late.

Fairness:

* `EventQueue`: weak fairness for each thread's steps, strong for taking
  `writeMutex`, from which no thread that asks for it is kept out for ever.
* `Connection`: strong fairness for each thread and each timeout.  Threads
  take `writeMutex` (as above); a timeout is disabled under `Punctual` whenever
  another thread runs for a moment, and a timer does not start over for that.
  Weak fairness of the device's answer: the device does answer.  Nothing is
  assumed of plugging, calling, configuring and freeing.
* `Receive`: weak fairness of the parser's loop.
* `Search`: weak fairness of `thConnect` as a whole and of the alive test that
  misses the device (`Lost`); both run on timers of their own.  Nothing is
  assumed of the application, the device and the ports.
* `CommPort`: weak fairness of each caller's steps, its timeout included (a
  timer that runs while it waits), and of the driver's end of an operation that
  was canceled.  Nothing makes a byte arrive or an operation complete.  Strong
  fairness of the disconnect, for `writeMutex`, which writers take again and
  again.
* `Configuration`: none, it has no liveness property.

## 5. What is proved

With TLAPS, for every value of the constants allowed by the ASSUMEs of each
module (sets of threads, lists of ports, layouts and windows of any size, any
budgets), and of specifications without fairness:

* `EventQueueProofs`.  `TypeCorrect`, `PopAlwaysFindsEvent`,
  `WakeupNeverLost`, `NothingIsLost`, `QueueImplementsChannel`.  None of the
  properties is inductive.  The invariant adds who owns the mutex at which
  label (`MutexInv`); that the poller past its wait, unless it will be told of
  a cancel, finds an event because nobody else pops (`ReadyInv`); and that a
  set `evReceive` means an event is in the queue, except between the pop and the
  reset, which are in one critical section (`SignalInv`).
* `ConnectionProofs`.  `ConnectionTypeCorrect` and `AbandonIsTakenBack`.
  `AbandonEnds` is inductive together with the typing of `pc`: a thread leaves
  a disconnect only by the step that resets `abandoned`, and a thread that is
  in one leaves it no other way, so the flag never outlives the last of them.
* `AloneProofs`.  `NoFault`, `ReadsOpenPort`, `TestingEnds`, `Alert` and
  `EventsAlternate` of an instance that the application does not free or
  reconfigure (`LeftAlone`, with `PromptStore`), for any list of ports, any number
  of moves, calls and failures, and timeouts at any moment.  The invariant is
  `overlap \/ AloneInv`.  The argument: as long as no alive test is started
  beside a search, `thConnect` and `thAlive` take turns (`TurnInv`), because
  either is started by what the other does last.  So the label of the one that
  works says whether a port is open, whether it is read (`PortInv`, `ReaderInv`),
  what `abandoned` and `testing` are (`DisconnectInv`, `TestInv`) and what was
  reported (`EventInv`).  That a thread can be started when it has to be needs
  `HandleInv`.  What a read returns, and when a wait ends, does not matter to
  this; whether a read that ends with nothing finds `testing` clear decides
  whether `overlap` is set.  The runs reconfigure and free_while_connecting show
  that without `LeftAlone` two of the five are false.
* `FreeProofs`.  `FreeLeavesNothing` is `FreedClean` of an instance that the
  application creates and frees, whatever the ports, the moves of the device, the
  failures and the moment of the free (`OnlyFreed`: no calls, no configurations,
  `Punctual`, no late answers, `PromptStore`).  Its invariant is
  `overlap \/ FreeInv`, and `FreeInv` is not that of `AloneProofs`: two threads
  disconnect at once, the search may go on behind the disconnect of the free, and
  the port may be closed under it.  It says instead that once the free has
  disconnected the search is doomed: a reader it starts then hears `canceled` and
  reads nothing (`DeafInv`), at most one answer is on its way and it is of the
  test that waits for it (`AnswerInv`), so a test that the free has interrupted
  finds no answer and the search leaves by its failed test (`LeaveInv`); and the
  alive test has nobody left to start it.  `FreeFaultsInWrite` says that the fault
  of the run free_while_connecting is the only one such an instance can have,
  until `overlap`.
* `ReceiveProofs`.  `ReceiveTypeCorrect`, `WindowAlwaysHasRoom`,
  `WindowIsEmptied`.  The scan of three bytes or more always consumes some, and
  leaves less than three if it found nothing; so the inner loop, which goes on
  while something was consumed, ends with less than three bytes in the window,
  and an iteration starts with room.  This makes the branch of `IcBox.c` for a
  full window dead code, for every layout with `3 <= Size < WindowSize`.
  `EventsWereSent` is `ToldWasSent`: by `StreamInv`, the window, the bytes read
  and the line are the end of the stream the device sent, with parts in front
  dropped.  Whatever mark E is left in it stands in a record whose fields that
  are left are at their distance from it; so what the parser takes for a call
  is one record from its first byte on, and all marks behind it are of later
  ones.  `WholeCallsAreHandled` is `WholeCallsHandled`: by `WholeInv`, if reads
  are whole, then window, bytes read and line are a row of whole records
  (`Divided`), and a record begins behind the window.  An answer can only be
  found where there is a CR and a call where there is an E, and of each there is
  one in a record, at its place; so the parser finds records at their beginning
  (`HitAtRecord`, `FirstAtRecord`), skips nothing but noise (`NoiseOnly`), and
  drops whole records, each of which is reported or came during a test.
* `SearchProofs`.  `SearchTypeCorrect`, `SearchStaysInList`,
  `SettingsAreOfConnection`, `EveryRateComesUp`, for any list of rates whose
  first is a fast one.  `LinkInv` says when a port is open and that it is the
  entry the search is at until that becomes the configured port; `CountInv` that
  the search takes its list for longer than it is by the failed turns at most.
  `EveryRateComesUp` is about a step: `Distance(r)`, the rounds that are left
  before rate r, falls with each round, by the cases of `tried`.
* `CommPortProofs`.  `CommPortTypeCorrect`, `LocalsAreReleased`,
  `PortFreedUnused`, for any number of writers.  An operation exists only for a
  call that waits for it (`OpInv`); a writer inside a call has the mutex
  (`MutexInv`), which the disconnect takes when it frees; the reader has ended
  from the join on and cannot begin again, because `abandoned` stays set
  (`JoinInv`); a call on its way out after a timeout is remembered (`LateInv`).
  `BytesComeInOrder` is `BytesInOrder`: the line holds the last bytes that
  arrived (`LineInv`), and those off it were got, are about to be, or were lost
  to an operation given up (`ReadInv`), as long as no count was guessed.
* `ConfigurationProofs`.  `ConfigurationTypeCorrect`: no text, whatever its form,
  takes a setting out of its range, and the builder's arithmetic on its buffers
  is right for any size of them.  `DriverFollowsSettings`, from `DriverInv`: an
  open port has the settings of the instance, unless the application is still
  reading a text and has noted a change, or the change came when the port was
  open and `lib->comm` still NULL (`missed`).  `DocumentedTextsWork`, from
  `DocumentedInv`: of a documented text, the properties read so far have what it
  asks for, and the others what they had.  `TextIsContent`, from `ContentInv`:
  the buffers of the builder hold what was appended, in order, and data is either
  that or out of date and marked so.  `PrintedTextsWork` is `RoundTrip`, from
  `PrintedInv`: the pieces printed so far are, property by property, name, colon,
  value, semicolon; so reading one back finds its name there and nowhere before,
  because no value is a name.

Two definitions in that module are recursive functions: reading all properties
of a text, and copying the buffers of a builder.  Induction theorems are out of
the prover's reach, so a fact about all their values is proved by the least
number for which it would fail (`LeastExists`, from the well-foundedness of `<`).

Only model-checked: all liveness (fairness is beyond the prover), and with it
the fairness part of `ImplementsChannel`; `FreedClean` beyond the instances of
`OnlyFreed` is not claimed.  Every other property of the passing runs is a
theorem.

## 6. Disagreements between code and documents

Each is a run that violates one property; PROJECT.json quotes the lines.

1. *free_while_canceling*: a poller that `IcBox_cancel` has woken (`IcBox.c:95`)
   returns 0 on `canceled`, before `IcBox_cancel` has pushed DISCONNECTED (96) and
   returned, and `main.c` frees the instance then.
2. *free_while_connecting*: a free between the opening of a port and its echo
   test leaves `_IcBox_sendCmd` with a null port.
3. *reconfigure*: a reconfiguration during a search loses the restart of the
   search, and the search may end with "connected" on a closed port.
4. *split_record*: the scan drops all but two bytes of an incomplete record, so
   a call record that comes in two reads is lost.  Line 171, meant to prevent
   it, can never apply.

Also seen, without a run of its own:

* A read that fails during a search.  `_CommPort_check` returns 0 when `ReadFile`
  fails (`CommPort.c:250`, `275`), as it does for silence, and `IcBox.c:214` then
  starts the alive test unless `testing` is set; it is not before the echo test
  (275), nor after it (278) until `abandoned` is (54).  `thAlive` and `thConnect`
  then test and disconnect at once.  If `thAlive` asks on port A, and `thConnect`
  disconnects A and opens B, the test on B saves `testing` set; `thAlive` times
  out, closes B and reports DISCONNECTED although there was no CONNECTED; and
  `thConnect` restores `testing` to set, for ever, so no call is reported and no
  alive test made any more.  Or the alive test finds its restart of the search
  dropped (`Thread.c:31`), or either writes to the null port the other left.
  `Connection` with the constants of `Connection.cfg`, `FollowOverlap = TRUE`, no
  calls and no late answers violates `NoFault`, `TestingEnds`, `Alert` and
  `EventsAlternate` if `overlap` is taken out of them.  Timers that are configured
  to end at the same moment (`IcBox.c:534-551`) do the same.
* The reader of a port of an earlier search may answer the echo test on a port
  of the next one (`IcBox.c:277`, `118`), after a reconfiguration while the
  search was about to store its port.  In `Connection` with one call, one
  reconfiguration and no moves, `pc["connect"] = "up"` then does not imply
  `PortList[idx] = dev`.
* A thread that ends before its creator stores the handle (`Thread.c:33`) can
  never be started again; if it is the alive test, the loss of the device is not
  noticed any more.  `Connection` with `PromptStore = FALSE`, one call and one
  move violates `DeviceLossReported`.
* The end of the list (`IcBox.c:314`): after a second failed turn of the
  enumeration the search reads behind the text it was given.
* A rate that is configured between the opening of a port and the store of
  `lib->comm` (`IcBox.c:358`, `362`) is reported, but not what the port works at:
  `IcBox.c:553` sees NULL and does nothing.  `SettingsOfConnection` and
  `DriverFollows` except this window (`unheard`, `missed`) and are violated
  without the exception.
* `CommPort_readEx` takes whatever `bytesTrans` holds for the count if `ReadFile`
  completes at once (`CommPort.c:347`), and after a timeout leaves an operation
  on locals that it then releases, although the comment at line 269 says that
  the cancel is for the local variable's sake.
* `CommPort_createEx` does not look at what `CommPort_configure` returns: a port
  that refuses the settings is searched with the ones it had.
* `lib->connected` is written and never read; `IcBox.h` declares
  `IcBox_isConected`, the source defines `IcBox_isConnected`;
  `Documentação.txt:27` gives flow control another default than the code.

## 7. What is not modelled

* `CommPort_waitEx`: nothing calls it.  `CommPort_write`, `_read` and `_create`
  without a timeout are used by the emulator only.
* The emulator's own threads: it is a tool for tests by hand.  What it sends is
  in `Connection` and `Receive`.
* The byte behind a value that fills its buffer (`IcBox.c:426`), and a port name
  longer than `lib->port`: memory is not modelled.
* A key that occurs inside another word, a value with a colon in it: tokens are
  whole.
* A setting that changes while `CommPort_configure` reads the settings: `Dcb` is
  taken in one step, and always accepted by the port.
* A second thread of one kind after `Thread_start` was called twice, and a
  read whose port is closed under it: the models stop at the fault.
* A call of the system that fails, other than reads, writes, opens and
  enumerations of ports (which are modelled): the code does not look at the
  result of `CreateThread`, of waits and mutexes, nor at allocations.
* What an instance does after an alive test was started beside a search: it is
  in the model (`FollowOverlap`), but only `TypeOK` and `AbandonEnds` are claimed.
* `IcBox_cancel` followed by more calls in `Connection` (it is there as the
  first part of `IcBox_free`; `EventQueue` has it as a call of its own).
* Example programs, resource files, header: no state.

## 8. Plan

Done: all modules of section 2 and their proofs.  What is left, in the order of
what it would add:

1. `Connection`: the free-standing `IcBox_cancel`; what is left of the properties
   after `overlap`.
2. More proofs: which of the theorems of `AloneProofs` and `FreeProofs` hold with
   handles stored late; what a reconfiguration leaves of them.
3. The emulator: its ring, listen and device threads, and its port, which it
   frees before it joins the thread that reads it.

## 9. Running it

    tlc -config EventQueue.cfg MCEventQueue
    tlc -config Connection.cfg MCConnection        (and the other cfg files)
    tlc -config Receive.cfg MCReceive
    tlc -config Search.cfg MCSearch
    tlc -config CommPort.cfg MCCommPort
    tlc -config Configuration.cfg MCConfiguration
    tlapm EventQueueProofs.tla                     (and the other ...Proofs)
