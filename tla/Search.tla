------------------------------- MODULE Search -------------------------------
(***************************************************************************)
(* Where thConnect looks for the device: the list of ports it makes when   *)
(* it starts (CommPort_enum, behind the configured port), the rounds over  *)
(* that list and the rate of each round, against an application that       *)
(* changes port and rate at any moment and ports that come and go.         *)
(* Module Connection takes the echo test, the disconnect and the restart   *)
(* apart, which are one step with several outcomes here.                   *)
(***************************************************************************)
EXTENDS Naturals, Sequences, FiniteSets

CONSTANTS
  Names,        \* the names of serial ports (COM1, ...)
  NoName,       \* the empty name
  NoComm,       \* NULL
  NoDevice,     \* the device is in no port
  BaundValues,  \* the rates that are tried
  RepeatBaund,  \* REPEAT_BAUND
  OtherRates,   \* rates an application may configure besides
  OtherPorts,   \* how many entries of EnumPorts are no serial ports
  FirstNeed,    \* how many entries fit the first buffer of an enumeration
  MaxChanges    \* bound: calls of IcBox_setConfiguration, moves of the device
                \* and ports that come or go

Indices == DOMAIN BaundValues
SearchRates == {BaundValues[r] : r \in Indices}
Rates == SearchRates \union OtherRates
Place == [port : Names, baund : Rates]

ASSUME NamesDistinct == IsFiniteSet(Names) /\ NoName \notin Names
ASSUME PlacesDistinct == NoComm \notin Place /\ NoDevice \notin Place
ASSUME FirstIsFast ==
  /\ BaundValues \in Seq(Nat) /\ BaundValues # <<>>
  /\ RepeatBaund \in Nat /\ OtherRates \subseteq Nat
  /\ BaundValues[1] > RepeatBaund
ASSUME SizesNat ==
  OtherPorts \in Nat /\ FirstNeed \in Nat /\ MaxChanges \in Nat

VARIABLES
  port, baund,        \* lib->port and lib->commSettings.baund
  baundIndex,         \* lib->baundIndex, from 1
  comm,               \* the open port and its rate, or NoComm; from pc "opened"
                      \* on it is lib->comm
  unheard,            \* history: settings came too late for the port and too
                      \* early for lib->comm
  pc,                 \* where thConnect is: "ending" once it has found the device
                      \* and "idle" when it has ended; "gone" if it has ended and
                      \* its restart was dropped
  ports, count,       \* its list of ports and how many it takes it to have
  need, turn,         \* the buffer of the enumeration and its failed turns
  i,                  \* the entry of the list that is tried
  tried,              \* its local variable tried
  installed,          \* the serial ports the machine has
  dev,                \* where the device is and the rate it understands
  changes             \* what is left of MaxChanges

settings == <<port, baund>>
link == <<comm, unheard>>
enumeration == <<ports, count, need, turn>>
world == <<installed, dev, changes>>
vars == <<settings, baundIndex, link, pc, enumeration, i, tried, world>>

-----------------------------------------------------------------------------
\* What a start of thConnect does to its local variables.
Start ==
  /\ pc' = "enum"
  /\ ports' = <<>> /\ count' = 0
  /\ need' = FirstNeed /\ turn' = 0
  /\ i' = 1 /\ tried' = 1

\* IcBox_create has read the configuration it was given.
Init ==
  /\ port \in Names \union {NoName}
  /\ baund \in Rates
  /\ baundIndex = 1
  /\ comm = NoComm /\ unheard = FALSE
  /\ pc = "enum"
  /\ ports = <<>> /\ count = 0
  /\ need = FirstNeed /\ turn = 0
  /\ i = 1 /\ tried = 1
  /\ installed \in SUBSET Names
  /\ dev \in Place \union {NoDevice}
  /\ changes = MaxChanges

-----------------------------------------------------------------------------
(***************************************************************************)
(* The enumeration.                                                        *)
(***************************************************************************)
Configured == IF port = NoName THEN <<>> ELSE <<port>>

Fits == Cardinality(installed) + OtherPorts <= need

Listings ==
  {s \in [1 .. Cardinality(installed) -> installed] :
     \A a, b \in DOMAIN s : s[a] = s[b] => a = b}

\* EnumPorts answers, or fails, which the search takes for no ports.
EnumEnds ==
  /\ pc = "enum"
  /\ \E listing \in Listings \union {<<>>} :
       /\ listing = <<>> \/ Fits
       /\ ports' = Configured \o listing
       /\ count' = count + Len(Configured) + Len(listing)
  /\ pc' = "round"
  /\ UNCHANGED <<settings, baundIndex, link, need, turn, i, tried, world>>

\* The buffer is too small: the next turn has one of the size asked for.
EnumNeedsMore ==
  /\ pc = "enum"
  /\ ~Fits
  /\ turn <= 1
  /\ count' = count + Len(Configured)
  /\ need' = Cardinality(installed) + OtherPorts
  /\ turn' = turn + 1
  /\ UNCHANGED <<settings, baundIndex, link, pc, ports, i, tried, world>>

-----------------------------------------------------------------------------
(***************************************************************************)
(* The rounds.                                                             *)
(***************************************************************************)
Round ==
  /\ pc = "round"
  /\ i' = 1
  /\ pc' = IF count > 0 THEN "open" ELSE "wait"
  /\ UNCHANGED <<settings, baundIndex, link, enumeration, tried, world>>

\* An empty name follows the last entry of the list.
Entry == IF i <= Len(ports) THEN ports[i] ELSE NoName

Open ==
  /\ pc = "open"
  /\ unheard' = FALSE
  /\ IF Entry \in installed
       THEN comm' = [port |-> Entry, baund |-> baund] /\ pc' = "opened"
       ELSE pc' = "next" /\ UNCHANGED comm
  /\ UNCHANGED <<settings, baundIndex, enumeration, i, tried, world>>

\* lib->comm = comm: from now on a configuration reaches the port.
Store ==
  /\ pc = "opened"
  /\ pc' = "test"
  /\ UNCHANGED <<settings, baundIndex, link, enumeration, i, tried, world>>

Answers == dev = comm /\ comm.port \in installed

\* Mutant: the port that was found is not stored.
FoundUnnamed ==
  /\ pc = "test"
  /\ Answers
  /\ pc' = "ending"
  /\ UNCHANGED <<settings, baundIndex, link, enumeration, i, tried, world>>

\* The echo test succeeds: the port is stored and thConnect is about to end.
Found ==
  /\ pc = "test"
  /\ Answers
  /\ port' = Entry
  /\ pc' = "ending"
  /\ UNCHANGED <<baund, baundIndex, link, enumeration, i, tried, world>>

End ==
  /\ pc = "ending"
  /\ pc' = "idle"
  /\ UNCHANGED <<settings, baundIndex, link, enumeration, i, tried, world>>

NotFound ==
  /\ pc = "test"
  /\ ~Answers
  /\ comm' = NoComm
  /\ pc' = "next"
  /\ UNCHANGED <<settings, baundIndex, unheard, enumeration, i, tried, world>>

\* Mutant: one entry too many is tried.
NextEntryTooFar ==
  /\ pc = "next"
  /\ i' = i + 1
  /\ pc' = IF i <= count THEN "open" ELSE "wait"
  /\ UNCHANGED <<settings, baundIndex, link, enumeration, tried, world>>

NextEntry ==
  /\ pc = "next"
  /\ i' = i + 1
  /\ pc' = IF i < count THEN "open" ELSE "wait"
  /\ UNCHANGED <<settings, baundIndex, link, enumeration, tried, world>>

\* Mutant: there is no limit to the repetitions of the first rate.
NextRateUnlimited(index) ==
  IF BaundValues[index] > RepeatBaund THEN <<1, tried + 1>> ELSE <<index, tried>>

\* Mutant: the search counts its repetitions of the first rate from 0 again.
NextRateForever(index) ==
  IF BaundValues[index] > RepeatBaund THEN <<1, tried>> ELSE <<index, tried>>

\* The rate and the value of tried that follow when the cycle is at index: a
\* fast rate sends it back to the first until that was tried three times.
NextRate(index) ==
  IF tried < 3 /\ BaundValues[index] > RepeatBaund THEN <<1, tried + 1>>
  ELSE IF tried >= 3 /\ index = 1 THEN <<1, 1>>
  ELSE <<index, tried>>

Wait ==
  /\ pc = "wait"
  /\ \E next \in {NextRate((baundIndex % Len(BaundValues)) + 1)} :
       /\ baundIndex' = next[1]
       /\ tried' = next[2]
       /\ baund' = BaundValues[next[1]]
  /\ pc' = "round"
  /\ UNCHANGED <<port, link, enumeration, i, world>>

Searching == EnumEnds \/ EnumNeedsMore \/ Round \/ Open \/ Store \/ Found \/ End
               \/ NotFound \/ NextEntry \/ Wait

-----------------------------------------------------------------------------
\* The alive test misses the device: thConnect is started again.
Lost ==
  /\ pc = "idle"
  /\ ~Answers
  /\ comm' = NoComm
  /\ Start
  /\ UNCHANGED <<settings, baundIndex, unheard, world>>

\* The old search has not ended: Thread_start leaves it alone, and when it ends
\* nobody searches any more.
Drop ==
  /\ pc' = "gone"
  /\ UNCHANGED <<enumeration, i, tried>>

\* The end of IcBox_setConfiguration on an open port: it is closed and the search
\* started again, which has an effect only if the old one has ended.  A search
\* that was testing the port may not notice and go on, or notice and end, or have
\* found the device before the port was closed.
Reconnect(newPort) ==
  /\ comm' = NoComm
  /\ \/ Start /\ port' = newPort
     \/ pc \in {"test", "ending"} /\ Drop /\ port' = newPort
     \/ pc = "test" /\ Answers /\ (Start \/ Drop) /\ port' = Entry
     \/ /\ pc = "test"
        /\ pc' = "next"
        /\ port' = newPort
        /\ UNCHANGED <<enumeration, i, tried>>

\* Port, rate or both are configured, or settings the device does not mind.
SetConfiguration ==
  /\ changes > 0
  /\ changes' = changes - 1
  /\ baund' \in Rates
  /\ \E newPort \in Names \union {NoName, port}, commSettingsChanged \in BOOLEAN :
       /\ baund' # baund => commSettingsChanged
       /\ IF pc \in {"test", "ending", "idle"} /\ (newPort # port \/ commSettingsChanged)
            THEN Reconnect(newPort)
            ELSE port' = newPort /\ UNCHANGED <<comm, pc, enumeration, i, tried>>
  /\ unheard' = (unheard \/ pc = "opened")
  /\ UNCHANGED <<baundIndex, installed, dev>>

DeviceMove ==
  /\ changes > 0
  /\ changes' = changes - 1
  /\ dev' \in (Place \union {NoDevice}) \ {dev}
  /\ UNCHANGED <<settings, baundIndex, link, pc, enumeration, i, tried, installed>>

PortPlug ==
  /\ changes > 0
  /\ changes' = changes - 1
  /\ \E p \in Names :
       installed' = IF p \in installed THEN installed \ {p} ELSE installed \union {p}
  /\ UNCHANGED <<settings, baundIndex, link, pc, enumeration, i, tried, dev>>

Next == Searching \/ Lost \/ SetConfiguration \/ DeviceMove \/ PortPlug

\* thConnect runs, and a lost device is noticed.
Fairness == WF_vars(Searching) /\ WF_vars(Lost)

SafeSpec == Init /\ [][Next]_vars

Spec == SafeSpec /\ Fairness

-----------------------------------------------------------------------------
\* Every variable has its type.
TypeOK ==
  /\ port \in Names \union {NoName} /\ baund \in Rates
  /\ baundIndex \in Indices
  /\ comm \in Place \union {NoComm} /\ unheard \in BOOLEAN
  /\ pc \in {"enum", "round", "open", "opened", "test", "next", "wait",
            "ending", "idle", "gone"}
  /\ ports \in Seq(Names) /\ count \in Nat
  /\ need \in Nat /\ turn \in 0 .. 2
  /\ i \in Nat /\ i > 0
  /\ tried \in 1 .. 3
  /\ installed \subseteq Names
  /\ dev \in Place \union {NoDevice}
  /\ changes \in Nat

\* The search opens only entries of its list, but for one entry behind its end
\* for each failed turn of the enumeration, which counts the configured port
\* again; the first of them is the empty name that ends the list.
EntriesInList == pc = "open" => i <= Len(ports) + turn

\* While the instance is connected, the port and the rate that
\* IcBox_getConfiguration reports are those of the connection, whatever the
\* application and the search stored into the settings before; unless a rate
\* was stored between the opening of the port and its store into lib->comm.
SettingsOfConnection ==
  pc \in {"ending", "idle"} =>
    comm.port = port /\ (~unheard => comm.baund = baund)

\* How many rounds at most are left before the search tries rate r.
Distance(r) ==
  IF baundIndex = r THEN 0
  ELSE IF tried = 3 /\ baundIndex < r THEN r - baundIndex
  ELSE Len(BaundValues) - baundIndex + r +
         (CASE tried = 3 -> 2 * Len(BaundValues)
            [] tried = 1 -> Len(BaundValues)
            [] OTHER -> 0)

\* Every end of a round brings every other rate nearer, wherever a search that
\* was interrupted left the cycle: no rate is passed over for ever.
NearsEveryRate ==
  pc = "wait" /\ pc' # "wait" =>
    \A r \in Indices : baundIndex # r => Distance(r)' < Distance(r)
RatesComeUp == [][NearsEveryRate]_vars

\* The device is in a port of the search's list, at a rate that is tried.
InReach ==
  /\ dev # NoDevice
  /\ dev.port \in installed \intersect {ports[a] : a \in DOMAIN ports}
  /\ dev.baund \in SearchRates

\* A device that stays within reach is found and kept, unless a restart of the
\* search was dropped.
DeviceFound == <>[]InReach => <>(pc = "gone") \/ <>[](comm = dev)

=============================================================================
