---------------------------- MODULE SearchProofs ----------------------------
(***************************************************************************)
(* Theorems about module Search, for every list of rates that begins with  *)
(* a fast one and every machine.                                           *)
(***************************************************************************)
EXTENDS Search, FiniteSetTheorems, TLAPS

-----------------------------------------------------------------------------
\* A port is open from "opened" to "idle", and is entry i of the list until
\* it becomes the port of the settings.
LinkInv ==
  /\ comm = NoComm <=> pc \notin {"opened", "test", "ending", "idle"}
  /\ pc \in {"opened", "test"} =>
       comm.port = Entry /\ (~unheard => comm.baund = baund)
  /\ SettingsOfConnection

\* The list is taken to be longer than it is by the failed turns at most.
CountInv ==
  /\ pc = "enum" => count <= turn
  /\ count <= Len(ports) + turn
  /\ pc \in {"open", "opened", "test", "next"} => i <= count

Inv == TypeOK /\ LinkInv /\ CountInv

\* A rate that may be reached next.
LEMMA FollowingIndex ==
  ASSUME NEW n \in Nat \ {0}, NEW a \in 1 .. n
  PROVE  (a % n) + 1 = IF a = n THEN 1 ELSE a + 1
OBVIOUS

\* BaundValues is not empty.
LEMMA IndicesRange ==
  /\ Len(BaundValues) \in Nat \ {0}
  /\ Indices = 1 .. Len(BaundValues)
  /\ \A r \in Indices : BaundValues[r] \in Nat /\ BaundValues[r] \in Rates
BY FirstIsFast DEF Indices, Rates, SearchRates

\* NextRate stays among the rates and counts to three.
LEMMA NextRateType ==
  ASSUME NEW index \in Indices, tried \in 1 .. 3
  PROVE  /\ NextRate(index)[1] \in Indices
         /\ NextRate(index)[2] \in 1 .. 3
BY IndicesRange DEF NextRate

\* A port that was opened is a place, and the list has a name where it is.
LEMMA OpenedPlace ==
  ASSUME TypeOK, Entry \in installed
  PROVE  [port |-> Entry, baund |-> baund] \in Place
BY DEF TypeOK, Place

\* The machine has finitely many ports.
LEMMA InstalledCount ==
  ASSUME TypeOK
  PROVE  Cardinality(installed) \in Nat
BY NamesDistinct, FS_Subset, FS_CardinalityType DEF TypeOK

\* A listing is a sequence of the ports the machine has.
LEMMA ListingType ==
  ASSUME TypeOK, NEW listing \in Listings
  PROVE  listing \in Seq(Names)
BY InstalledCount DEF TypeOK, Listings

-----------------------------------------------------------------------------
LEMMA InitInv == Init => Inv
<1> SUFFICES ASSUME Init PROVE Inv
  OBVIOUS
<1>1. 1 \in Indices
  BY IndicesRange
<1>2. TypeOK
  <2>1. ports \in Seq(Names) /\ count \in Nat /\ need \in Nat /\ turn \in 0 .. 2
    BY SizesNat DEF Init
  <2>2. port \in Names \union {NoName} /\ baund \in Rates /\ baundIndex \in Indices
    BY <1>1 DEF Init
  <2>3. comm \in Place \union {NoComm} /\ unheard \in BOOLEAN /\ pc = "enum"
    BY DEF Init
  <2>4. i \in Nat /\ i > 0 /\ tried \in 1 .. 3 /\ installed \subseteq Names
          /\ dev \in Place \union {NoDevice} /\ changes \in Nat
    BY SizesNat DEF Init
  <2> QED
    BY <2>1, <2>2, <2>3, <2>4 DEF TypeOK
<1>3. LinkInv /\ CountInv
  BY DEF Init, LinkInv, CountInv, SettingsOfConnection
<1> QED
  BY <1>2, <1>3 DEF Inv

LEMMA TypePreserved == TypeOK /\ [Next]_vars => TypeOK'
<1> SUFFICES ASSUME TypeOK, [Next]_vars PROVE TypeOK'
  OBVIOUS
<1> USE DEF world, enumeration, settings, link
<1>1. CASE EnumEnds
  <2>1. PICK listing \in Listings \union {<<>>} :
          /\ ports' = Configured \o listing
          /\ count' = count + Len(Configured) + Len(listing)
    BY <1>1 DEF EnumEnds
  <2>2. Configured \in Seq(Names)
    BY DEF TypeOK, Configured
  <2>3. listing \in Seq(Names)
    <3>1. CASE listing \in Listings
      BY <3>1, ListingType
    <3>2. CASE listing = <<>>
      BY <3>2
    <3> QED
      BY <3>1, <3>2
  <2>4. ports' \in Seq(Names) /\ count' \in Nat
    BY <2>1, <2>2, <2>3 DEF TypeOK
  <2> QED
    BY <1>1, <2>4 DEF TypeOK, EnumEnds
<1>2. CASE EnumNeedsMore
  <2>1. Len(Configured) \in Nat
    BY DEF TypeOK, Configured
  <2>2. count' \in Nat /\ need' \in Nat /\ turn' \in 0 .. 2
    BY <1>2, <2>1, InstalledCount, SizesNat DEF TypeOK, EnumNeedsMore
  <2> QED
    BY <1>2, <2>2 DEF TypeOK, EnumNeedsMore
<1>3. CASE Round
  BY <1>3 DEF TypeOK, Round
<1>4. CASE Open
  BY <1>4, OpenedPlace DEF TypeOK, Open
<1>5. CASE Store
  BY <1>5 DEF TypeOK, Store
<1>6. CASE Found
  BY <1>6 DEF TypeOK, Found, Entry
<1>7. CASE NotFound
  BY <1>7 DEF TypeOK, NotFound
<1>8. CASE NextEntry
  <2>1. pc' = "open" \/ pc' = "wait"
    BY <1>8 DEF NextEntry
  <2>2. i' \in Nat /\ i' > 0
    BY <1>8 DEF TypeOK, NextEntry
  <2> QED
    BY <1>8, <2>1, <2>2 DEF TypeOK, NextEntry
<1>9. CASE Wait
  <2> DEFINE index == (baundIndex % Len(BaundValues)) + 1
  <2>1. index \in Indices
    <3>1. baundIndex \in 1 .. Len(BaundValues) /\ Len(BaundValues) \in Nat \ {0}
      BY IndicesRange DEF TypeOK
    <3>2. index = IF baundIndex = Len(BaundValues) THEN 1 ELSE baundIndex + 1
      BY <3>1, FollowingIndex
    <3> HIDE DEF index
    <3> QED
      BY <3>1, <3>2, IndicesRange
  <2>2. baundIndex' = NextRate(index)[1] /\ tried' = NextRate(index)[2]
          /\ baund' = BaundValues[baundIndex']
    BY <1>9 DEF Wait
  <2>3. baundIndex' \in Indices /\ tried' \in 1 .. 3 /\ baund' \in Rates
    BY <2>1, <2>2, NextRateType, IndicesRange DEF TypeOK
  <2> QED
    BY <1>9, <2>3 DEF TypeOK, Wait
<1>10. CASE Lost
  BY <1>10, SizesNat DEF TypeOK, Lost, Start
<1>11. CASE SetConfiguration
  <2>1. changes' \in Nat /\ baund' \in Rates /\ unheard' \in BOOLEAN
    <3>1. unheard' = (unheard \/ pc = "opened")
      BY <1>11 DEF SetConfiguration
    <3> QED
      BY <1>11, <3>1, SizesNat DEF TypeOK, SetConfiguration
  <2>2. Entry \in Names \union {NoName}
    BY DEF TypeOK, Entry
  <2>3. PICK newPort \in Names \union {NoName} :
          \/ Reconnect(newPort)
          \/ port' = newPort /\ UNCHANGED <<comm, pc, enumeration, i, tried>>
    BY <1>11 DEF TypeOK, SetConfiguration
  <2>4. CASE Reconnect(newPort)
    <3>1. comm' = NoComm /\ port' \in Names \union {NoName}
      BY <2>2, <2>4 DEF Reconnect
    <3>2. CASE Start
      BY <1>11, <2>1, <3>1, <3>2, SizesNat DEF TypeOK, SetConfiguration, Start
    <3>3. CASE pc' \in {"next", "gone"} /\ UNCHANGED <<enumeration, i, tried>>
      BY <1>11, <2>1, <3>1, <3>3 DEF TypeOK, SetConfiguration
    <3> QED
      BY <2>4, <3>2, <3>3 DEF Reconnect, Drop
  <2> QED
    BY <1>11, <2>1, <2>3, <2>4 DEF TypeOK, SetConfiguration
<1>12. CASE DeviceMove
  BY <1>12 DEF TypeOK, DeviceMove
<1>13. CASE PortPlug
  BY <1>13 DEF TypeOK, PortPlug
<1>14. CASE UNCHANGED vars
  BY <1>14 DEF TypeOK, vars
<1>15. CASE End
  BY <1>15 DEF TypeOK, End
<1> QED
  BY <1>1, <1>2, <1>3, <1>4, <1>5, <1>6, <1>7, <1>8, <1>9, <1>10, <1>11, <1>12,
     <1>13, <1>14, <1>15 DEF Next, Searching

\* What is open was opened from the list at the rate of the settings, unless a
\* configuration came between; a search that finds stores its port.
LEMMA LinkPreserved == Inv /\ [Next]_vars => LinkInv'
<1> SUFFICES ASSUME Inv, [Next]_vars PROVE LinkInv'
  OBVIOUS
<1> USE DEF world, enumeration, settings, link, SettingsOfConnection, Entry
<1>0. TypeOK /\ LinkInv
  BY DEF Inv
<1>1. CASE EnumEnds
  BY <1>0, <1>1 DEF LinkInv, EnumEnds
<1>2. CASE EnumNeedsMore
  BY <1>0, <1>2 DEF LinkInv, EnumNeedsMore
<1>3. CASE Round
  <2>1. pc' = "open" \/ pc' = "wait"
    BY <1>3 DEF Round
  <2> QED
    BY <1>0, <1>3, <2>1 DEF LinkInv, Round
<1>4. CASE Open
  <2>1. CASE Entry \in installed
    <3>1. comm' # NoComm
      BY <1>0, <1>4, <2>1, OpenedPlace, PlacesDistinct DEF Open
    <3> QED
      BY <1>4, <2>1, <3>1 DEF LinkInv, Open
  <2>2. CASE Entry \notin installed
    BY <1>0, <1>4, <2>2 DEF LinkInv, Open
  <2> QED
    BY <2>1, <2>2
<1>5. CASE Store
  BY <1>0, <1>5 DEF LinkInv, Store
<1>6. CASE Found
  BY <1>0, <1>6 DEF LinkInv, Found
<1>7. CASE NotFound
  BY <1>0, <1>7 DEF LinkInv, NotFound
<1>8. CASE NextEntry
  <2>1. pc' = "open" \/ pc' = "wait"
    BY <1>8 DEF NextEntry
  <2> QED
    BY <1>0, <1>8, <2>1 DEF LinkInv, NextEntry
<1>9. CASE Wait
  BY <1>0, <1>9 DEF LinkInv, Wait
<1>10. CASE Lost
  BY <1>10 DEF LinkInv, Lost, Start
<1>11. CASE SetConfiguration
  <2>1. CASE comm' = NoComm /\ (Start \/ Drop \/ pc' = "next")
    BY <2>1 DEF LinkInv, Start, Drop
  <2>2. CASE UNCHANGED <<comm, pc, enumeration, i, tried>>
    <3>1. CASE pc = "opened"
      BY <1>0, <1>11, <2>2, <3>1 DEF LinkInv, SetConfiguration
    <3>2. CASE pc \in {"test", "ending", "idle"}
      <4>1. (port' = port /\ baund' = baund /\ unheard' = unheard) \/ comm' = NoComm
        <5>1. PICK newPort \in Names \union {NoName, port}, changed \in BOOLEAN :
                /\ baund' # baund => changed
                /\ IF pc \in {"test", "ending", "idle"} /\ (newPort # port \/ changed)
                     THEN Reconnect(newPort)
                     ELSE port' = newPort /\ UNCHANGED <<comm, pc, enumeration, i, tried>>
          BY <1>11 DEF SetConfiguration
        <5>2. unheard' = unheard
          <6>1. unheard' = (unheard \/ pc = "opened")
            BY <1>11 DEF SetConfiguration
          <6> QED
            BY <1>0, <3>2, <6>1 DEF TypeOK
        <5> QED
          BY <3>2, <5>1, <5>2 DEF Reconnect
      <4> QED
        BY <1>0, <2>2, <3>2, <4>1 DEF LinkInv
    <3>3. CASE pc \notin {"opened", "test", "ending", "idle"}
      BY <1>0, <2>2, <3>3 DEF LinkInv
    <3> QED
      BY <3>1, <3>2, <3>3
  <2> QED
    BY <1>11, <2>1, <2>2 DEF SetConfiguration, Reconnect
<1>12. CASE DeviceMove
  BY <1>0, <1>12 DEF LinkInv, DeviceMove
<1>13. CASE PortPlug
  BY <1>0, <1>13 DEF LinkInv, PortPlug
<1>14. CASE UNCHANGED vars
  BY <1>0, <1>14 DEF LinkInv, vars
<1>15. CASE End
  BY <1>0, <1>15 DEF LinkInv, End
<1> QED
  BY <1>1, <1>2, <1>3, <1>4, <1>5, <1>6, <1>7, <1>8, <1>9, <1>10, <1>11, <1>12,
     <1>13, <1>14, <1>15 DEF Next, Searching

\* Each failed turn counts at most one entry that the list does not get.
LEMMA CountPreserved == Inv /\ [Next]_vars => CountInv'
<1> SUFFICES ASSUME Inv, [Next]_vars PROVE CountInv'
  OBVIOUS
<1> USE DEF world, enumeration, settings, link
<1>0. TypeOK /\ CountInv
  BY DEF Inv
<1>a. Len(ports) \in Nat /\ turn \in Nat /\ count \in Nat /\ i \in Nat
  BY <1>0 DEF TypeOK
<1>1. CASE EnumEnds
  <2>1. PICK listing \in Listings \union {<<>>} :
          /\ ports' = Configured \o listing
          /\ count' = count + Len(Configured) + Len(listing)
    BY <1>1 DEF EnumEnds
  <2>2. Configured \in Seq(Names)
    BY <1>0 DEF TypeOK, Configured
  <2>3. listing \in Seq(Names)
    <3>1. CASE listing \in Listings
      BY <1>0, <3>1, ListingType
    <3>2. CASE listing = <<>>
      BY <3>2
    <3> QED
      BY <3>1, <3>2
  <2>4. Len(ports') = Len(Configured) + Len(listing)
    BY <2>1, <2>2, <2>3
  <2>5. Len(Configured) \in Nat /\ Len(listing) \in Nat
    BY <2>2, <2>3
  <2> QED
    <3>1. count <= turn /\ turn' = turn /\ pc' = "round"
      BY <1>0, <1>1 DEF CountInv, EnumEnds
    <3>2. count' <= Len(ports') + turn'
      BY <1>a, <2>1, <2>4, <2>5, <3>1
    <3> QED
      BY <3>1, <3>2 DEF CountInv
<1>2. CASE EnumNeedsMore
  <2>1. Len(Configured) \in 0 .. 1
    BY <1>0 DEF Configured
  <2> QED
    <3>1. /\ pc = "enum" /\ pc' = "enum" /\ ports' = ports
          /\ count' = count + Len(Configured) /\ turn' = turn + 1
      BY <1>2 DEF EnumNeedsMore
    <3>2. count <= turn /\ count <= Len(ports) + turn
      BY <1>0, <3>1 DEF CountInv
    <3>3. count' = count \/ count' = count + 1
      <4> DEFINE n == Len(Configured)
      <4>1. n = 0 \/ n = 1
        BY <2>1
      <4>2. count' = count + n
        BY <3>1
      <4> HIDE DEF n
      <4> QED
        BY <1>a, <4>1, <4>2
    <3>4. count' <= turn' /\ count' <= Len(ports) + turn'
      BY <1>a, <3>1, <3>2, <3>3
    <3> QED
      BY <3>1, <3>4 DEF CountInv
<1>3. CASE Round
  <2>1. i' = 1 /\ ((pc' = "open" /\ count > 0) \/ pc' = "wait")
    BY <1>3 DEF Round
  <2> QED
    BY <1>0, <1>3, <1>a, <2>1 DEF CountInv, Round
<1>4. CASE Open
  <2>1. pc' = "opened" \/ pc' = "next"
    BY <1>4 DEF Open
  <2> QED
    BY <1>0, <1>4, <2>1 DEF CountInv, Open
<1>5. CASE Store
  BY <1>0, <1>5 DEF CountInv, Store
<1>6. CASE Found
  BY <1>0, <1>6 DEF CountInv, Found
<1>7. CASE NotFound
  BY <1>0, <1>7 DEF CountInv, NotFound
<1>8. CASE NextEntry
  <2>1. (pc' = "open" /\ i < count) \/ pc' = "wait"
    BY <1>8 DEF NextEntry
  <2> QED
    BY <1>0, <1>8, <1>a, <2>1 DEF CountInv, NextEntry
<1>9. CASE Wait
  BY <1>0, <1>9 DEF CountInv, Wait
<1>10. CASE Lost
  BY <1>10 DEF CountInv, Lost, Start
<1>11. CASE SetConfiguration
  <2>1. CASE Start
    BY <2>1 DEF CountInv, Start
  <2>2. CASE /\ (pc = "test" /\ pc' = "next") \/ pc' = "gone"
             /\ UNCHANGED <<enumeration, i, tried>>
    BY <1>0, <2>2 DEF CountInv
  <2>3. CASE UNCHANGED <<comm, pc, enumeration, i, tried>>
    BY <1>0, <2>3 DEF CountInv
  <2> QED
    BY <1>11, <2>1, <2>2, <2>3 DEF SetConfiguration, Reconnect, Drop
<1>12. CASE DeviceMove
  BY <1>0, <1>12 DEF CountInv, DeviceMove
<1>13. CASE PortPlug
  BY <1>0, <1>13 DEF CountInv, PortPlug
<1>14. CASE UNCHANGED vars
  BY <1>0, <1>14 DEF CountInv, vars
<1>15. CASE End
  BY <1>0, <1>15 DEF CountInv, End
<1> QED
  BY <1>1, <1>2, <1>3, <1>4, <1>5, <1>6, <1>7, <1>8, <1>9, <1>10, <1>11, <1>12,
     <1>13, <1>14, <1>15 DEF Next, Searching

LEMMA InvHolds == SafeSpec => []Inv
<1>1. Inv /\ [Next]_vars => Inv'
  BY TypePreserved, LinkPreserved, CountPreserved DEF Inv
<1> QED
  BY <1>1, InitInv, PTL DEF SafeSpec

-----------------------------------------------------------------------------
\* Every variable keeps its type, whatever is configured, moved and plugged.
THEOREM SearchTypeCorrect == SafeSpec => []TypeOK
<1>1. Inv => TypeOK
  BY DEF Inv
<1> QED
  BY <1>1, InvHolds, PTL

\* The search stays in its list but for the failed turns of its enumeration.
THEOREM SearchStaysInList == SafeSpec => []EntriesInList
<1>1. Inv => EntriesInList
  <2> SUFFICES ASSUME Inv, pc = "open" PROVE i <= Len(ports) + turn
    BY DEF EntriesInList
  <2>1. i \in Nat /\ count \in Nat /\ Len(ports) \in Nat /\ turn \in Nat
    BY DEF Inv, TypeOK
  <2> QED
    BY <2>1 DEF Inv, CountInv
<1> QED
  BY <1>1, InvHolds, PTL

\* What IcBox_getConfiguration reports of a connection is how it was opened.
THEOREM SettingsAreOfConnection == SafeSpec => []SettingsOfConnection
<1>1. Inv => SettingsOfConnection
  BY DEF Inv, LinkInv
<1> QED
  BY <1>1, InvHolds, PTL

\* Wherever the cycle is, its next step brings every other rate nearer.
LEMMA NextRateNears ==
  ASSUME TypeOK, Wait, NEW r \in Indices, baundIndex # r
  PROVE  Distance(r)' < Distance(r)
<1> DEFINE n == Len(BaundValues)
           index == (baundIndex % n) + 1
<1>1. n \in Nat \ {0} /\ baundIndex \in 1 .. n /\ r \in 1 .. n /\ tried \in 1 .. 3
  BY IndicesRange DEF TypeOK
<1>2. index = IF baundIndex = n THEN 1 ELSE baundIndex + 1
  BY <1>1, FollowingIndex
<1>3. baundIndex' = NextRate(index)[1] /\ tried' = NextRate(index)[2]
  BY DEF Wait
<1> HIDE DEF index
<1>4. CASE tried < 3 /\ BaundValues[index] > RepeatBaund
  <2>1. baundIndex' = 1 /\ tried' = tried + 1
    BY <1>3, <1>4 DEF NextRate
  <2> QED
    BY <1>1, <1>4, <2>1 DEF Distance
<1>5. CASE tried < 3 /\ ~(BaundValues[index] > RepeatBaund)
  <2>1. index # 1
    BY <1>5, FirstIsFast
  <2>2. baundIndex' = baundIndex + 1 /\ tried' = tried
    BY <1>1, <1>2, <1>3, <1>5, <2>1 DEF NextRate
  <2> QED
    BY <1>1, <1>2, <1>5, <2>1, <2>2 DEF Distance
<1>6. CASE tried = 3 /\ index = 1
  <2>1. baundIndex' = 1 /\ tried' = 1
    BY <1>3, <1>6 DEF NextRate
  <2> QED
    BY <1>1, <1>2, <1>6, <2>1 DEF Distance
<1>7. CASE tried = 3 /\ index # 1
  <2>1. baundIndex' = baundIndex + 1 /\ tried' = 3
    BY <1>1, <1>2, <1>3, <1>7 DEF NextRate
  <2> QED
    BY <1>1, <1>2, <1>7, <2>1 DEF Distance
<1> QED
  BY <1>1, <1>4, <1>5, <1>6, <1>7

\* No rate is left out of the search for ever.
THEOREM EveryRateComesUp == SafeSpec => RatesComeUp
<1>1. Inv /\ [Next]_vars => [NearsEveryRate]_vars
  <2> SUFFICES ASSUME Inv, Next, pc = "wait", pc' # "wait", NEW r \in Indices,
                      baundIndex # r
               PROVE  Distance(r)' < Distance(r)
    BY DEF NearsEveryRate
  <2>1. Wait
    BY DEF Next, Searching, EnumEnds, EnumNeedsMore, Round, Open, Store, Found,
           End, NotFound, NextEntry, Lost, SetConfiguration, DeviceMove, PortPlug
  <2> QED
    BY <2>1, NextRateNears DEF Inv
<1> QED
  BY <1>1, InvHolds, PTL DEF SafeSpec, RatesComeUp

=============================================================================
