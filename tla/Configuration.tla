--------------------------- MODULE Configuration ---------------------------
(***************************************************************************)
(* The settings of an instance and their text: IcBox_setConfiguration      *)
(* reads it property by property, IcBox_getConfiguration prints it piece   *)
(* by piece, while the search writes the port and the rate and opens ports *)
(* with what is there.  Text is a sequence of tokens: names of properties, *)
(* ":", ";" and values.                                                    *)
(***************************************************************************)
EXTENDS Integers, Sequences, StringBuilder

CONSTANTS
  Decimal,      \* a number's digits, for the numbers that occur
  Lower,        \* the lower case of the tokens that have some upper case
  BufferSize,   \* PROPERY_BUFFER_SIZE
  Garbage,      \* what buff may hold before it is written
  Pairs,        \* properties and values, as an application may write them
  MaxPairs,     \* bound: pairs in a text
  OtherTexts,   \* texts that are not of the documented form
  Found,        \* the ports and rates the search stores
  Closed,       \* no port is open
  MaxTexts,     \* bound: calls of IcBox_setConfiguration, IcBox_create's included
  MaxStores     \* bound: times the search stores a port or a rate

\* In the order in which they are read and printed.
Keys == <<"port", "baund", "data", "stop", "parity", "flow",
          "timeout", "retry", "alive">>

\* What ends the value of a property.
Semicolon == ";"

KeySet == {Keys[n] : n \in DOMAIN Keys}
CommKeys == {"baund", "data", "stop", "parity", "flow"}

Words == [stop |-> {"1", "1.5", "2"},
          parity |-> {"none", "odd", "even", "mark", "space"},
          flow |-> {"none", "xonxoff", "rtscts", "dsrdtr"}]

\* The least value of an interval that is accepted.
Least == [timeout |-> 50, retry |-> 0, alive |-> 1000]

Defaults == [port |-> <<>>, baund |-> 115200, data |-> 8, stop |-> "1",
             parity |-> "none", flow |-> "none",
             timeout |-> 1000, retry |-> 1500, alive |-> 10000]

\* The numbers that occur.
Numbers == DOMAIN Decimal

ASSUME SizesNat ==
  BufferSize \in Nat /\ MaxPairs \in Nat /\ MaxTexts \in Nat /\ MaxStores \in Nat
ASSUME NumbersHaveDigits ==
  /\ Numbers \subseteq Int /\ \A n \in Numbers : Decimal[n] \in Tokens
  /\ \A n \in Numbers : n % 256 \in Numbers
  /\ {0, Defaults.baund, Defaults.data} \union {Defaults[key] : key \in DOMAIN Least}
       \subseteq Numbers
ASSUME TokensSuffice ==
  /\ {":", Semicolon} \union KeySet \subseteq Tokens
  /\ \A key \in DOMAIN Words : Words[key] \subseteq Tokens
ASSUME TextsAreTexts ==
  /\ Pairs \subseteq Tokens \X Tokens
  /\ OtherTexts \subseteq Texts /\ Garbage \subseteq Texts
  /\ Found.port \subseteq Texts /\ Found.baund \subseteq Numbers

VARIABLES
  settings,     \* port, commSettings and the three intervals of lib
  builder,      \* lib->config
  driver,       \* the settings of the open port (its DCB), or Closed
  linked,       \* whether the open port is lib->comm
  missed,       \* history: settings changed after the port took them and before
                \* it became lib->comm
  pc,           \* what the application does: "out", "set", "print", "told"
  at,           \* the property it is at
  text,         \* the text it configures
  buff,         \* the local buffer of IcBox_setConfiguration
  changed,      \* its portChanged or commSettingsChanged
  wanted,       \* history: the settings the text asks for
  stored,       \* history: properties the search has stored since
  torn,         \* history: it has stored one since the printing began
  pieces,       \* history: what was appended since the printing began
  budget        \* what is left of the bounds

setting == <<text, buff, changed, wanted>>
link == <<driver, linked, missed>>
vars == <<settings, builder, link, pc, at, setting, stored, torn, pieces, budget>>

-----------------------------------------------------------------------------
(***************************************************************************)
(* Reading.                                                                *)
(***************************************************************************)
Lowered(token) == IF token \in DOMAIN Lower THEN Lower[token] ELSE token

\* The least member of a set of positions, or 0 if there is none.
First(positions) ==
  LET least == {a \in positions : \A b \in positions : a <= b}
  IN  IF least = {} THEN 0 ELSE CHOOSE a \in least : TRUE

Positions(token, t, after) == {a \in DOMAIN t : a > after /\ Lowered(t[a]) = token}

\* Mutant: a value ends with a semicolon only.
GetPropertyTerminated(t, key, old) ==
  LET keyAt == First(Positions(key, t, 0))
      colon == IF keyAt = 0 THEN 0 ELSE First(Positions(":", t, keyAt))
      end == First(Positions(Semicolon, t, colon))
      value == SubSeq(t, colon + 1, end - 1)
  IN  [found |-> colon # 0, buff |-> IF BufferSize < Len(value) THEN old ELSE value]

\* _IcBox_getProperty: what is between the colon after the first occurrence of
\* the key and the next semicolon or the end.  A value that is longer than the
\* buffer is reported as found, and the buffer is as it was.
GetProperty(t, key, old) ==
  LET keyAt == First(Positions(key, t, 0))
      colon == IF keyAt = 0 THEN 0 ELSE First(Positions(":", t, keyAt))
      semicolon == First(Positions(Semicolon, t, colon))
      end == IF semicolon = 0 THEN Len(t) + 1 ELSE semicolon
      value == SubSeq(t, colon + 1, end - 1)
  IN  [found |-> colon # 0, buff |-> IF BufferSize < Len(value) THEN old ELSE value]

\* atoi
NumberOf(value) ==
  IF \E n \in DOMAIN Decimal : value = <<Decimal[n]>>
    THEN CHOOSE n \in DOMAIN Decimal : value = <<Decimal[n]>> ELSE 0

\* Mutant: an interval is accepted whatever it is.
ConvertedUnlimited(key, value, old) ==
  CASE key = "port" -> value
    [] key = "data" -> NumberOf(value) % 256
    [] key \in DOMAIN Words ->
         IF \E w \in Words[key] : value = <<w>> THEN value[1] ELSE Defaults[key]
    [] OTHER -> NumberOf(value)

\* What a property becomes: the byte data wraps around, an unknown word is the
\* default, an interval below its least value is not accepted.
Converted(key, value, old) ==
  CASE key = "port" -> value
    [] key = "baund" -> NumberOf(value)
    [] key = "data" -> NumberOf(value) % 256
    [] key \in DOMAIN Words ->
         IF \E w \in Words[key] : value = <<w>> THEN value[1] ELSE Defaults[key]
    [] key \in DOMAIN Least ->
         IF NumberOf(value) >= Least[key] THEN NumberOf(value) ELSE old

\* Mutant: a new flow control does not count as a change.
IsChangeButFlow(key, value, old) ==
  IF key = "port" THEN value # old ELSE key \in CommKeys \ {"flow"}

\* Whether a property that was found makes the instance connect again.
IsChange(key, value, old) == IF key = "port" THEN value # old ELSE key \in CommKeys

\* What reading one property does to the settings and the locals.
Reading(key, t, st) ==
  LET property == GetProperty(t, key, st.buff)
  IN  IF ~property.found THEN st
      ELSE [settings |-> [st.settings EXCEPT ![key] = Converted(key, property.buff, @)],
            buff |-> property.buff,
            changed |-> st.changed \/ IsChange(key, property.buff, st.settings[key])]

Init ==
  /\ settings = Defaults
  /\ builder = NewBuilder
  /\ driver = Closed /\ linked = FALSE /\ missed = FALSE
  /\ pc = "out" /\ at = 1
  /\ text = <<>> /\ buff = <<>> /\ changed = FALSE
  /\ wanted = Defaults
  /\ stored = {} /\ torn = FALSE /\ pieces = <<>>
  /\ budget = [texts |-> MaxTexts, stores |-> MaxStores]

\* The documented form: pairs, each property once, separated by semicolons, of
\* which the last is optional.
PairLists ==
  {list \in UNION {[1 .. n -> Pairs] : n \in 1 .. MaxPairs} :
     \A a, b \in DOMAIN list : Lowered(list[a][1]) = Lowered(list[b][1]) => a = b}

TextOf(list, terminated) ==
  [a \in 1 .. 4 * Len(list) - (IF terminated THEN 0 ELSE 1) |->
     LET pair == list[((a - 1) \div 4) + 1]
     IN  <<pair[1], ":", pair[2], Semicolon>>[((a - 1) % 4) + 1]]

\* Names and values are no separators, and a value is not the name of a
\* property and fits the buffer.
ASSUME PairsDocumented ==
  /\ BufferSize > 0
  /\ Lowered(":") = ":" /\ Lowered(Semicolon) = Semicolon
  /\ \A pair \in Pairs :
       Lowered(pair[1]) \notin {":", Semicolon} /\ Lowered(pair[2]) \notin {":", Semicolon} \union KeySet

\* A port is shorter than the buffer and than what is formatted at once (the
\* library keeps eight characters of it), and no part of it is a name.
PlainPort(port) ==
  /\ Len(port) <= BufferSize /\ Len(port) + 3 < Alloc
  /\ \A n \in DOMAIN port : Lowered(port[n]) \notin {Semicolon} \union KeySet

ASSUME PortsArePlain ==
  /\ Alloc > 4
  /\ \A port \in Found.port : PlainPort(port)
  /\ \A t \in OtherTexts, old \in Garbage :
       LET property == GetProperty(t, "port", old)
       IN  property.found => PlainPort(property.buff)

\* Names are lower case, and what is printed as a value is none.
ASSUME ValuesArePlain ==
  /\ \A key \in KeySet : Lowered(key) = key
  /\ \A value \in {Decimal[n] : n \in Numbers} \union UNION {Words[key] : key \in DOMAIN Words} :
       Lowered(value) \notin {":", Semicolon} \union KeySet
  /\ \A m, n \in Numbers : Decimal[m] = Decimal[n] => m = n

\* What a list of pairs asks for.
Wanted(list) ==
  [key \in KeySet |->
     IF \E n \in DOMAIN list : Lowered(list[n][1]) = key
       THEN LET n == CHOOSE n \in DOMAIN list : Lowered(list[n][1]) = key
            IN  Converted(key, <<list[n][2]>>, settings[key])
       ELSE settings[key]]

SetConfiguration ==
  /\ pc = "out"
  /\ budget.texts > 0
  /\ budget' = [budget EXCEPT !.texts = @ - 1]
  /\ \/ \E list \in PairLists, terminated \in BOOLEAN :
          text' = TextOf(list, terminated) /\ wanted' = Wanted(list) /\ stored' = {}
     \/ text' \in OtherTexts /\ wanted' = wanted /\ stored' = KeySet
  /\ buff' \in Garbage
  /\ changed' = FALSE
  /\ pc' = "set" /\ at' = 1
  /\ UNCHANGED <<settings, builder, link, torn, pieces>>

SetProperty ==
  /\ pc = "set"
  /\ at <= Len(Keys)
  /\ \E st \in {Reading(Keys[at], text,
                        [settings |-> settings, buff |-> buff, changed |-> changed])} :
       settings' = st.settings /\ buff' = st.buff /\ changed' = st.changed
  /\ at' = at + 1
  /\ UNCHANGED <<builder, link, pc, text, wanted, stored, torn, pieces, budget>>

\* If something changed, the port is configured and closed (the reconnect that
\* follows is in module Connection); but if lib->comm is NULL, nothing is done,
\* even if thConnect has just opened a port.
SetEnds ==
  /\ pc = "set"
  /\ at > Len(Keys)
  /\ IF changed /\ linked
       THEN driver' = Closed /\ linked' = FALSE /\ UNCHANGED missed
       ELSE missed' = (missed \/ (changed /\ driver # Closed)) /\ UNCHANGED <<driver, linked>>
  /\ pc' = "out"
  /\ UNCHANGED <<settings, builder, at, setting, stored, torn, pieces, budget>>

-----------------------------------------------------------------------------
(***************************************************************************)
(* Printing.                                                               *)
(***************************************************************************)
GetConfiguration ==
  /\ pc = "out"
  /\ builder' = Cleared(builder)
  /\ pc' = "print" /\ at' = 1
  /\ torn' = FALSE /\ pieces' = <<>>
  /\ UNCHANGED <<settings, link, setting, stored, budget>>

ValueText(key) ==
  CASE key = "port" -> settings[key]
    [] key \in DOMAIN Words -> <<settings[key]>>
    [] OTHER -> <<Decimal[settings[key]]>>

\* One property: words are appended, the rest is formatted; an empty port is
\* left out.
PrintProperty ==
  /\ pc = "print"
  /\ at <= Len(Keys)
  /\ \E key \in {Keys[at]} :
       LET piece == <<key, ":">> \o ValueText(key) \o <<Semicolon>>
       IN  /\ builder' =
                IF key = "port" /\ settings.port = <<>> THEN builder
                ELSE IF key \in DOMAIN Words
                  THEN AppendTo(AppendTo(builder, <<key, ":">>), ValueText(key) \o <<Semicolon>>)
                ELSE FormatTo(builder, piece)
           /\ pieces' = IF key = "port" /\ settings.port = <<>> THEN pieces
                                                                 ELSE pieces \o piece
  /\ at' = at + 1
  /\ UNCHANGED <<settings, link, pc, setting, stored, torn, budget>>

PrintEnds ==
  /\ pc = "print"
  /\ at > Len(Keys)
  /\ builder' = Collected(builder)
  /\ pc' = "told"
  /\ UNCHANGED <<settings, link, at, setting, stored, torn, pieces, budget>>

\* The application has the text.
Told ==
  /\ pc = "told"
  /\ pc' = "out"
  /\ UNCHANGED <<settings, builder, link, at, setting, stored, torn, pieces, budget>>

-----------------------------------------------------------------------------
(***************************************************************************)
(* The search (module Search), as far as it touches the settings.          *)
(***************************************************************************)

\* CommPort_createEx configures the port it opens, with the settings at hand.
Dcb == [key \in CommKeys |-> settings[key]]

Open ==
  /\ driver = Closed
  /\ driver' = Dcb
  /\ missed' = FALSE
  /\ UNCHANGED <<settings, builder, linked, pc, at, setting, stored, torn, pieces, budget>>

\* lib->comm = comm
Link ==
  /\ driver # Closed
  /\ linked' = TRUE
  /\ UNCHANGED <<settings, builder, driver, missed, pc, at, setting, stored, torn, pieces,
                 budget>>

Close ==
  /\ linked
  /\ driver' = Closed /\ linked' = FALSE
  /\ UNCHANGED <<settings, builder, missed, pc, at, setting, stored, torn, pieces, budget>>

\* A port that was opened is found, even if it has been closed since; a rate is
\* put there between two rounds.
Store ==
  /\ budget.stores > 0
  /\ budget' = [budget EXCEPT !.stores = @ - 1]
  /\ linked \/ driver = Closed
  /\ \E key \in {"port", "baund"} :
       /\ key = "baund" => driver = Closed
       /\ settings' \in {[settings EXCEPT ![key] = value] : value \in Found[key]}
       /\ stored' = stored \union {key}
  /\ torn' = TRUE
  /\ UNCHANGED <<builder, link, pc, at, setting, pieces>>

Next ==
  \/ SetConfiguration \/ SetProperty \/ SetEnds
  \/ GetConfiguration \/ PrintProperty \/ PrintEnds \/ Told
  \/ Open \/ Link \/ Close \/ Store

Spec == Init /\ [][Next]_vars

-----------------------------------------------------------------------------
SettingsOK(st) ==
  /\ DOMAIN st = KeySet
  /\ st.port \in Texts
  /\ st.baund \in Numbers /\ st.data \in Numbers \intersect 0 .. 255
  /\ \A key \in DOMAIN Words : st[key] \in Words[key]
  /\ \A key \in DOMAIN Least : st[key] \in Numbers /\ st[key] >= Least[key]

\* Every variable has its type: the intervals are accepted ones, and all the
\* buffers of the builder but the last are full.
TypeOK ==
  /\ SettingsOK(settings)
  /\ BuilderOK(builder)
  /\ text \in Texts /\ buff \in Texts
  /\ pc \in {"out", "set", "print", "told"} /\ at \in 1 .. Len(Keys) + 1
  /\ changed \in BOOLEAN /\ torn \in BOOLEAN
  /\ linked \in BOOLEAN /\ missed \in BOOLEAN
  /\ stored \subseteq KeySet
  /\ budget \in [texts : Nat, stores : Nat]

\* A text of the documented form sets what it names to the value it gives and
\* nothing else, in any order of its properties and any case of their names,
\* with or without a last semicolon; but for what the search stores after it.
DocumentedTextWorks ==
  pc # "set" => \A key \in KeySet \ stored : settings[key] = wanted[key]

\* What IcBox_getConfiguration prints gives a new instance the settings of
\* this one, unless the search stored something while it was printed.
RoundTrip ==
  LET read[n \in 0 .. Len(Keys)] ==
        IF n = 0 THEN [settings |-> Defaults, buff |-> <<>>, changed |-> FALSE]
                 ELSE Reading(Keys[n], builder.data, read[n - 1])
  IN  pc = "told" /\ ~torn => settings = read[Len(Keys)].settings

\* What is printed is all that was appended since the printing began, although
\* data is put together only if something has changed.
DataIsContent ==
  /\ pc = "told" => builder.data = pieces
  /\ pc = "print" => Content(builder) = pieces

\* An open port works with the settings of the instance once the application
\* has configured them, unless they changed after the port took them and before
\* it became lib->comm.
DriverFollows == pc # "set" /\ driver # Closed /\ ~missed => driver = Dcb

=============================================================================
