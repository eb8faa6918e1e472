--------------------------- MODULE StringBuilder ---------------------------
(***************************************************************************)
(* StringBuilder.c: a text that is collected in a list of buffers and put  *)
(* together when it is asked for.  A text is a sequence of tokens, each of *)
(* which counts as one character.                                          *)
(***************************************************************************)
EXTENDS Naturals, Sequences

CONSTANTS
  Tokens,  \* what texts are made of
  Alloc,   \* DEFAULT_ALLOC
  Nul      \* the terminator vsnprintf puts behind what it wrote

ASSUME BuffersHoldText == Alloc \in Nat \ {0} /\ Nul \in Tokens

Texts == Seq(Tokens)

\* StringBuilder_create
NewBuilder == [chunks |-> <<>>, length |-> 0, data |-> <<>>, changed |-> FALSE]

\* BufferItem_new
NewChunk(text) ==
  [text |-> text,
   allocated |-> IF Len(text) > Alloc THEN (12 * Len(text)) \div 10 ELSE Alloc]

Room(chunk) == chunk.allocated - Len(chunk.text)

Filled(chunk, text) == [chunk EXCEPT !.text = @ \o text]

\* Mutant: what did not fit into the last buffer is forgotten.
ChunksWithRoomOnly(chunks, text) ==
  IF chunks = <<>> THEN <<NewChunk(text)>>
  ELSE LET n == Len(chunks)
           room == Room(chunks[n])
       IN  IF Len(text) <= room THEN [chunks EXCEPT ![n] = Filled(@, text)]
           ELSE [chunks EXCEPT ![n] = Filled(@, SubSeq(text, 1, room))]

\* The last buffer is filled before a new one is made.
ChunksWith(chunks, text) ==
  IF chunks = <<>> THEN <<NewChunk(text)>>
  ELSE LET n == Len(chunks)
           room == Room(chunks[n])
       IN  IF Len(text) <= room THEN [chunks EXCEPT ![n] = Filled(@, text)]
           ELSE [chunks EXCEPT ![n] = Filled(@, SubSeq(text, 1, room))]
                  \o <<NewChunk(SubSeq(text, room + 1, Len(text)))>>

\* StringBuilder_append
AppendTo(builder, text) ==
  [builder EXCEPT !.chunks = ChunksWith(@, text),
                  !.length = @ + Len(text),
                  !.changed = TRUE]

\* Mutant: a text that just fits is formatted again, too.
FormatToTight(builder, text) ==
  AppendTo(builder, IF Len(text) < Alloc - 1 THEN text
                                             ELSE [text EXCEPT ![Len(text)] = Nul])

\* StringBuilder_appendFormat: a text that does not fit the first buffer is
\* formatted again into one that lacks room for its terminator.
FormatTo(builder, text) ==
  AppendTo(builder, IF Len(text) < Alloc THEN text
                                         ELSE [text EXCEPT ![Len(text)] = Nul])

\* What the buffers hold, one copied behind the other.
Content(builder) ==
  LET copied[n \in 0 .. Len(builder.chunks)] ==
        IF n = 0 THEN <<>> ELSE copied[n - 1] \o builder.chunks[n].text
  IN  copied[Len(builder.chunks)]

\* StringBuilder_getData puts data together, unless nothing has changed.
Collected(builder) ==
  IF ~builder.changed THEN builder
                      ELSE [builder EXCEPT !.data = Content(builder), !.changed = FALSE]

\* StringBuilder_clear
Cleared(builder) ==
  IF builder.length # 0 THEN NewBuilder ELSE [builder EXCEPT !.chunks = <<>>]

Chunk == [text : Texts, allocated : Nat]

\* All the buffers but the last are full.
BuilderOK(builder) ==
  /\ DOMAIN builder = {"chunks", "length", "data", "changed"}
  /\ builder.chunks \in Seq(Chunk)
  /\ builder.length \in Nat /\ builder.changed \in BOOLEAN
  /\ \A n \in DOMAIN builder.chunks :
       LET room == Room(builder.chunks[n])
       IN  room >= 0 /\ (n < Len(builder.chunks) => room = 0)

=============================================================================
