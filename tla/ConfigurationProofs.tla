------------------------- MODULE ConfigurationProofs -------------------------
(***************************************************************************)
(* Theorems about module Configuration, for every text an application may  *)
(* configure and every size of the buffers.                                *)
(***************************************************************************)
EXTENDS Configuration, SequenceTheorems, WellFoundedInduction, TLAPS

-----------------------------------------------------------------------------
(***************************************************************************)
(* The string builder.                                                     *)
(***************************************************************************)
\* A new buffer has room for its text.
LEMMA NewChunkType ==
  ASSUME NEW t \in Texts
  PROVE  NewChunk(t) \in Chunk /\ Room(NewChunk(t)) >= 0
<1>1. Len(t) \in Nat
  BY DEF Texts
<1>2. (12 * Len(t)) \div 10 \in Nat /\ (12 * Len(t)) \div 10 >= Len(t)
  BY <1>1
<1>3. QED
  BY <1>1, <1>2, BuffersHoldText DEF NewChunk, Chunk, Room

\* A buffer takes what it has room for.
LEMMA FilledType ==
  ASSUME NEW c \in Chunk, NEW t \in Texts, Len(t) <= Room(c)
  PROVE  /\ Filled(c, t) \in Chunk
         /\ Room(Filled(c, t)) = Room(c) - Len(t)
<1>1. c.text \o t \in Texts /\ Len(c.text \o t) = Len(c.text) + Len(t)
  BY DEF Chunk, Texts
<1>2. c.allocated \in Nat /\ Len(c.text) \in Nat /\ Len(t) \in Nat
  BY DEF Chunk, Texts
<1>3. /\ Filled(c, t).text = c.text \o t
      /\ Filled(c, t).allocated = c.allocated
      /\ Filled(c, t) \in Chunk
  BY <1>1, <1>2 DEF Chunk, Filled
<1>4. Room(Filled(c, t)) = c.allocated - (Len(c.text) + Len(t))
  BY <1>1, <1>3 DEF Room
<1>5. Room(c) = c.allocated - Len(c.text)
  BY DEF Room
<1>6. QED
  BY <1>2, <1>3, <1>4, <1>5

\* A part of a text.
LEMMA PartType ==
  ASSUME NEW t \in Texts, NEW a \in Nat \ {0}, NEW b \in Nat, b <= Len(t)
  PROVE  /\ SubSeq(t, a, b) \in Texts
         /\ Len(SubSeq(t, a, b)) = IF a <= b THEN b - a + 1 ELSE 0
<1>1. \A c \in a .. b : t[c] \in Tokens
  BY DEF Texts
<1>2. QED
  BY <1>1, SubSeqProperties DEF Texts

\* Appending keeps all the buffers but the last full.
LEMMA AppendType ==
  ASSUME NEW b, BuilderOK(b), NEW t \in Texts
  PROVE  BuilderOK(AppendTo(b, t))
<1> DEFINE chunks == b.chunks
           n == Len(chunks)
           room == Room(chunks[n])
           new == ChunksWith(chunks, t)
<1>1. chunks \in Seq(Chunk) /\ Len(t) \in Nat
  BY DEF BuilderOK, Texts
<1>2. /\ AppendTo(b, t).chunks = new
      /\ AppendTo(b, t).length = b.length + Len(t)
      /\ AppendTo(b, t).changed = TRUE
      /\ DOMAIN AppendTo(b, t) = {"chunks", "length", "data", "changed"}
  BY DEF AppendTo, BuilderOK
<1>3. SUFFICES /\ new \in Seq(Chunk)
               /\ \A k \in DOMAIN new :
                    Room(new[k]) >= 0 /\ (k < Len(new) => Room(new[k]) = 0)
  <2>1. b.length \in Nat /\ b.length + Len(t) \in Nat
    BY <1>1 DEF BuilderOK
  <2> DEFINE c == AppendTo(b, t)
  <2>2. /\ c.chunks \in Seq(Chunk) /\ c.length \in Nat /\ c.changed \in BOOLEAN
        /\ \A k \in DOMAIN c.chunks :
             Room(c.chunks[k]) >= 0 /\ (k < Len(c.chunks) => Room(c.chunks[k]) = 0)
    BY <1>2, <1>3, <2>1
  <2>3. QED
    BY <1>2, <2>2 DEF BuilderOK
<1>4. CASE chunks = <<>>
  <2>1. new = <<NewChunk(t)>>
    BY <1>4 DEF ChunksWith
  <2>2. QED
    BY <2>1, NewChunkType
<1>5. CASE chunks # <<>> /\ Len(t) <= room
  <2>1. n \in Nat \ {0} /\ n \in DOMAIN chunks /\ chunks[n] \in Chunk
    BY <1>1, <1>5
  <2>2. new = [chunks EXCEPT ![n] = Filled(@, t)]
    BY <1>5 DEF ChunksWith
  <2>3. Filled(chunks[n], t) \in Chunk /\ Room(Filled(chunks[n], t)) >= 0
    <3>1. room \in Int
      BY <2>1 DEF Room, Chunk, Texts
    <3>2. QED
      BY <1>1, <1>5, <2>1, <3>1, FilledType
  <2>4. new \in Seq(Chunk) /\ Len(new) = n
    BY <1>1, <2>1, <2>2, <2>3
  <2>5. ASSUME NEW k \in DOMAIN new
        PROVE  Room(new[k]) >= 0 /\ (k < Len(new) => Room(new[k]) = 0)
    BY <1>1, <2>1, <2>2, <2>3, <2>4 DEF BuilderOK
  <2>6. QED
    BY <2>4, <2>5
<1>6. CASE chunks # <<>> /\ ~(Len(t) <= room)
  <2> DEFINE full == [chunks EXCEPT ![n] = Filled(@, SubSeq(t, 1, room))]
             rest == NewChunk(SubSeq(t, room + 1, Len(t)))
  <2>1. n \in Nat \ {0} /\ n \in DOMAIN chunks /\ chunks[n] \in Chunk
    BY <1>1, <1>6
  <2>2. new = full \o <<rest>>
    BY <1>6 DEF ChunksWith
  <2>3. room \in Nat /\ room < Len(t)
    <3>1. room \in Int
      BY <2>1 DEF Room, Chunk, Texts
    <3>2. room >= 0
      BY <2>1 DEF BuilderOK
    <3>3. QED
      BY <1>1, <1>6, <3>1, <3>2
  <2>4. /\ SubSeq(t, 1, room) \in Texts /\ Len(SubSeq(t, 1, room)) = room
        /\ SubSeq(t, room + 1, Len(t)) \in Texts
    BY <1>1, <2>3, PartType
  <2>5. /\ Filled(chunks[n], SubSeq(t, 1, room)) \in Chunk
        /\ Room(Filled(chunks[n], SubSeq(t, 1, room))) = 0
    <3> DEFINE part == SubSeq(t, 1, room)
    <3>1. part \in Texts /\ Len(part) <= Room(chunks[n])
      BY <2>3, <2>4
    <3> HIDE DEF part
    <3>2. /\ Filled(chunks[n], part) \in Chunk
          /\ Room(Filled(chunks[n], part)) = Room(chunks[n]) - Len(part)
      BY <2>1, <3>1, FilledType
    <3>3. QED
      BY <2>3, <2>4, <3>2 DEF part
  <2>6. rest \in Chunk /\ Room(rest) >= 0
    BY <2>4, NewChunkType
  <2>7. full \in Seq(Chunk) /\ Len(full) = n
    BY <1>1, <2>1, <2>5
  <2>8. \A k \in 1 .. n : Room(full[k]) = 0
    BY <1>1, <2>1, <2>5 DEF BuilderOK
  <2>9. /\ new \in Seq(Chunk) /\ Len(new) = n + 1
        /\ \A k \in 1 .. n : new[k] = full[k]
        /\ new[n + 1] = rest
    BY <2>1, <2>2, <2>6, <2>7
  <2>10. ASSUME NEW k \in DOMAIN new
         PROVE  Room(new[k]) >= 0 /\ (k < Len(new) => Room(new[k]) = 0)
    <3>1. k \in 1 .. n + 1
      BY <2>9
    <3>2. QED
      BY <2>1, <2>6, <2>8, <2>9, <3>1
  <2>11. QED
    BY <2>9, <2>10
<1>7. QED
  BY <1>4, <1>5, <1>6

\* A sequence of which one element is replaced.
LEMMA ReplacedType ==
  ASSUME NEW S, NEW t \in Seq(S), NEW k \in DOMAIN t, NEW x \in S
  PROVE  [t EXCEPT ![k] = x] \in Seq(S)
OBVIOUS

\* Formatting replaces the last character at most.
LEMMA FormatType ==
  ASSUME NEW b, BuilderOK(b), NEW t \in Texts
  PROVE  BuilderOK(FormatTo(b, t))
<1> DEFINE cut == IF Len(t) < Alloc THEN t ELSE [t EXCEPT ![Len(t)] = Nul]
<1>1. cut \in Texts
  <2>1. CASE Len(t) < Alloc
    BY <2>1
  <2>2. CASE ~(Len(t) < Alloc)
    <3>1. t \in Seq(Tokens) /\ Nul \in Tokens
      BY BuffersHoldText DEF Texts
    <3>2. Len(t) \in DOMAIN t
      BY <2>2, <3>1, BuffersHoldText
    <3>3. [t EXCEPT ![Len(t)] = Nul] \in Seq(Tokens)
      BY <3>1, <3>2, ReplacedType
    <3>4. QED
      BY <2>2, <3>3 DEF Texts
  <2>3. QED
    BY <2>1, <2>2
<1> HIDE DEF cut
<1>2. BuilderOK(AppendTo(b, cut))
  BY <1>1, AppendType
<1>3. QED
  BY <1>2 DEF FormatTo, cut

\* A builder that is new.
LEMMA NewBuilderType == BuilderOK(NewBuilder)
BY DEF NewBuilder, BuilderOK

\* A builder that is cleared or asked for its text.
LEMMA ClearedType ==
  ASSUME NEW b, BuilderOK(b)
  PROVE  BuilderOK(Cleared(b)) /\ BuilderOK(Collected(b))
<1>1. BuilderOK(Cleared(b))
  BY NewBuilderType DEF Cleared, BuilderOK
<1>2. BuilderOK(Collected(b))
  BY DEF Collected, BuilderOK
<1>3. QED
  BY <1>1, <1>2

-----------------------------------------------------------------------------
(***************************************************************************)
(* What the buffers hold.                                                  *)
(***************************************************************************)
\* Some numbers have a least one.
LEMMA LeastExists ==
  ASSUME NEW T \in SUBSET Nat, T # {}
  PROVE  \E o \in T : \A p \in T : o <= p
<1> DEFINE less == {ss \in Nat \X Nat : ss[1] < ss[2]}
<1>1. IsWellFoundedOn(less, Nat)
  BY NatLessThanWellFounded, Zenon DEF OpToRel
<1>2. PICK o \in T : \A p \in T : ~ (<<p, o>> \in less)
  BY ONLY <1>1, WFMin, T \in SUBSET Nat, T # {}
<1>3. ASSUME NEW p \in T PROVE o <= p
  <2>1. p \in Nat /\ o \in Nat
    OBVIOUS
  <2>2. ~ (p < o)
    BY <1>2, <2>1
  <2> QED
    BY <2>1, <2>2
<1> QED
  BY <1>3

\* f[k] is what the first k of n buffers hold together.
CopiesNext(f, chunks, k) == IF k = 0 THEN <<>> ELSE f[k - 1] \o chunks[k].text

Copies(f, chunks, n) == f = [k \in 0 .. n |-> CopiesNext(f, chunks, k)]

LEMMA CopiesStep ==
  ASSUME NEW f, NEW chunks, NEW n \in Nat, Copies(f, chunks, n), NEW k \in 0 .. n
  PROVE  f[k] = CopiesNext(f, chunks, k)
BY DEF Copies

LEMMA CopiesExist ==
  ASSUME NEW chunks, NEW n \in Nat
  PROVE  \E f : Copies(f, chunks, n)
<1> DEFINE T == {k \in 0 .. n : ~ \E f : Copies(f, chunks, k)}
<1> SUFFICES ASSUME T # {} PROVE FALSE
  BY DEF T
<1>1. PICK o \in T : \A p \in T : o <= p
  <2>1. T \in SUBSET Nat
    OBVIOUS
  <2> HIDE DEF T
  <2> QED
    BY <2>1, LeastExists
<1>2. o \in 0 .. n /\ ~ \E f : Copies(f, chunks, o)
  BY <1>1
<1>3. CASE o = 0
  <2>1. Copies([k \in 0 .. 0 |-> <<>>], chunks, 0)
    BY DEF Copies, CopiesNext
  <2> QED
    BY <1>2, <1>3, <2>1
<1>4. CASE o # 0
  <2>1. o - 1 \in 0 .. n /\ o - 1 \notin T
    BY <1>1, <1>2, <1>4
  <2>2. PICK f : Copies(f, chunks, o - 1)
    BY <2>1
  <2> DEFINE g == [k \in 0 .. o |-> IF k = o THEN f[o - 1] \o chunks[o].text ELSE f[k]]
  <2>3. ASSUME NEW k \in 0 .. o PROVE g[k] = CopiesNext(g, chunks, k)
    <3>1. CASE k = o
      <4>1. g[k] = f[o - 1] \o chunks[o].text /\ g[o - 1] = f[o - 1]
        BY <1>2, <1>4, <3>1
      <4> HIDE DEF g
      <4> QED
        BY <1>4, <3>1, <4>1 DEF CopiesNext
    <3>2. CASE k # o
      <4>1. k \in 0 .. o - 1 /\ g[k] = f[k]
        BY <1>2, <3>2
      <4>2. f[k] = CopiesNext(f, chunks, k)
        BY <1>2, <1>4, <2>2, <4>1, CopiesStep
      <4>3. k # 0 => g[k - 1] = f[k - 1]
        BY <1>2, <4>1
      <4> HIDE DEF g
      <4> QED
        BY <4>1, <4>2, <4>3 DEF CopiesNext
    <3> QED
      BY <3>1, <3>2
  <2>4. Copies(g, chunks, o)
    <3>1. g = [k \in 0 .. o |-> CopiesNext(g, chunks, k)]
      BY <2>3
    <3> HIDE DEF g
    <3> QED
      BY <3>1 DEF Copies
  <2> QED
    BY <1>2, <2>4
<1> QED
  BY <1>3, <1>4

\* It depends on those buffers only.
LEMMA CopiesAgree ==
  ASSUME NEW c, NEW d, NEW f, NEW g, NEW n \in Nat, NEW m \in Nat,
         Copies(f, c, n), Copies(g, d, m),
         NEW k \in Nat, k <= n, k <= m, \A i \in 1 .. k : c[i].text = d[i].text
  PROVE  f[k] = g[k]
<1> DEFINE T == {i \in 0 .. k : f[i] # g[i]}
<1> SUFFICES ASSUME T # {} PROVE FALSE
  BY DEF T
<1>1. PICK o \in T : \A p \in T : o <= p
  <2>1. T \in SUBSET Nat
    OBVIOUS
  <2> HIDE DEF T
  <2> QED
    BY <2>1, LeastExists
<1>2. o \in 0 .. k /\ f[o] # g[o]
  BY <1>1
<1>3. f[o] = CopiesNext(f, c, o) /\ g[o] = CopiesNext(g, d, o)
  BY <1>2, CopiesStep
<1>4. o # 0
  BY <1>2, <1>3 DEF CopiesNext
<1>5. o - 1 \in 0 .. k /\ o - 1 \notin T /\ o \in 1 .. k
  BY <1>1, <1>2, <1>4
<1>6. f[o - 1] = g[o - 1]
  BY <1>5
<1> QED
  BY <1>2, <1>3, <1>4, <1>5, <1>6 DEF CopiesNext

LEMMA ContentIs ==
  ASSUME NEW b, b.chunks \in Seq(Chunk)
  PROVE  \E f : Copies(f, b.chunks, Len(b.chunks)) /\ Content(b) = f[Len(b.chunks)]
<1>1. Len(b.chunks) \in Nat
  OBVIOUS
<1> DEFINE f == CHOOSE f : f = [k \in 0 .. Len(b.chunks) |->
                                  IF k = 0 THEN <<>> ELSE f[k - 1] \o b.chunks[k].text]
<1>2. Content(b) = f[Len(b.chunks)]
  BY DEF Content
<1>3. Copies(f, b.chunks, Len(b.chunks))
  BY <1>1, CopiesExist DEF Copies, CopiesNext
<1> QED
  BY <1>2, <1>3

\* The buffers hold texts, together too.
LEMMA CopiesType ==
  ASSUME NEW chunks \in Seq(Chunk), NEW f, Copies(f, chunks, Len(chunks)),
         NEW k \in 0 .. Len(chunks)
  PROVE  f[k] \in Texts
<1> DEFINE T == {i \in 0 .. Len(chunks) : f[i] \notin Texts}
<1> SUFFICES ASSUME T # {} PROVE FALSE
  OBVIOUS
<1>1. PICK o \in T : \A p \in T : o <= p
  <2>1. T \in SUBSET Nat
    OBVIOUS
  <2> HIDE DEF T
  <2> QED
    BY <2>1, LeastExists
<1>2. o \in 0 .. Len(chunks) /\ f[o] \notin Texts /\ Len(chunks) \in Nat
  BY <1>1
<1>3. f[o] = CopiesNext(f, chunks, o)
  BY <1>2, CopiesStep
<1>4. o # 0
  BY <1>2, <1>3 DEF Texts, CopiesNext
<1>5. o - 1 \in 0 .. Len(chunks) /\ o - 1 \notin T /\ o \in 1 .. Len(chunks)
  BY <1>1, <1>2, <1>4
<1>6. chunks[o] \in Chunk
  BY <1>5
<1>7. f[o - 1] \in Texts /\ chunks[o].text \in Texts
  BY <1>5, <1>6 DEF Chunk
<1> QED
  BY <1>2, <1>3, <1>4, <1>7 DEF Texts, CopiesNext

LEMMA ContentType ==
  ASSUME NEW b, b.chunks \in Seq(Chunk)
  PROVE  Content(b) \in Texts
<1>1. Len(b.chunks) \in 0 .. Len(b.chunks)
  OBVIOUS
<1> QED
  BY <1>1, ContentIs, CopiesType

LEMMA TextsAssociate == \A s, t, u \in Texts : (s \o t) \o u = s \o (t \o u)
<1>1. \A s, t, u \in Seq(Tokens) : (s \o t) \o u = s \o (t \o u)
  BY ConcatAssociative
<1> QED
  BY <1>1 DEF Texts

\* Filling the last buffer appends.
LEMMA ContentFilled ==
  ASSUME NEW b, NEW d, b.chunks \in Seq(Chunk), b.chunks # <<>>, NEW t \in Texts,
         d.chunks = [b.chunks EXCEPT ![Len(b.chunks)] = Filled(@, t)],
         d.chunks \in Seq(Chunk)
  PROVE  Content(d) = Content(b) \o t
<1>1. PICK n : n = Len(b.chunks)
  OBVIOUS
<1>2. PICK c : c = b.chunks
  OBVIOUS
<1>3. /\ n \in Nat /\ n \in 1 .. n /\ n \in 0 .. n /\ n - 1 \in 0 .. n
      /\ c \in Seq(Chunk) /\ Len(c) = n /\ Len(d.chunks) = n
      /\ \A i \in 1 .. n : c[i] \in Chunk
      /\ d.chunks[n] = Filled(c[n], t) /\ \A i \in 1 .. n - 1 : d.chunks[i] = c[i]
  BY <1>1, <1>2
<1>4. PICK f : Copies(f, c, n) /\ Content(b) = f[n]
  BY <1>1, <1>2, ContentIs
<1>5. PICK g : Copies(g, d.chunks, n) /\ Content(d) = g[n]
  BY <1>3, ContentIs
<1>6. f[n - 1] = g[n - 1]
  <2>1. \A i \in 1 .. n - 1 : c[i].text = d.chunks[i].text
    BY <1>3
  <2> QED
    BY ONLY <1>3, <1>4, <1>5, <2>1, CopiesAgree
<1>7. f[n] = CopiesNext(f, c, n) /\ g[n] = CopiesNext(g, d.chunks, n)
  BY ONLY <1>3, <1>4, <1>5, CopiesStep
<1>8. d.chunks[n].text = c[n].text \o t /\ c[n].text \in Texts
  BY <1>3 DEF Filled, Chunk
<1>9. f[n - 1] \in Texts
  BY ONLY <1>3, <1>4, CopiesType
<1>10. g[n] = f[n - 1] \o (c[n].text \o t) /\ f[n] = f[n - 1] \o c[n].text
  <2>1. n # 0
    BY <1>3
  <2> QED
    BY ONLY <2>1, <1>6, <1>7, <1>8, Zenon DEF CopiesNext
<1>11. (f[n - 1] \o c[n].text) \o t = f[n - 1] \o (c[n].text \o t)
  BY ONLY <1>8, <1>9, t \in Texts, TextsAssociate
<1> QED
  BY ONLY <1>4, <1>5, <1>10, <1>11

\* A new buffer appends, too.
LEMMA ContentExtended ==
  ASSUME NEW b, NEW d, b.chunks \in Seq(Chunk), NEW t \in Texts,
         d.chunks = b.chunks \o <<NewChunk(t)>>
  PROVE  d.chunks \in Seq(Chunk) /\ Content(d) = Content(b) \o t
<1>1. PICK n : n = Len(b.chunks)
  OBVIOUS
<1>2. PICK c : c = b.chunks
  OBVIOUS
<1>3. NewChunk(t) \in Chunk /\ NewChunk(t).text = t
  BY NewChunkType DEF NewChunk
<1>4. /\ n \in Nat /\ n \in 0 .. n /\ n \in 0 .. n + 1 /\ n + 1 \in 0 .. n + 1
      /\ c \in Seq(Chunk) /\ Len(c) = n
      /\ d.chunks \in Seq(Chunk) /\ Len(d.chunks) = n + 1
      /\ d.chunks[n + 1] = NewChunk(t) /\ \A i \in 1 .. n : d.chunks[i] = c[i]
  BY <1>1, <1>2, <1>3
<1>5. PICK f : Copies(f, c, n) /\ Content(b) = f[n]
  BY <1>1, <1>2, ContentIs
<1>6. PICK g : Copies(g, d.chunks, n + 1) /\ Content(d) = g[n + 1]
  BY <1>4, ContentIs
<1>7. f[n] = g[n]
  <2>1. \A i \in 1 .. n : c[i].text = d.chunks[i].text
    BY <1>4
  <2>2. n + 1 \in Nat /\ n <= n /\ n <= n + 1
    BY <1>4
  <2> QED
    BY ONLY <1>4, <1>5, <1>6, <2>1, <2>2, CopiesAgree
<1>8. g[n + 1] = CopiesNext(g, d.chunks, n + 1)
  <2>1. n + 1 \in Nat
    BY <1>4
  <2> QED
    BY ONLY <1>4, <1>6, <2>1, CopiesStep
<1>9. g[n + 1] = g[n] \o t
  <2>1. n + 1 # 0 /\ (n + 1) - 1 = n
    BY <1>4
  <2> QED
    BY ONLY <1>3, <1>4, <1>8, <2>1, Zenon DEF CopiesNext
<1> QED
  BY <1>4, <1>5, <1>6, <1>7, <1>9

\* A text is put together from its parts.
LEMMA TextOfParts ==
  ASSUME NEW t \in Texts, NEW a \in 0 .. Len(t)
  PROVE  SubSeq(t, 1, a) \o SubSeq(t, a + 1, Len(t)) = t
<1>1. /\ SubSeq(t, 1, a) \in Seq(Tokens) /\ Len(SubSeq(t, 1, a)) = a
      /\ \A k \in 1 .. a : SubSeq(t, 1, a)[k] = t[k]
  BY SubSeqProperties DEF Texts
<1>2. /\ SubSeq(t, a + 1, Len(t)) \in Seq(Tokens) /\ Len(SubSeq(t, a + 1, Len(t))) = Len(t) - a
      /\ \A k \in 1 .. Len(t) - a : SubSeq(t, a + 1, Len(t))[k] = t[a + k]
  BY SubSeqProperties DEF Texts
<1>3. PICK p \in Seq(Tokens) : p = SubSeq(t, 1, a)
  BY <1>1
<1>4. PICK q \in Seq(Tokens) : q = SubSeq(t, a + 1, Len(t))
  BY <1>2
<1>5. /\ p \o q \in Seq(Tokens) /\ Len(p \o q) = Len(t)
      /\ \A k \in 1 .. Len(t) : (p \o q)[k] = t[k]
  <2>1. t \in Seq(Tokens) /\ Len(t) \in Nat
    BY DEF Texts
  <2>2. /\ p \o q \in Seq(Tokens) /\ Len(p \o q) = Len(p) + Len(q)
        /\ \A k \in 1 .. Len(p) + Len(q) :
             (p \o q)[k] = IF k <= Len(p) THEN p[k] ELSE q[k - Len(p)]
    BY ConcatProperties
  <2>3. /\ Len(p) = a /\ Len(q) = Len(t) - a /\ a \in Nat
        /\ \A k \in 1 .. a : p[k] = t[k]
        /\ \A k \in 1 .. Len(t) - a : q[k] = t[a + k]
    BY <1>1, <1>2, <1>3, <1>4
  <2>4. ASSUME NEW k \in 1 .. Len(t) PROVE (p \o q)[k] = t[k]
    <3>1. CASE k <= a
      BY <2>1, <2>2, <2>3, <3>1
    <3>2. CASE ~(k <= a)
      <4>1. k - a \in 1 .. Len(t) - a /\ a + (k - a) = k
        BY <2>1, <2>3, <3>2
      <4>2. q[k - a] = t[k]
        BY <2>3, <4>1
      <4> QED
        BY <2>1, <2>2, <2>3, <3>2, <4>2
    <3> QED
      BY <3>1, <3>2
  <2> QED
    BY <2>1, <2>2, <2>3, <2>4
<1>6. p \o q = t
  BY <1>5, SeqEqual DEF Texts
<1> QED
  BY <1>3, <1>4, <1>6

\* Whether the last buffer has room or not, a text that is appended follows
\* what the buffers hold.
LEMMA ContentAppended ==
  ASSUME NEW b, BuilderOK(b), NEW t \in Texts
  PROVE  Content(AppendTo(b, t)) = Content(b) \o t
<1>1. PICK n : n = Len(b.chunks)
  OBVIOUS
<1>2. /\ n \in Nat /\ b.chunks \in Seq(Chunk) /\ Len(t) \in Nat
      /\ AppendTo(b, t).chunks = ChunksWith(b.chunks, t)
      /\ AppendTo(b, t).chunks \in Seq(Chunk)
  BY <1>1, AppendType DEF AppendTo, BuilderOK, Texts
<1>3. CASE b.chunks = <<>>
  <2>1. AppendTo(b, t).chunks = b.chunks \o <<NewChunk(t)>>
    BY <1>2, <1>3, NewChunkType DEF ChunksWith
  <2> QED
    BY <1>2, <2>1, ContentExtended
<1>4. CASE b.chunks # <<>> /\ Len(t) <= Room(b.chunks[n])
  <2>1. AppendTo(b, t).chunks = [b.chunks EXCEPT ![n] = Filled(@, t)]
    BY <1>1, <1>2, <1>4 DEF ChunksWith
  <2> QED
    BY <1>1, <1>2, <1>4, <2>1, ContentFilled
<1>5. CASE b.chunks # <<>> /\ ~(Len(t) <= Room(b.chunks[n]))
  <2>1. PICK room : room = Room(b.chunks[n])
    OBVIOUS
  <2>2. b.chunks[n] \in Chunk /\ n \in 1 .. n
    BY <1>1, <1>2, <1>5
  <2>3. room \in Nat /\ room \in 0 .. Len(t)
    <3>1. room \in Int
      BY <2>1, <2>2 DEF Room, Chunk, Texts
    <3>2. room >= 0
      BY <1>1, <2>1, <2>2 DEF BuilderOK
    <3> QED
      BY <1>2, <1>5, <2>1, <3>1, <3>2
  <2>4. PICK p : p = SubSeq(t, 1, room)
    OBVIOUS
  <2>5. PICK q : q = SubSeq(t, room + 1, Len(t))
    OBVIOUS
  <2>6. p \in Texts /\ Len(p) = room /\ q \in Texts /\ p \o q = t
    <3>1. p \in Texts /\ Len(p) = room
      BY <1>2, <2>3, <2>4, PartType
    <3>2. q \in Texts
      <4>1. room + 1 \in Nat \ {0}
        BY <2>3
      <4> QED
        BY <1>2, <2>5, <4>1, PartType
    <3>3. p \o q = t
      BY <2>3, <2>4, <2>5, TextOfParts
    <3> QED
      BY <3>1, <3>2, <3>3
  <2>7. PICK d : d = [b EXCEPT !.chunks = [b.chunks EXCEPT ![n] = Filled(@, p)]]
    OBVIOUS
  <2>8. d.chunks = [b.chunks EXCEPT ![n] = Filled(@, p)]
    BY <2>7 DEF BuilderOK
  <2>9. Filled(b.chunks[n], p) \in Chunk
    BY <2>1, <2>2, <2>3, <2>6, FilledType
  <2>10. d.chunks \in Seq(Chunk)
    BY <1>1, <1>2, <2>2, <2>8, <2>9
  <2>11. Content(d) = Content(b) \o p
    BY <1>1, <1>2, <1>5, <2>6, <2>8, <2>10, ContentFilled
  <2>12. AppendTo(b, t).chunks = d.chunks \o <<NewChunk(q)>>
    BY <1>1, <1>2, <1>5, <2>1, <2>4, <2>5, <2>8 DEF ChunksWith
  <2>13. Content(AppendTo(b, t)) = Content(d) \o q
    BY <2>6, <2>10, <2>12, ContentExtended
  <2>14. Content(b) \in Texts
    BY <1>2, ContentType
  <2>15. (Content(b) \o p) \o q = Content(b) \o (p \o q)
    BY ONLY <2>6, <2>14, TextsAssociate
  <2> QED
    BY ONLY <2>6, <2>11, <2>13, <2>15
<1> QED
  BY <1>3, <1>4, <1>5

\* A builder without buffers holds nothing.
LEMMA ContentOfNone == ASSUME NEW b, b.chunks = <<>> PROVE Content(b) = <<>>
<1>1. b.chunks \in Seq(Chunk) /\ Len(b.chunks) = 0
  OBVIOUS
<1>2. PICK f : Copies(f, b.chunks, 0) /\ Content(b) = f[0]
  BY <1>1, ContentIs
<1>3. f[0] = CopiesNext(f, b.chunks, 0)
  BY <1>2, CopiesStep
<1> QED
  BY <1>2, <1>3 DEF CopiesNext

LEMMA ContentOfChunks == ASSUME NEW b, NEW d, b.chunks = d.chunks PROVE Content(b) = Content(d)
BY DEF Content

-----------------------------------------------------------------------------
(***************************************************************************)
(* The properties of a text.                                               *)
(***************************************************************************)
\* The first of some positions is one of them, or 0.
LEMMA FirstType ==
  ASSUME NEW n \in Nat, NEW positions \in SUBSET (1 .. n)
  PROVE  First(positions) \in 0 .. n
<1> DEFINE least == {a \in positions : \A b \in positions : a <= b}
<1>1. least \subseteq 1 .. n
  OBVIOUS
<1> HIDE DEF least
<1>2. least # {} => (CHOOSE a \in least : TRUE) \in least
  OBVIOUS
<1>3. First(positions) = IF least = {} THEN 0 ELSE CHOOSE a \in least : TRUE
  BY DEF First, least
<1>4. CASE least = {}
  BY <1>3, <1>4
<1>5. CASE least # {}
  <2>1. First(positions) \in least
    BY <1>2, <1>3, <1>5
  <2>2. First(positions) \in 1 .. n
    BY <1>1, <2>1
  <2>3. QED
    BY <2>2
<1>6. QED
  BY <1>4, <1>5

\* The value of a property is a part of the text.
LEMMA GetPropertyType ==
  ASSUME NEW t \in Texts, NEW old \in Texts, NEW key
  PROVE  GetProperty(t, key, old).buff \in Texts
<1> DEFINE keyAt == First(Positions(key, t, 0))
           colon == IF keyAt = 0 THEN 0 ELSE First(Positions(":", t, keyAt))
           semicolon == First(Positions(Semicolon, t, colon))
           end == IF semicolon = 0 THEN Len(t) + 1 ELSE semicolon
<1>1. Len(t) \in Nat
  BY DEF Texts
<1>2. colon \in 0 .. Len(t) /\ semicolon \in 0 .. Len(t)
  <2>1. \A token, a : First(Positions(token, t, a)) \in 0 .. Len(t)
    <3>1. TAKE token, a
    <3>2. Positions(token, t, a) \in SUBSET (1 .. Len(t))
      BY DEF Positions, Texts
    <3>3. QED
      BY <1>1, <3>2, FirstType
  <2>2. QED
    BY <1>1, <2>1
<1>3. end - 1 \in Nat /\ end - 1 <= Len(t) /\ colon + 1 \in Nat \ {0}
  <2> HIDE DEF semicolon
  <2>1. QED
    BY <1>1, <1>2
<1> HIDE DEF colon, end
<1>4. SubSeq(t, colon + 1, end - 1) \in Texts
  <2>1. QED
    BY <1>1, <1>3, PartType
<1>5. QED
  BY <1>4 DEF GetProperty, colon, end

\* The names of the properties.
LEMMA KeyNames ==
  /\ KeySet = {"port", "baund", "data", "stop", "parity", "flow",
               "timeout", "retry", "alive"}
  /\ DOMAIN Keys = 1 .. 9 /\ Len(Keys) = 9
  /\ \A n \in 1 .. 9 : Keys[n] \in KeySet
  /\ DOMAIN Words = {"stop", "parity", "flow"}
  /\ DOMAIN Least = {"timeout", "retry", "alive"}
<1>1. DOMAIN Keys = 1 .. 9 /\ Len(Keys) = 9
  BY DEF Keys
<1>2. /\ Keys[1] = "port" /\ Keys[2] = "baund" /\ Keys[3] = "data"
      /\ Keys[4] = "stop" /\ Keys[5] = "parity" /\ Keys[6] = "flow"
      /\ Keys[7] = "timeout" /\ Keys[8] = "retry" /\ Keys[9] = "alive"
  BY DEF Keys
<1>3. \A n \in 1 .. 9 : n \in {1, 2, 3, 4, 5, 6, 7, 8, 9}
  OBVIOUS
<1>4. DOMAIN Words = {"stop", "parity", "flow"}
  BY DEF Words
<1>5. DOMAIN Least = {"timeout", "retry", "alive"}
  BY DEF Least
<1>6. QED
  BY <1>1, <1>2, <1>3, <1>4, <1>5 DEF KeySet

\* A text that is no number counts as 0.
LEMMA NumberType ==
  ASSUME NEW value
  PROVE  NumberOf(value) \in Numbers /\ NumberOf(value) \in Int
BY NumbersHaveDigits DEF NumberOf, Numbers

\* What was accepted is kept unless an acceptable value is found.
LEMMA ConvertedType ==
  ASSUME NEW st, SettingsOK(st), NEW key \in KeySet, NEW value \in Texts
  PROVE  SettingsOK([st EXCEPT ![key] = Converted(key, value, st[key])])
<1> DEFINE x == Converted(key, value, st[key])
           new == [st EXCEPT ![key] = x]
<1>1. /\ DOMAIN new = KeySet /\ new[key] = x
      /\ \A other \in KeySet \ {key} : new[other] = st[other]
  BY DEF SettingsOK
<1>2. CASE key = "port"
  <2>1. x = value
    BY <1>2, KeyNames DEF Converted
  <2>2. QED
    BY <1>1, <1>2, <2>1, KeyNames DEF SettingsOK
<1>3. CASE key = "baund"
  <2>1. x = NumberOf(value)
    BY <1>3, KeyNames DEF Converted
  <2>2. QED
    BY <1>1, <1>3, <2>1, KeyNames, NumberType DEF SettingsOK
<1>4. CASE key = "data"
  <2>1. x = NumberOf(value) % 256
    BY <1>4, KeyNames DEF Converted
  <2>2. x \in Numbers \intersect 0 .. 255
    BY <2>1, NumberType, NumbersHaveDigits
  <2>3. QED
    BY <1>1, <1>4, <2>2, KeyNames DEF SettingsOK
<1>5. CASE key \in DOMAIN Words
  <2>1. key \notin {"port", "baund", "data"}
    BY <1>5, KeyNames
  <2>2. x = IF \E w \in Words[key] : value = <<w>> THEN value[1] ELSE Defaults[key]
    BY <1>5, <2>1, KeyNames DEF Converted
  <2>3. Defaults[key] \in Words[key]
    BY <1>5, KeyNames DEF Words, Defaults
  <2>4. x \in Words[key]
    BY <2>2, <2>3
  <2>5. QED
    BY <1>1, <1>5, <2>1, <2>4, KeyNames DEF SettingsOK
<1>6. CASE key \in DOMAIN Least
  <2>1. key \notin {"port", "baund", "data"} \union DOMAIN Words
    BY <1>6, KeyNames
  <2>2. x = IF NumberOf(value) >= Least[key] THEN NumberOf(value) ELSE st[key]
    BY <1>6, <2>1, KeyNames DEF Converted
  <2>3. x \in Numbers /\ x >= Least[key]
    BY <1>6, <2>2, NumberType DEF SettingsOK
  <2>4. QED
    BY <1>1, <1>6, <2>1, <2>3, KeyNames DEF SettingsOK
<1>7. QED
  BY <1>2, <1>3, <1>4, <1>5, <1>6, KeyNames

\* Reading a property keeps the settings acceptable.
LEMMA ReadingType ==
  ASSUME NEW key \in KeySet, NEW t \in Texts, NEW st,
         SettingsOK(st.settings), st.buff \in Texts, st.changed \in BOOLEAN
  PROVE  /\ SettingsOK(Reading(key, t, st).settings)
         /\ Reading(key, t, st).buff \in Texts
         /\ Reading(key, t, st).changed \in BOOLEAN
<1> DEFINE property == GetProperty(t, key, st.buff)
<1>1. property.buff \in Texts
  BY GetPropertyType
<1>2. CASE ~property.found
  BY <1>2 DEF Reading
<1>3. CASE property.found
  <2> HIDE DEF property
  <2>1. /\ Reading(key, t, st).settings =
             [st.settings EXCEPT ![key] = Converted(key, property.buff, st.settings[key])]
        /\ Reading(key, t, st).buff = property.buff
        /\ Reading(key, t, st).changed =
             (st.changed \/ IsChange(key, property.buff, st.settings[key]))
    BY <1>3 DEF Reading, property
  <2>2. SettingsOK(Reading(key, t, st).settings)
    BY <1>1, <2>1, ConvertedType
  <2>3. QED
    BY <1>1, <2>1, <2>2
<1>4. QED
  BY <1>2, <1>3

\* One token or two are a text.
LEMMA ShortType ==
  /\ \A x \in Tokens : <<x>> \in Texts
  /\ \A x, y \in Tokens : <<x, y>> \in Texts
BY DEF Texts

\* An element of a sequence of four.
LEMMA ElementOfFour ==
  ASSUME NEW w \in Tokens, NEW x \in Tokens, NEW y \in Tokens, NEW z \in Tokens,
         NEW k \in {1, 2, 3, 4}
  PROVE  <<w, x, y, z>>[k] \in Tokens
OBVIOUS

\* The text of a list of pairs is a text.
LEMMA TextOfType ==
  ASSUME NEW list \in PairLists, NEW terminated \in BOOLEAN
  PROVE  TextOf(list, terminated) \in Texts
<1>1. PICK n \in 1 .. MaxPairs : list \in [1 .. n -> Pairs]
  BY DEF PairLists
<1>2. n \in Nat \ {0} /\ Len(list) = n
  BY <1>1, SizesNat
<1> DEFINE m == 4 * Len(list) - (IF terminated THEN 0 ELSE 1)
           token(a) == LET pair == list[((a - 1) \div 4) + 1]
                       IN  <<pair[1], ":", pair[2], Semicolon>>[((a - 1) % 4) + 1]
<1>3. m \in Nat /\ m <= 4 * n
  BY <1>2
<1>4. ASSUME NEW a \in 1 .. m
      PROVE  token(a) \in Tokens
  <2>1. a \in Nat /\ a >= 1 /\ a <= 4 * n
    BY <1>3
  <2>2. ((a - 1) \div 4) + 1 \in 1 .. n
    BY <1>2, <2>1
  <2>3. list[((a - 1) \div 4) + 1] \in Tokens \X Tokens
    BY <1>1, <2>2, TextsAreTexts
  <2>4. ((a - 1) % 4) + 1 \in {1, 2, 3, 4}
    BY <2>1
  <2> DEFINE pair == list[((a - 1) \div 4) + 1]
             k == ((a - 1) % 4) + 1
  <2>5. {pair[1], ":", pair[2], Semicolon} \subseteq Tokens
    BY <2>3, TokensSuffice
  <2>6. token(a) = <<pair[1], ":", pair[2], Semicolon>>[k]
    OBVIOUS
  <2> HIDE DEF pair, k, token
  <2>7. k \in {1, 2, 3, 4}
    BY <2>4 DEF k
  <2>8. pair[1] \in Tokens /\ ":" \in Tokens /\ pair[2] \in Tokens /\ Semicolon \in Tokens
    BY <2>5
  <2>9. <<pair[1], ":", pair[2], Semicolon>>[k] \in Tokens
    BY <2>7, <2>8, ElementOfFour, Zenon
  <2>10. QED
    BY <2>6, <2>9
<1>5. TextOf(list, terminated) = [a \in 1 .. m |-> token(a)]
  BY DEF TextOf
<1> HIDE DEF m, token
<1>6. QED
  BY <1>3, <1>4, <1>5 DEF Texts

\* What is printed of a property is a text.
LEMMA ValueTextType ==
  ASSUME SettingsOK(settings), NEW key \in KeySet
  PROVE  ValueText(key) \in Texts
<1>1. CASE key = "port"
  BY <1>1, KeyNames DEF ValueText, SettingsOK
<1>2. CASE key \in DOMAIN Words
  <2>1. ValueText(key) = <<settings[key]>>
    BY <1>2, KeyNames DEF ValueText
  <2>2. settings[key] \in Tokens
    <3>1. settings[key] \in Words[key]
      BY <1>2 DEF SettingsOK
    <3>2. Words[key] \subseteq Tokens
      BY <1>2, TokensSuffice
    <3>3. QED
      BY <3>1, <3>2
  <2>3. QED
    BY <2>1, <2>2 DEF Texts
<1>3. CASE key \notin {"port"} \union DOMAIN Words
  <2>1. ValueText(key) = <<Decimal[settings[key]]>>
    BY <1>3, KeyNames DEF ValueText
  <2>2. settings[key] \in Numbers
    BY <1>3, KeyNames DEF SettingsOK
  <2>3. Decimal[settings[key]] \in Tokens
    BY <2>2, NumbersHaveDigits
  <2>4. QED
    BY <2>1, <2>3 DEF Texts
<1>4. QED
  BY <1>1, <1>2, <1>3

-----------------------------------------------------------------------------
(***************************************************************************)
(* Types, and the settings of the open port.                               *)
(***************************************************************************)
\* The port has the settings of the instance, unless the application is about
\* to close it or did not see it.
DriverInv == driver # Closed => missed \/ (pc = "set" /\ changed) \/ driver = Dcb

Inv == TypeOK /\ DriverInv

\* The invariant holds in the beginning.
LEMMA InitInv == Init => Inv
<1> SUFFICES ASSUME Init PROVE Inv
  OBVIOUS
<1>1. SettingsOK(settings)
  <2>1. DOMAIN settings = KeySet
    BY KeyNames DEF Init, Defaults
  <2>2. settings.port \in Texts
    BY DEF Init, Defaults, Texts
  <2>3. settings.baund \in Numbers /\ settings.data \in Numbers \intersect 0 .. 255
    BY NumbersHaveDigits DEF Init, Defaults
  <2>4. \A key \in DOMAIN Words : settings[key] \in Words[key]
    BY KeyNames DEF Init, Defaults, Words
  <2>5. \A key \in DOMAIN Least : settings[key] \in Numbers /\ settings[key] >= Least[key]
    <3>1. \A key \in DOMAIN Least : Defaults[key] >= Least[key]
      BY KeyNames DEF Defaults, Least
    <3>2. QED
      BY <3>1, NumbersHaveDigits DEF Init
  <2>6. QED
    BY <2>1, <2>2, <2>3, <2>4, <2>5 DEF SettingsOK
<1>2. BuilderOK(builder)
  BY NewBuilderType DEF Init
<1>3. text \in Texts /\ buff \in Texts /\ budget \in [texts : Nat, stores : Nat]
  BY SizesNat DEF Init, Texts
<1>4. at \in 1 .. Len(Keys) + 1 /\ stored \subseteq KeySet
  BY KeyNames DEF Init
<1>5. TypeOK
  BY <1>1, <1>2, <1>3, <1>4 DEF Init, TypeOK
<1>6. DriverInv
  BY DEF Init, DriverInv
<1>7. QED
  BY <1>5, <1>6 DEF Inv

\* Every step keeps it.
LEMMA NextInv == Inv /\ [Next]_vars => Inv'
<1> SUFFICES ASSUME Inv, [Next]_vars PROVE Inv'
  OBVIOUS
<1> USE DEF Inv
<1>1. CASE SetConfiguration
  <2>1. text' \in Texts
    BY <1>1, TextOfType, TextsAreTexts DEF SetConfiguration
  <2>2. buff' \in Texts /\ stored' \subseteq KeySet
    BY <1>1, TextsAreTexts DEF SetConfiguration
  <2>3. budget' \in [texts : Nat, stores : Nat]
    BY <1>1 DEF SetConfiguration, TypeOK
  <2>4. at' \in 1 .. Len(Keys) + 1
    BY <1>1, KeyNames DEF SetConfiguration
  <2>5. TypeOK'
    BY <1>1, <2>1, <2>2, <2>3, <2>4 DEF SetConfiguration, link, TypeOK
  <2>6. DriverInv'
    BY <1>1 DEF SetConfiguration, link, DriverInv, Dcb
  <2>7. QED
    BY <2>5, <2>6
<1>2. CASE SetProperty
  <2> DEFINE st == [settings |-> settings, buff |-> buff, changed |-> changed]
             new == Reading(Keys[at], text, st)
  <2>1. at \in 1 .. 9 /\ Keys[at] \in KeySet
    BY <1>2, KeyNames DEF SetProperty, TypeOK
  <2>2. settings' = new.settings /\ buff' = new.buff /\ changed' = new.changed
    BY <1>2 DEF SetProperty
  <2>3. SettingsOK(settings') /\ buff' \in Texts /\ changed' \in BOOLEAN
    <3>1. SettingsOK(st.settings) /\ st.buff \in Texts /\ st.changed \in BOOLEAN
      BY DEF TypeOK
    <3> HIDE DEF st
    <3>2. QED
      BY <2>1, <2>2, <3>1, ReadingType DEF TypeOK
  <2>4. TypeOK'
    BY <1>2, <2>1, <2>3, KeyNames DEF SetProperty, link, TypeOK
  <2>5. Dcb' = Dcb \/ changed'
    <3> DEFINE property == GetProperty(text, Keys[at], buff)
    <3>1. CASE ~property.found
      BY <2>2, <3>1 DEF Reading, Dcb
    <3>2. CASE property.found /\ Keys[at] \in CommKeys
      BY <2>2, <3>2 DEF Reading, IsChange, CommKeys
    <3>3. CASE property.found /\ Keys[at] \notin CommKeys
      <4>1. \A key \in CommKeys : settings'[key] = settings[key]
        BY <2>2, <3>3, KeyNames DEF Reading, TypeOK, SettingsOK, CommKeys
      <4>2. QED
        BY <4>1 DEF Dcb
    <3>4. QED
      BY <3>1, <3>2, <3>3
  <2>6. changed => changed'
    BY <2>2 DEF Reading
  <2>7. DriverInv'
    BY <1>2, <2>5, <2>6 DEF SetProperty, link, DriverInv
  <2>8. QED
    BY <2>4, <2>7
<1>3. CASE SetEnds
  <2>1. TypeOK'
    BY <1>3 DEF SetEnds, setting, link, TypeOK
  <2>2. DriverInv'
    BY <1>3 DEF SetEnds, setting, link, DriverInv, Dcb
  <2>3. QED
    BY <2>1, <2>2
<1>4. CASE GetConfiguration
  <2>1. BuilderOK(builder')
    BY <1>4, ClearedType DEF GetConfiguration, TypeOK
  <2>2. at' \in 1 .. Len(Keys) + 1
    BY <1>4, KeyNames DEF GetConfiguration
  <2>3. TypeOK'
    BY <1>4, <2>1, <2>2 DEF GetConfiguration, setting, link, TypeOK
  <2>4. DriverInv'
    BY <1>4 DEF GetConfiguration, setting, link, DriverInv, Dcb
  <2>5. QED
    BY <2>3, <2>4
<1>5. CASE PrintProperty
  <2>1. at \in 1 .. 9 /\ Keys[at] \in KeySet
    <3>1. at <= Len(Keys)
      BY <1>5 DEF PrintProperty
    <3>2. QED
      BY <3>1, KeyNames DEF TypeOK
  <2>2. BuilderOK(builder')
    <3> DEFINE key == Keys[at]
               value == ValueText(key)
    <3>1. value \in Texts
      BY <2>1, ValueTextType DEF TypeOK
    <3>2. key \in Tokens
      BY <2>1, TokensSuffice
    <3> HIDE DEF key, value
    <3>3. ":" \in Tokens /\ Semicolon \in Tokens
      BY TokensSuffice
    <3>4. <<key, ":">> \in Texts /\ <<Semicolon>> \in Texts
      BY <3>2, <3>3, ShortType, Zenon
    <3>5. \A s, t \in Texts : s \o t \in Texts
      BY DEF Texts
    <3>6. /\ value \o <<Semicolon>> \in Texts
          /\ <<key, ":">> \o value \o <<Semicolon>> \in Texts
      BY <3>1, <3>4, <3>5
    <3>7. /\ BuilderOK(FormatTo(builder, <<key, ":">> \o value \o <<Semicolon>>))
          /\ BuilderOK(AppendTo(AppendTo(builder, <<key, ":">>), value \o <<Semicolon>>))
      BY <3>6, <3>4, AppendType, FormatType DEF TypeOK
    <3>8. \/ builder' = builder
          \/ builder' = AppendTo(AppendTo(builder, <<key, ":">>), value \o <<Semicolon>>)
          \/ builder' = FormatTo(builder, <<key, ":">> \o value \o <<Semicolon>>)
      BY <1>5 DEF PrintProperty, key, value
    <3>9. QED
      BY <3>7, <3>8 DEF TypeOK
  <2>3. at' \in 1 .. Len(Keys) + 1
    <3>1. at' = at + 1
      BY <1>5 DEF PrintProperty
    <3>2. QED
      BY <2>1, <3>1, KeyNames
  <2>4. TypeOK'
    BY <1>5, <2>2, <2>3 DEF PrintProperty, setting, link, TypeOK
  <2>5. DriverInv'
    BY <1>5 DEF PrintProperty, setting, link, DriverInv, Dcb
  <2>6. QED
    BY <2>4, <2>5
<1>6. CASE PrintEnds
  <2>1. BuilderOK(builder')
    BY <1>6, ClearedType DEF PrintEnds, TypeOK
  <2>2. TypeOK'
    BY <1>6, <2>1 DEF PrintEnds, setting, link, TypeOK
  <2>3. DriverInv'
    BY <1>6 DEF PrintEnds, setting, link, DriverInv, Dcb
  <2>4. QED
    BY <2>2, <2>3
<1>7. CASE Told
  BY <1>7 DEF Told, setting, link, TypeOK, DriverInv, Dcb
<1>8. CASE Open
  BY <1>8 DEF Open, setting, link, TypeOK, DriverInv, Dcb
<1>9. CASE Close
  BY <1>9 DEF Close, setting, link, TypeOK, DriverInv
<1>13. CASE Link
  BY <1>13 DEF Link, setting, link, TypeOK, DriverInv, Dcb
<1>10. CASE Store
  <2>1. budget' \in [texts : Nat, stores : Nat]
    BY <1>10 DEF Store, TypeOK
  <2>2. PICK key \in {"port", "baund"} :
          /\ key = "baund" => driver = Closed
          /\ \E value \in Found[key] : settings' = [settings EXCEPT ![key] = value]
          /\ stored' = stored \union {key}
    BY <1>10 DEF Store
  <2>3. SettingsOK(settings') /\ stored' \subseteq KeySet
    <3>1. CASE key = "baund"
      BY <2>2, <3>1, KeyNames, TextsAreTexts DEF TypeOK, SettingsOK
    <3>2. CASE key = "port"
      BY <2>2, <3>2, KeyNames, TextsAreTexts DEF TypeOK, SettingsOK
    <3>3. QED
      BY <2>2, <3>1, <3>2
  <2>4. TypeOK'
    BY <1>10, <2>1, <2>3 DEF Store, setting, link, TypeOK
  <2>5. driver # Closed => Dcb' = Dcb
    <3>1. SUFFICES ASSUME driver # Closed PROVE Dcb' = Dcb
      OBVIOUS
    <3>2. \A other \in CommKeys : settings'[other] = settings[other]
      BY <2>2, <3>1, KeyNames DEF TypeOK, SettingsOK, CommKeys
    <3>3. QED
      BY <3>2 DEF Dcb
  <2>6. DriverInv'
    BY <1>10, <2>5 DEF Store, setting, link, DriverInv
  <2>7. QED
    BY <2>4, <2>6
<1>11. CASE UNCHANGED vars
  BY <1>11 DEF vars, setting, link, TypeOK, DriverInv, Dcb
<1>12. QED
  BY <1>1, <1>2, <1>3, <1>4, <1>5, <1>6, <1>7, <1>8, <1>9, <1>10, <1>11, <1>13
   DEF Next

\* In every state the invariant holds.
LEMMA InvHolds == Spec => []Inv
BY InitInv, NextInv, PTL DEF Spec

\* Every variable has its type, whatever text is configured: no setting leaves
\* its range and every buffer of the builder but the last is full.
THEOREM ConfigurationTypeCorrect == Spec => []TypeOK
<1>1. Inv => TypeOK
  BY DEF Inv
<1>2. QED
  BY <1>1, InvHolds, PTL

\* An open port works with the settings of the instance, whenever ports are
\* opened and closed and settings stored, but for a port that took its settings
\* before a change and became lib->comm after it.
THEOREM DriverFollowsSettings == Spec => []DriverFollows
<1>1. Inv => DriverFollows
  BY DEF Inv, DriverInv, DriverFollows
<1>2. QED
  BY <1>1, InvHolds, PTL

-----------------------------------------------------------------------------
(***************************************************************************)
(* Documented texts.                                                       *)
(***************************************************************************)
\* The keys that were read already.
ReadKeys == {Keys[n] : n \in 1 .. at - 1}

\* What was read is as the text asks for; what was not still is as it was when
\* the text came, unless the search stored it.
DocumentedInv ==
  IF pc = "set" /\ stored # KeySet
    THEN \E list \in PairLists, terminated \in BOOLEAN :
           /\ text = TextOf(list, terminated)
           /\ \A key \in KeySet \ stored :
                wanted[key] = IF key \in ReadKeys THEN settings[key] ELSE Wanted(list)[key]
    ELSE \A key \in KeySet \ stored : settings[key] = wanted[key]

\* The first of some positions.
LEMMA FirstIs ==
  ASSUME NEW n \in Nat, NEW positions \in SUBSET (1 .. n), NEW c \in positions,
         \A b \in positions : c <= b
  PROVE  First(positions) = c
<1> DEFINE least == {a \in positions : \A b \in positions : a <= b}
<1>1. c \in least
  OBVIOUS
<1>2. \A a \in least : a = c
  OBVIOUS
<1>3. First(positions) = IF least = {} THEN 0 ELSE CHOOSE a \in least : TRUE
  BY DEF First
<1> HIDE DEF least
<1>4. (CHOOSE a \in least : TRUE) \in least
  BY <1>1
<1> QED
  BY <1>1, <1>2, <1>3, <1>4

LEMMA FirstOfNone == First({}) = 0
BY DEF First

\* The four tokens of a pair, of which the last may lack the semicolon.
LEMMA TextOfIs ==
  ASSUME NEW list \in PairLists, NEW terminated \in BOOLEAN,
         NEW t, t = TextOf(list, terminated), NEW k, k = Len(list)
  PROVE  /\ k \in Nat \ {0} /\ DOMAIN list = 1 .. k
         /\ \A n \in 1 .. k : list[n] \in Pairs
         /\ Len(t) = 4 * k - (IF terminated THEN 0 ELSE 1)
         /\ DOMAIN t = 1 .. Len(t)
         /\ \A n \in 1 .. k : /\ t[4 * n - 3] = list[n][1] /\ t[4 * n - 2] = ":"
                              /\ t[4 * n - 1] = list[n][2]
                              /\ 4 * n <= Len(t) => t[4 * n] = Semicolon
         /\ \A a \in 1 .. Len(t) : \E n \in 1 .. k :
              a \in {4 * n - 3, 4 * n - 2, 4 * n - 1, 4 * n}
<1>1. k \in 1 .. MaxPairs /\ list \in [1 .. k -> Pairs]
  <2>1. PICK n \in 1 .. MaxPairs : list \in [1 .. n -> Pairs]
    BY DEF PairLists
  <2> QED
    BY <2>1, SizesNat
<1>2. k \in Nat \ {0} /\ Len(list) = k /\ DOMAIN list = 1 .. k
  BY <1>1, SizesNat
<1> DEFINE m == 4 * Len(list) - (IF terminated THEN 0 ELSE 1)
           token(a) == LET pair == list[((a - 1) \div 4) + 1]
                       IN  <<pair[1], ":", pair[2], Semicolon>>[((a - 1) % 4) + 1]
<1>3. m \in Nat /\ m \in {4 * k, 4 * k - 1}
  BY <1>2
<1>4. t = [a \in 1 .. m |-> token(a)]
  BY DEF TextOf
<1>5. DOMAIN t = 1 .. m /\ Len(t) = m
  <2> HIDE DEF m, token
  <2> QED
    BY <1>3, <1>4
<1>6. ASSUME NEW n \in 1 .. k
      PROVE  /\ t[4 * n - 3] = list[n][1] /\ t[4 * n - 2] = ":" /\ t[4 * n - 1] = list[n][2]
             /\ 4 * n <= m => t[4 * n] = Semicolon
  <2>1. /\ 4 * n - 3 \in 1 .. m /\ 4 * n - 2 \in 1 .. m /\ 4 * n - 1 \in 1 .. m
        /\ 4 * n <= m => 4 * n \in 1 .. m
    BY <1>2, <1>3
  <2>2. /\ ((4 * n - 3) - 1) \div 4 = n - 1 /\ ((4 * n - 3) - 1) % 4 = 0
        /\ ((4 * n - 2) - 1) \div 4 = n - 1 /\ ((4 * n - 2) - 1) % 4 = 1
        /\ ((4 * n - 1) - 1) \div 4 = n - 1 /\ ((4 * n - 1) - 1) % 4 = 2
        /\ (4 * n - 1) \div 4 = n - 1 /\ (4 * n - 1) % 4 = 3
    BY <1>2
  <2> HIDE DEF m
  <2>3. \A a \in 1 .. m : t[a] = token(a)
    BY <1>4
  <2>4. ASSUME NEW a, NEW r, (a - 1) \div 4 = n - 1, (a - 1) % 4 = r
        PROVE  token(a) = <<list[n][1], ":", list[n][2], Semicolon>>[r + 1]
    <3>1. (n - 1) + 1 = n
      BY <1>2
    <3> QED
      BY <2>4, <3>1
  <2> HIDE DEF token
  <2>5. \A w, x, y, z : /\ <<w, x, y, z>>[0 + 1] = w /\ <<w, x, y, z>>[1 + 1] = x
                         /\ <<w, x, y, z>>[2 + 1] = y /\ <<w, x, y, z>>[3 + 1] = z
    OBVIOUS
  <2>6. token(4 * n - 3) = list[n][1]
    <3>1. token(4 * n - 3) = <<list[n][1], ":", list[n][2], Semicolon>>[0 + 1]
      BY <2>2, <2>4
    <3> QED
      BY <2>5, <3>1
  <2>7. token(4 * n - 2) = ":"
    <3>1. token(4 * n - 2) = <<list[n][1], ":", list[n][2], Semicolon>>[1 + 1]
      BY <2>2, <2>4
    <3> QED
      BY <2>5, <3>1
  <2>8. token(4 * n - 1) = list[n][2]
    <3>1. token(4 * n - 1) = <<list[n][1], ":", list[n][2], Semicolon>>[2 + 1]
      BY <2>2, <2>4
    <3> QED
      BY <2>5, <3>1
  <2>9. token(4 * n) = Semicolon
    <3>1. token(4 * n) = <<list[n][1], ":", list[n][2], Semicolon>>[3 + 1]
      BY <2>2, <2>4
    <3> QED
      BY <2>5, <3>1
  <2> QED
    BY <2>1, <2>3, <2>6, <2>7, <2>8, <2>9
<1>7. ASSUME NEW a \in 1 .. m
      PROVE  \E n \in 1 .. k : a \in {4 * n - 3, 4 * n - 2, 4 * n - 1, 4 * n}
  <2>1. a \in Nat /\ a >= 1 /\ a <= 4 * k
    BY <1>2, <1>3
  <2>2. ((a - 1) \div 4) + 1 \in 1 .. k
    BY <1>2, <2>1
  <2>3. LET n == ((a - 1) \div 4) + 1 IN a \in {4 * n - 3, 4 * n - 2, 4 * n - 1, 4 * n}
    BY <2>1
  <2> QED
    BY <2>2, <2>3
<1>8. Len(t) = 4 * k - (IF terminated THEN 0 ELSE 1)
  BY <1>2, <1>5
<1> HIDE DEF m
<1> QED
  BY <1>1, <1>2, <1>5, <1>6, <1>7, <1>8

\* A part of a single element.
LEMMA PartOfOne ==
  ASSUME NEW S, NEW t \in Seq(S), NEW c \in 1 .. Len(t)
  PROVE  SubSeq(t, c, c) = <<t[c]>>
<1>1. \A b \in c .. c : t[b] \in S
  OBVIOUS
<1>2. SubSeq(t, c, c) \in Seq(S) /\ Len(SubSeq(t, c, c)) = 1 /\ SubSeq(t, c, c)[1] = t[c]
  BY <1>1, SubSeqProperties
<1>3. \A s \in Seq(S) : Len(s) = 1 => s = <<s[1]>>
  OBVIOUS
<1> QED
  BY <1>2, <1>3, Zenon

\* A property is found behind the first occurrence of its name.
LEMMA PropertyFound ==
  ASSUME NEW t \in Texts, NEW key, NEW old, NEW a \in Nat \ {0}, NEW end \in Nat,
         a + 1 < end, end <= Len(t) + 1, end - (a + 2) <= BufferSize,
         Lowered(t[a]) = key, \A b \in 1 .. Len(t) : Lowered(t[b]) = key => b = a,
         Lowered(t[a + 1]) = ":", \A b \in a + 2 .. end - 1 : Lowered(t[b]) # Semicolon,
         end <= Len(t) => Lowered(t[end]) = Semicolon
  PROVE  GetProperty(t, key, old) = [found |-> TRUE, buff |-> SubSeq(t, a + 2, end - 1)]
<1>1. Len(t) \in Nat /\ DOMAIN t = 1 .. Len(t)
  BY DEF Texts
<1>2. ASSUME NEW token, NEW b PROVE Positions(token, t, b) \in SUBSET (1 .. Len(t))
  BY <1>1 DEF Positions
<1>3. First(Positions(key, t, 0)) = a
  <2>1. a \in Positions(key, t, 0) /\ \A b \in Positions(key, t, 0) : a <= b
    BY <1>1 DEF Positions
  <2> QED
    BY <1>1, <1>2, <2>1, FirstIs
<1>4. First(Positions(":", t, a)) = a + 1
  <2>1. a + 1 \in Positions(":", t, a) /\ \A b \in Positions(":", t, a) : a + 1 <= b
    BY <1>1 DEF Positions
  <2> QED
    BY <1>1, <1>2, <2>1, FirstIs
<1>5. LET semicolon == First(Positions(Semicolon, t, a + 1))
      IN  end = IF semicolon = 0 THEN Len(t) + 1 ELSE semicolon
  <2>1. \A b \in Positions(Semicolon, t, a + 1) : end <= b
    <3> SUFFICES ASSUME NEW b \in Positions(Semicolon, t, a + 1), b < end PROVE FALSE
      BY <1>1, <1>2 DEF Positions
    <3>1. b \in a + 2 .. end - 1 /\ Lowered(t[b]) = Semicolon
      BY <1>1 DEF Positions
    <3> QED
      BY <3>1
  <2>2. CASE end <= Len(t)
    <3>1. end \in Positions(Semicolon, t, a + 1)
      BY <1>1, <2>2 DEF Positions
    <3>2. First(Positions(Semicolon, t, a + 1)) = end
      BY <1>1, <1>2, <2>1, <3>1, FirstIs
    <3> QED
      BY <3>2
  <2>3. CASE ~(end <= Len(t))
    <3>1. Positions(Semicolon, t, a + 1) = {}
      BY <1>1, <2>1, <2>3 DEF Positions
    <3>2. end = Len(t) + 1
      BY <1>1, <2>3
    <3> QED
      BY <3>1, <3>2, FirstOfNone
  <2> QED
    BY <2>2, <2>3
<1>6. (a + 1) + 1 = a + 2 /\ a # 0 /\ a + 1 # 0
  OBVIOUS
<1>7. ~(BufferSize < Len(SubSeq(t, a + 2, end - 1)))
  <2>1. a + 2 \in Nat \ {0} /\ end - 1 \in Nat /\ end - 1 <= Len(t)
    BY <1>1
  <2>2. Len(SubSeq(t, a + 2, end - 1)) = IF a + 2 <= end - 1 THEN (end - 1) - (a + 2) + 1 ELSE 0
    BY <2>1, PartType
  <2> QED
    BY <1>1, <2>2, SizesNat
<1>8. GetProperty(t, key, old) = [found |-> TRUE, buff |-> SubSeq(t, (a + 1) + 1, end - 1)]
  <2> DEFINE semicolon == First(Positions(Semicolon, t, a + 1))
             value(e) == SubSeq(t, (a + 1) + 1, e - 1)
  <2>1. GetProperty(t, key, old) =
          LET e == IF semicolon = 0 THEN Len(t) + 1 ELSE semicolon
          IN  [found |-> a + 1 # 0, buff |-> IF BufferSize < Len(value(e)) THEN old ELSE value(e)]
    BY <1>3, <1>4, <1>6 DEF GetProperty
  <2> HIDE DEF semicolon, value
  <2>2. GetProperty(t, key, old) =
          [found |-> TRUE, buff |-> IF BufferSize < Len(value(end)) THEN old ELSE value(end)]
    BY <1>5, <1>6, <2>1 DEF semicolon
  <2>3. ~(BufferSize < Len(value(end)))
    BY <1>6, <1>7 DEF value
  <2> QED
    BY <2>2, <2>3 DEF value
<1> QED
  BY <1>6, <1>8

\* A value of one token.
LEMMA PropertyOfOne ==
  ASSUME NEW t \in Texts, NEW key, NEW old, NEW a \in Nat \ {0}, a + 2 <= Len(t),
         Lowered(t[a]) = key, \A b \in 1 .. Len(t) : Lowered(t[b]) = key => b = a,
         Lowered(t[a + 1]) = ":", Lowered(t[a + 2]) # Semicolon,
         a + 3 <= Len(t) => Lowered(t[a + 3]) = Semicolon
  PROVE  GetProperty(t, key, old) = [found |-> TRUE, buff |-> <<t[a + 2]>>]
<1>1. Len(t) \in Nat /\ a + 2 \in 1 .. Len(t)
  BY DEF Texts
<1>2. /\ a + 3 \in Nat /\ a + 1 < a + 3 /\ a + 3 <= Len(t) + 1 /\ (a + 3) - (a + 2) <= BufferSize
      /\ (a + 3) - 1 = a + 2
  BY <1>1, PairsDocumented, SizesNat
<1>3. \A b \in a + 2 .. (a + 3) - 1 : Lowered(t[b]) # Semicolon
  <2>1. \A b \in a + 2 .. (a + 3) - 1 : b = a + 2
    OBVIOUS
  <2> QED
    BY <2>1
<1>4. GetProperty(t, key, old) = [found |-> TRUE, buff |-> SubSeq(t, a + 2, (a + 3) - 1)]
  <2>1. PICK end \in Nat : end = a + 3
    BY <1>2
  <2>2. /\ a + 1 < end /\ end <= Len(t) + 1 /\ end - (a + 2) <= BufferSize
        /\ \A b \in a + 2 .. end - 1 : Lowered(t[b]) # Semicolon
        /\ end <= Len(t) => Lowered(t[end]) = Semicolon
    BY <1>2, <1>3, <2>1
  <2>3. GetProperty(t, key, old) = [found |-> TRUE, buff |-> SubSeq(t, a + 2, end - 1)]
    BY <2>2, PropertyFound
  <2> QED
    BY <2>1, <2>3
<1>5. SubSeq(t, a + 2, a + 2) = <<t[a + 2]>>
  BY <1>1, PartOfOne DEF Texts
<1> QED
  BY <1>2, <1>4, <1>5

\* A property whose name does not occur is not found.
LEMMA PropertyMissing ==
  ASSUME NEW t \in Texts, NEW key, NEW old, \A b \in 1 .. Len(t) : Lowered(t[b]) # key
  PROVE  ~GetProperty(t, key, old).found
<1>1. Positions(key, t, 0) = {}
  BY DEF Positions, Texts
<1>2. First(Positions(key, t, 0)) = 0
  BY <1>1, FirstOfNone
<1> QED
  BY <1>2 DEF GetProperty

\* In a documented text the library finds what the pair of a name gives, and
\* nothing under a name that no pair has.
LEMMA GetPropertyIs ==
  ASSUME NEW list \in PairLists, NEW terminated \in BOOLEAN, NEW key \in KeySet, NEW old
  PROVE  LET property == GetProperty(TextOf(list, terminated), key, old)
         IN  /\ property.found <=> \E n \in DOMAIN list : Lowered(list[n][1]) = key
             /\ \A n \in DOMAIN list :
                  Lowered(list[n][1]) = key => property.buff = <<list[n][2]>>
<1>1. PICK t : t = TextOf(list, terminated)
  OBVIOUS
<1>2. PICK k : k = Len(list)
  OBVIOUS
<1>3. /\ k \in Nat \ {0} /\ DOMAIN list = 1 .. k /\ DOMAIN t = 1 .. Len(t)
      /\ \A n \in 1 .. k : list[n] \in Pairs
      /\ \A n \in 1 .. k : /\ t[4 * n - 3] = list[n][1] /\ t[4 * n - 2] = ":"
                           /\ t[4 * n - 1] = list[n][2] /\ (4 * n <= Len(t) => t[4 * n] = Semicolon)
      /\ \A a \in 1 .. Len(t) : \E n \in 1 .. k : a \in {4 * n - 3, 4 * n - 2, 4 * n - 1, 4 * n}
  <2>1. k \in Nat \ {0} /\ DOMAIN list = 1 .. k /\ DOMAIN t = 1 .. Len(t)
    BY <1>1, <1>2, TextOfIs
  <2>2. \A n \in 1 .. k : list[n] \in Pairs
    BY <1>1, <1>2, TextOfIs
  <2>3. \A n \in 1 .. k : /\ t[4 * n - 3] = list[n][1] /\ t[4 * n - 2] = ":"
                          /\ t[4 * n - 1] = list[n][2] /\ (4 * n <= Len(t) => t[4 * n] = Semicolon)
    BY <1>1, <1>2, TextOfIs
  <2>4. \A a \in 1 .. Len(t) : \E n \in 1 .. k : a \in {4 * n - 3, 4 * n - 2, 4 * n - 1, 4 * n}
    BY <1>1, <1>2, TextOfIs
  <2> QED
    BY ONLY <2>1, <2>2, <2>3, <2>4
<1>4. Len(t) \in {4 * k - 1, 4 * k}
  <2>1. Len(t) = 4 * k - (IF terminated THEN 0 ELSE 1)
    BY <1>1, <1>2, TextOfIs
  <2> QED
    BY <1>3, <2>1
<1>5. t \in Texts
  BY <1>1, TextOfType
<1>6. key \notin {":", Semicolon}
  BY KeyNames, Zenon DEF Semicolon
\* Only the name of a pair is the name of a property.
<1>7. ASSUME NEW a \in 1 .. Len(t), Lowered(t[a]) = key
      PROVE  \E n \in 1 .. k : a = 4 * n - 3 /\ Lowered(list[n][1]) = key
  <2>1. PICK n \in 1 .. k : a \in {4 * n - 3, 4 * n - 2, 4 * n - 1, 4 * n}
    BY <1>3
  <2>2. Lowered(list[n][2]) # key /\ Lowered(":") # key /\ Lowered(Semicolon) # key
    BY <1>3, <1>6, PairsDocumented
  <2>3. a \notin {4 * n - 2, 4 * n - 1}
    BY <1>3, <1>7, <2>2
  <2>4. a # 4 * n
    <3> SUFFICES ASSUME a = 4 * n PROVE FALSE
      OBVIOUS
    <3>1. 4 * n <= Len(t)
      BY <1>4
    <3>2. t[a] = Semicolon
      BY <1>3, <3>1
    <3> QED
      BY <1>7, <2>2, <3>2
  <2>5. a = 4 * n - 3 /\ t[a] = list[n][1]
    BY <1>3, <2>1, <2>3, <2>4
  <2> QED
    BY <1>7, <2>5
<1>8. CASE \A n \in 1 .. k : Lowered(list[n][1]) # key
  <2>1. \A a \in 1 .. Len(t) : Lowered(t[a]) # key
    BY <1>7, <1>8
  <2>2. ~GetProperty(t, key, old).found
    BY <1>5, <2>1, PropertyMissing
  <2> QED
    BY <1>1, <1>3, <1>8, <2>2
<1>9. ASSUME NEW n \in 1 .. k, Lowered(list[n][1]) = key
      PROVE  GetProperty(t, key, old) = [found |-> TRUE, buff |-> <<list[n][2]>>]
  <2>1. \A o \in 1 .. k : Lowered(list[o][1]) = key => o = n
    BY <1>3, <1>9 DEF PairLists
  <2>2. PICK a : a = 4 * n - 3
    OBVIOUS
  <2>3. /\ a \in Nat \ {0} /\ a + 2 <= Len(t) /\ n \in Nat
        /\ a + 1 = 4 * n - 2 /\ a + 2 = 4 * n - 1 /\ a + 3 = 4 * n
    <3>1. n \in Nat /\ n >= 1 /\ n <= k /\ k \in Nat
      BY <1>3
    <3>2. Len(t) = 4 * k - 1 \/ Len(t) = 4 * k
      BY <1>4
    <3> QED
      BY <2>2, <3>1, <3>2
  <2>4. t[a] = list[n][1] /\ t[a + 1] = ":" /\ t[a + 2] = list[n][2]
    BY <1>3, <2>2, <2>3
  <2>5. a + 3 <= Len(t) => t[a + 3] = Semicolon
    BY <1>3, <2>3
  <2>6. \A b \in 1 .. Len(t) : Lowered(t[b]) = key => b = a
    BY <1>7, <2>1, <2>2
  <2>7. /\ Lowered(t[a]) = key /\ Lowered(t[a + 1]) = ":" /\ Lowered(t[a + 2]) # Semicolon
        /\ a + 3 <= Len(t) => Lowered(t[a + 3]) = Semicolon
    BY <1>3, <1>9, <2>4, <2>5, PairsDocumented
  <2>8. GetProperty(t, key, old) = [found |-> TRUE, buff |-> <<t[a + 2]>>]
    BY <1>5, <2>3, <2>6, <2>7, PropertyOfOne
  <2> QED
    BY <2>4, <2>8
<1>10. CASE \E n \in 1 .. k : Lowered(list[n][1]) = key
  <2>1. PICK n \in 1 .. k : Lowered(list[n][1]) = key
    BY <1>10
  <2>2. PICK property : property = GetProperty(t, key, old)
    OBVIOUS
  <2>3. property.found
    <3>1. property = [found |-> TRUE, buff |-> <<list[n][2]>>]
      BY <1>9, <2>1, <2>2
    <3> QED
      BY <3>1
  <2>4. ASSUME NEW m \in 1 .. k, Lowered(list[m][1]) = key
        PROVE  property.buff = <<list[m][2]>>
    <3>1. property = [found |-> TRUE, buff |-> <<list[m][2]>>]
      BY <1>9, <2>2, <2>4
    <3> QED
      BY <3>1
  <2> QED
    BY <1>1, <1>3, <2>1, <2>2, <2>3, <2>4
<1> QED
  BY <1>8, <1>10

\* No property is read twice.
LEMMA KeysDiffer == \A n, o \in 1 .. 9 : Keys[n] = Keys[o] => n = o
BY DEF Keys

\* Reading a property of a documented text.
LEMMA ReadingIs ==
  ASSUME NEW list \in PairLists, NEW terminated \in BOOLEAN, NEW key \in KeySet,
         SettingsOK(settings), NEW new,
         new = Reading(key, TextOf(list, terminated),
                       [settings |-> settings, buff |-> buff, changed |-> changed]).settings
  PROVE  /\ new[key] = Wanted(list)[key]
         /\ \A other \in KeySet \ {key} : new[other] = settings[other]
<1> DEFINE named(n) == Lowered(list[n][1]) = key
           property == GetProperty(TextOf(list, terminated), key, buff)
<1>1. /\ property.found <=> \E n \in DOMAIN list : named(n)
      /\ \A n \in DOMAIN list : named(n) => property.buff = <<list[n][2]>>
  BY GetPropertyIs
<1>2. new = IF ~property.found THEN settings
            ELSE [settings EXCEPT ![key] = Converted(key, property.buff, settings[key])]
  BY DEF Reading
<1>3. Wanted(list)[key] =
        IF \E n \in DOMAIN list : named(n)
          THEN Converted(key, <<list[CHOOSE n \in DOMAIN list : named(n)][2]>>, settings[key])
          ELSE settings[key]
  BY DEF Wanted
<1> HIDE DEF property
<1>4. CASE \E n \in DOMAIN list : named(n)
  <2>1. PICK n : n = CHOOSE m \in DOMAIN list : named(m)
    OBVIOUS
  <2>2. n \in DOMAIN list /\ named(n)
    BY <1>4, <2>1
  <2>3. property.buff = <<list[n][2]>> /\ property.found
    BY <1>1, <2>2
  <2>4. Wanted(list)[key] = Converted(key, property.buff, settings[key])
    BY <1>3, <1>4, <2>1, <2>3
  <2> QED
    BY <1>2, <2>3, <2>4 DEF SettingsOK
<1>5. CASE ~(\E n \in DOMAIN list : named(n))
  BY <1>1, <1>2, <1>3, <1>5
<1> QED
  BY <1>4, <1>5

\* Every step keeps what the text asks for.
LEMMA DocumentedNext == Inv /\ DocumentedInv /\ [Next]_vars => DocumentedInv'
<1> SUFFICES ASSUME Inv, DocumentedInv, [Next]_vars PROVE DocumentedInv'
  OBVIOUS
<1>1. CASE SetConfiguration
  <2>1. CASE /\ \E list \in PairLists, terminated \in BOOLEAN :
                  text' = TextOf(list, terminated) /\ wanted' = Wanted(list)
             /\ stored' = {}
    <3>1. PICK list \in PairLists, terminated \in BOOLEAN :
            text' = TextOf(list, terminated) /\ wanted' = Wanted(list)
      BY <2>1
    <3>2. pc' = "set" /\ stored' # KeySet /\ settings' = settings /\ at' = 1
      BY <1>1, <2>1, KeyNames DEF SetConfiguration
    <3>3. Wanted(list)' = Wanted(list)
      BY <3>2 DEF Wanted
    <3>4. ReadKeys' = {}
      BY <3>2 DEF ReadKeys
    <3> QED
      BY <3>1, <3>2, <3>3, <3>4 DEF DocumentedInv
  <2>2. CASE stored' = KeySet
    BY <2>2 DEF DocumentedInv
  <2> QED
    BY <1>1, <2>1, <2>2 DEF SetConfiguration
<1>2. CASE SetProperty
  <2>1. at \in 1 .. 9 /\ Keys[at] \in KeySet /\ pc = "set" /\ pc' = "set"
    BY <1>2, KeyNames DEF SetProperty, Inv, TypeOK
  <2>2. UNCHANGED <<text, wanted, stored>> /\ at' = at + 1
    BY <1>2 DEF SetProperty
  <2>3. CASE stored = KeySet
    BY <2>2, <2>3 DEF DocumentedInv
  <2>4. CASE stored # KeySet
    <3>1. PICK list \in PairLists, terminated \in BOOLEAN :
            /\ text = TextOf(list, terminated)
            /\ \A key \in KeySet \ stored :
                 wanted[key] = IF key \in ReadKeys THEN settings[key] ELSE Wanted(list)[key]
      BY <2>1, <2>4 DEF DocumentedInv
    <3>2. settings' = Reading(Keys[at], text,
                              [settings |-> settings, buff |-> buff, changed |-> changed]).settings
      BY <1>2 DEF SetProperty
    <3>3. /\ settings'[Keys[at]] = Wanted(list)[Keys[at]]
          /\ \A other \in KeySet \ {Keys[at]} : settings'[other] = settings[other]
      BY <2>1, <3>1, <3>2, ReadingIs DEF Inv, TypeOK
    <3>4. ReadKeys' = ReadKeys \union {Keys[at]} /\ Keys[at] \notin ReadKeys
      <4>1. Keys[at] \notin ReadKeys
        BY <2>1, KeysDiffer DEF ReadKeys
      <4>2. 1 .. at' - 1 = (1 .. at - 1) \union {at}
        BY <2>1, <2>2
      <4> QED
        BY <4>1, <4>2 DEF ReadKeys
    <3>5. \A key \in KeySet \ {Keys[at]} : Wanted(list)'[key] = Wanted(list)[key]
      BY <3>3 DEF Wanted
    <3>6. \A key \in KeySet \ stored' :
            wanted'[key] = IF key \in ReadKeys' THEN settings'[key] ELSE Wanted(list)'[key]
      BY <2>2, <3>1, <3>3, <3>4, <3>5
    <3> QED
      BY <2>1, <2>2, <2>4, <3>1, <3>6 DEF DocumentedInv
  <2> QED
    BY <2>3, <2>4
<1>3. CASE SetEnds
  <2>1. pc = "set" /\ pc' = "out" /\ UNCHANGED <<settings, wanted, stored>>
    BY <1>3 DEF SetEnds, setting, link
  <2>2. KeySet \subseteq ReadKeys
    <3>1. at - 1 = 9
      BY <1>3, KeyNames DEF SetEnds, Inv, TypeOK
    <3> QED
      BY <3>1, KeyNames DEF ReadKeys, KeySet
  <2>3. \A key \in KeySet \ stored : settings[key] = wanted[key]
    BY <2>1, <2>2 DEF DocumentedInv
  <2> QED
    BY <2>1, <2>3 DEF DocumentedInv
<1>4. CASE Store
  <2>1. PICK key \in {"port", "baund"} :
          /\ \E value \in Found[key] : settings' = [settings EXCEPT ![key] = value]
          /\ stored' = stored \union {key}
    BY <1>4 DEF Store
  <2>2. key \in KeySet /\ UNCHANGED <<pc, text, wanted, at>>
    BY <1>4, KeyNames DEF Store, setting, link
  <2>3. \A other \in KeySet \ stored' : settings'[other] = settings[other] /\ other \notin stored
    BY <2>1 DEF Inv, TypeOK, SettingsOK
  <2>4. CASE pc = "set" /\ stored # KeySet
    <3>1. PICK list \in PairLists, terminated \in BOOLEAN :
            /\ text = TextOf(list, terminated)
            /\ \A k \in KeySet \ stored :
                 wanted[k] = IF k \in ReadKeys THEN settings[k] ELSE Wanted(list)[k]
      BY <2>4 DEF DocumentedInv
    <3>2. \A other \in KeySet \ stored' : Wanted(list)'[other] = Wanted(list)[other]
      BY <2>3 DEF Wanted
    <3>3. \A k \in KeySet \ stored' :
            wanted'[k] = IF k \in ReadKeys' THEN settings'[k] ELSE Wanted(list)'[k]
      BY <2>2, <2>3, <3>1, <3>2 DEF ReadKeys
    <3>4. pc' = "set" /\ text' = TextOf(list, terminated)
      BY <2>2, <2>4, <3>1
    <3>5. CASE stored' = KeySet
      BY <3>5 DEF DocumentedInv
    <3>6. CASE stored' # KeySet
      BY <3>3, <3>4, <3>6 DEF DocumentedInv
    <3> QED
      BY <3>5, <3>6
  <2>5. CASE ~(pc = "set" /\ stored # KeySet)
    <3>1. \A other \in KeySet \ stored : settings[other] = wanted[other]
      BY <2>5 DEF DocumentedInv
    <3>2. \A other \in KeySet \ stored' : settings'[other] = wanted'[other]
      BY <2>2, <2>3, <3>1
    <3>3. ~(pc' = "set" /\ stored' # KeySet)
      BY <2>1, <2>2, <2>5 DEF Inv, TypeOK
    <3> QED
      BY ONLY <3>2, <3>3 DEF DocumentedInv
  <2> QED
    BY <2>4, <2>5
<1>5. CASE /\ UNCHANGED <<settings, stored, wanted, text>>
           /\ (pc # "set" /\ pc' # "set") \/ UNCHANGED <<pc, at>>
  <2>1. \A list : Wanted(list)' = Wanted(list)
    BY <1>5 DEF Wanted
  <2> QED
    BY <1>5, <2>1 DEF DocumentedInv, ReadKeys
<1>6. CASE GetConfiguration \/ PrintProperty \/ PrintEnds \/ Told
  BY <1>5, <1>6 DEF GetConfiguration, PrintProperty, PrintEnds, Told, setting, link
<1>7. CASE Open \/ Link \/ Close \/ UNCHANGED vars
  BY <1>5, <1>7 DEF Open, Link, Close, setting, link, vars
<1> QED
  BY <1>1, <1>2, <1>3, <1>4, <1>6, <1>7 DEF Next

\* A configuration text of the documented form sets every property it names to
\* the value it gives and no other, in whatever order and case the names come,
\* for any pairs, any number of them and any buffer that holds their values;
\* only what the search stores meanwhile is left out.
THEOREM DocumentedTextsWork == Spec => []DocumentedTextWorks
<1>1. Init => DocumentedInv
  BY DEF Init, DocumentedInv
<1>2. Inv /\ DocumentedInv => DocumentedTextWorks
  BY DEF DocumentedInv, DocumentedTextWorks
<1> QED
  BY <1>1, <1>2, DocumentedNext, InvHolds, PTL DEF Spec

-----------------------------------------------------------------------------
(***************************************************************************)
(* What is printed.                                                        *)
(***************************************************************************)
\* data is what the buffers hold, unless something was appended since.
ContentInv ==
  /\ pc = "print" => Content(builder) = pieces
  /\ pc = "told" => builder.data = pieces
  /\ ~builder.changed => builder.data = Content(builder)
  /\ builder.length = 0 => Content(builder) = <<>>

\* The port is a plain one, for the first property that is read is the port.
PortInv ==
  /\ PlainPort(settings.port)
  /\ pc = "set" /\ at = 1 =>
       /\ buff \in Garbage
       /\ \/ text \in OtherTexts
          \/ \E list \in PairLists, terminated \in BOOLEAN : text = TextOf(list, terminated)

\* The port a text names is plain.
LEMMA PortStaysPlain == Inv /\ PortInv /\ [Next]_vars => PortInv'
<1> SUFFICES ASSUME Inv, PortInv, [Next]_vars PROVE PortInv'
  OBVIOUS
<1>1. CASE SetConfiguration
  BY <1>1 DEF SetConfiguration, PortInv
<1>2. CASE SetProperty
  <2>1. at \in 1 .. 9 /\ Keys[at] \in KeySet /\ at' # 1 /\ (Keys[at] = "port" => at = 1) /\ pc = "set"
    BY <1>2, KeyNames, KeysDiffer DEF SetProperty, Inv, TypeOK, Keys
  <2>2. PICK property : property = GetProperty(text, Keys[at], buff)
    OBVIOUS
  <2>3. settings' = IF ~property.found THEN settings
                    ELSE [settings EXCEPT ![Keys[at]] =
                            Converted(Keys[at], property.buff, settings[Keys[at]])]
    BY <1>2, <2>2 DEF SetProperty, Reading
  <2>4. CASE Keys[at] = "port" /\ property.found
    <3>1. settings'.port = property.buff
      BY <2>3, <2>4, KeyNames DEF Converted, Inv, TypeOK, SettingsOK
    <3>2. PlainPort(property.buff)
      <4>1. CASE text \in OtherTexts
        BY <2>1, <2>2, <2>4, <4>1, PortsArePlain DEF PortInv
      <4>2. ASSUME NEW list \in PairLists, NEW terminated \in BOOLEAN,
                   text = TextOf(list, terminated)
            PROVE  PlainPort(property.buff)
        <5>1. PICK n \in DOMAIN list : property.buff = <<list[n][2]>>
          BY <2>1, <2>2, <2>4, <4>2, GetPropertyIs
        <5>2. list[n] \in Pairs
          BY <5>1, TextOfIs
        <5>3. Lowered(list[n][2]) \notin {Semicolon} \union KeySet
          BY <5>2, PairsDocumented
        <5>4. /\ Len(property.buff) = 1 /\ DOMAIN property.buff = {1}
              /\ property.buff[1] = list[n][2]
          BY <5>1
        <5> QED
          BY <5>3, <5>4, PortsArePlain, PairsDocumented, SizesNat, BuffersHoldText DEF PlainPort
      <4> QED
        BY <2>1, <2>4, <4>1, <4>2 DEF PortInv
    <3> QED
      BY <2>1, <3>1, <3>2 DEF PortInv
  <2>5. CASE ~(Keys[at] = "port" /\ property.found)
    <3>1. settings'.port = settings.port
      BY <2>1, <2>3, <2>5, KeyNames DEF Inv, TypeOK, SettingsOK
    <3> QED
      BY <2>1, <3>1 DEF PortInv
  <2> QED
    BY <2>4, <2>5
<1>3. CASE Store
  <2>1. PICK key \in {"port", "baund"} :
          \E value \in Found[key] : settings' = [settings EXCEPT ![key] = value]
    BY <1>3 DEF Store
  <2>2. PlainPort(settings'.port)
    BY <2>1, KeyNames, PortsArePlain DEF PortInv, Inv, TypeOK, SettingsOK
  <2> QED
    BY <1>3, <2>2 DEF Store, setting, link, PortInv
<1>4. CASE SetEnds \/ GetConfiguration \/ PrintProperty \/ PrintEnds \/ Told \/ Open \/ Link \/ Close
              \/ UNCHANGED vars
  BY <1>4 DEF SetEnds, GetConfiguration, PrintProperty, PrintEnds, Told, Open, Link, Close, vars,
              setting, link, PortInv
<1> QED
  BY <1>1, <1>2, <1>3, <1>4 DEF Next

\* What is printed of a property fits what is formatted at once.
LEMMA PieceIs ==
  ASSUME Inv, PortInv, NEW key \in KeySet
  PROVE  LET name == <<key, ":">>
             value == ValueText(key)
             piece == name \o value \o <<Semicolon>>
         IN  /\ name \in Texts /\ Len(name) = 2 /\ value \in Texts
             /\ value \o <<Semicolon>> \in Texts /\ Len(value \o <<Semicolon>>) > 0
             /\ piece \in Texts /\ Len(piece) > 0 /\ Len(piece) < Alloc
             /\ \A t \in Texts : t \o piece = (t \o name) \o (value \o <<Semicolon>>)
<1>1. PICK name : name = <<key, ":">>
  OBVIOUS
<1>2. PICK value : value = ValueText(key)
  OBVIOUS
<1>3. PICK end : end = <<Semicolon>>
  OBVIOUS
<1>4. name \in Texts /\ Len(name) = 2
  <2>1. key \in Tokens /\ ":" \in Tokens
    BY TokensSuffice
  <2>2. name \in Texts
    BY <1>1, <2>1, ShortType
  <2> QED
    BY <1>1, <2>2
<1>5. end \in Texts /\ Len(end) = 1
  BY <1>3, TokensSuffice DEF Texts
<1>6. value \in Texts
  BY <1>2, ValueTextType DEF Inv, TypeOK
<1>7. Len(value) + 3 < Alloc
  <2>1. CASE key = "port"
    <3>1. value = settings.port
      BY <1>2, <2>1, KeyNames DEF ValueText
    <3> QED
      BY <3>1 DEF PortInv, PlainPort
  <2>2. CASE key # "port"
    <3>1. Len(value) = 1
      BY <1>2, <2>2 DEF ValueText
    <3> QED
      BY <3>1, PortsArePlain, BuffersHoldText
  <2> QED
    BY <2>1, <2>2
<1>8. /\ value \o end \in Texts /\ Len(value \o end) = Len(value) + 1 /\ Len(value) \in Nat
      /\ name \o value \o end \in Texts /\ Len(name \o value \o end) = 2 + Len(value) + 1
  <2>1. \A s, t \in Texts : s \o t \in Texts /\ Len(s \o t) = Len(s) + Len(t)
    BY ConcatProperties, Zenon DEF Texts
  <2>2. value \o end \in Texts /\ Len(value \o end) = Len(value) + 1
    BY ONLY <1>5, <1>6, <2>1
  <2>3. name \o value \in Texts /\ Len(name \o value) = 2 + Len(value)
    BY ONLY <1>4, <1>6, <2>1
  <2>4. /\ (name \o value) \o end \in Texts
        /\ Len((name \o value) \o end) = (2 + Len(value)) + 1
    BY ONLY <1>5, <2>1, <2>3
  <2> QED
    BY <1>6, <2>2, <2>4 DEF Texts
<1>9. ASSUME NEW t \in Texts
      PROVE  t \o (name \o value \o end) = (t \o name) \o (value \o end)
  <2>1. (name \o value) \o end = name \o (value \o end)
    BY ONLY <1>4, <1>5, <1>6, TextsAssociate
  <2>2. (t \o name) \o (value \o end) = t \o (name \o (value \o end))
    BY ONLY <1>4, <1>8, <1>9, TextsAssociate
  <2> QED
    BY ONLY <2>1, <2>2
<1>10. Len(value \o end) > 0 /\ Len(name \o value \o end) > 0 /\ Len(name \o value \o end) < Alloc
  BY <1>7, <1>8, BuffersHoldText
<1> QED
  BY <1>1, <1>2, <1>3, <1>4, <1>6, <1>8, <1>9, <1>10

\* Every step keeps data and the buffers together.
LEMMA ContentNext == Inv /\ PortInv /\ ContentInv /\ [Next]_vars => ContentInv'
<1> SUFFICES ASSUME Inv, PortInv, ContentInv, [Next]_vars PROVE ContentInv'
  OBVIOUS
<1>1. BuilderOK(builder) /\ Content(builder) \in Texts
  BY ContentType DEF Inv, TypeOK, BuilderOK
<1>2. CASE GetConfiguration
  <2>1. builder' = Cleared(builder) /\ pieces' = <<>> /\ pc' = "print"
    BY <1>2 DEF GetConfiguration
  <2>2. builder'.chunks = <<>>
    BY <1>1, <2>1 DEF Cleared, NewBuilder, BuilderOK
  <2>3. Content(builder') = <<>>
    BY <2>2, ContentOfNone
  <2>4. ~builder'.changed => builder'.data = <<>>
    <3>1. CASE builder.length # 0
      BY <2>1, <3>1 DEF Cleared, NewBuilder
    <3>2. CASE builder.length = 0
      <4>1. builder'.changed = builder.changed /\ builder'.data = builder.data
        BY <1>1, <2>1, <3>2 DEF Cleared, BuilderOK
      <4> QED
        BY <3>2, <4>1 DEF ContentInv
    <3> QED
      BY <3>1, <3>2
  <2> QED
    BY <2>1, <2>3, <2>4 DEF ContentInv
<1>3. CASE PrintProperty
  <2>1. at \in 1 .. 9 /\ pc = "print" /\ pc' = "print"
    <3>1. at <= Len(Keys) /\ pc = "print" /\ pc' = "print"
      BY <1>3 DEF PrintProperty
    <3> QED
      BY <3>1, KeyNames DEF Inv, TypeOK
  <2>2. PICK key \in KeySet : key = Keys[at]
    BY <2>1, KeyNames
  <2>3. PICK name : name = <<key, ":">>
    OBVIOUS
  <2>4. PICK rest : rest = ValueText(key) \o <<Semicolon>>
    OBVIOUS
  <2>5. PICK piece : piece = <<key, ":">> \o ValueText(key) \o <<Semicolon>>
    OBVIOUS
  <2>6. /\ name \in Texts /\ Len(name) = 2 /\ rest \in Texts /\ Len(rest) > 0
        /\ piece \in Texts /\ Len(piece) > 0 /\ Len(piece) < Alloc
        /\ \A t \in Texts : t \o piece = (t \o name) \o rest
    BY <2>3, <2>4, <2>5, PieceIs
  <2>7. \/ builder' = builder /\ pieces' = pieces
        \/ /\ pieces' = pieces \o piece
           /\ \/ builder' = AppendTo(AppendTo(builder, name), rest)
              \/ builder' = FormatTo(builder, piece)
    BY <1>3, <2>2, <2>3, <2>4, <2>5 DEF PrintProperty
  <2>8. CASE builder' = builder /\ pieces' = pieces
    BY <2>1, <2>8 DEF ContentInv
  <2>9. ASSUME pieces' = pieces \o piece, builder' = AppendTo(AppendTo(builder, name), rest)
        PROVE  ContentInv'
    <3>1. BuilderOK(AppendTo(builder, name))
      BY <1>1, <2>6, AppendType
    <3>2. Content(builder') = (Content(builder) \o name) \o rest
      BY <1>1, <2>6, <2>9, <3>1, ContentAppended
    <3>3. Content(builder') = pieces'
      BY <1>1, <2>1, <2>6, <2>9, <3>2 DEF ContentInv
    <3>4. builder'.changed /\ builder'.length # 0
      <4>1. /\ builder'.changed
            /\ builder'.length = AppendTo(builder, name).length + Len(rest)
            /\ AppendTo(builder, name).length \in Nat
        BY <2>9, <3>1 DEF AppendTo, BuilderOK
      <4> QED
        BY <2>6, <4>1 DEF Texts
    <3> QED
      BY <2>1, <3>3, <3>4 DEF ContentInv
  <2>10. ASSUME pieces' = pieces \o piece, builder' = FormatTo(builder, piece)
         PROVE  ContentInv'
    <3>1. builder' = AppendTo(builder, piece)
      BY <2>6, <2>10 DEF FormatTo
    <3>2. Content(builder') = Content(builder) \o piece
      BY <1>1, <2>6, <3>1, ContentAppended
    <3>3. Content(builder') = pieces'
      BY <2>1, <2>10, <3>2 DEF ContentInv
    <3>4. builder'.changed /\ builder'.length # 0
      <4>1. builder'.changed /\ builder'.length = builder.length + Len(piece)
        BY <1>1, <3>1 DEF AppendTo, BuilderOK
      <4> QED
        BY <1>1, <2>6, <4>1 DEF Texts, BuilderOK
    <3> QED
      BY <2>1, <3>3, <3>4 DEF ContentInv
  <2> QED
    BY <2>7, <2>8, <2>9, <2>10
<1>4. CASE PrintEnds
  <2>1. builder' = Collected(builder) /\ pc = "print" /\ pc' = "told" /\ pieces' = pieces
    BY <1>4 DEF PrintEnds
  <2>2. /\ builder'.chunks = builder.chunks /\ builder'.length = builder.length
        /\ builder'.data = IF builder.changed THEN Content(builder) ELSE builder.data
    BY <1>1, <2>1 DEF Collected, BuilderOK
  <2>3. Content(builder') = Content(builder)
    BY <2>2, ContentOfChunks
  <2>4. builder'.data = Content(builder)
    BY <2>2 DEF ContentInv
  <2> QED
    BY <2>1, <2>2, <2>3, <2>4 DEF ContentInv
<1>5. CASE SetConfiguration \/ SetProperty \/ SetEnds \/ Told \/ Open \/ Link \/ Close \/ Store
              \/ UNCHANGED vars
  <2>1. builder' = builder /\ pieces' = pieces /\ (pc' = pc \/ pc' \notin {"print", "told"})
    BY <1>5 DEF SetConfiguration, SetProperty, SetEnds, Told, Open, Link, Close, Store, vars, setting, link
  <2> QED
    BY <2>1 DEF ContentInv
<1> QED
  BY <1>2, <1>3, <1>4, <1>5 DEF Next

LEMMA ContentHolds == Spec => [](PortInv /\ ContentInv)
<1>1. Init => PortInv /\ ContentInv
  <2> SUFFICES ASSUME Init PROVE PortInv /\ ContentInv
    OBVIOUS
  <2>1. builder.chunks = <<>> /\ builder.data = <<>>
    BY DEF Init, NewBuilder
  <2>2. settings.port = <<>> /\ Len(settings.port) = 0
    BY DEF Init, Defaults
  <2>3. Content(builder) = <<>>
    BY <2>1, ContentOfNone
  <2>4. PlainPort(settings.port)
    BY <2>2, PortsArePlain, BuffersHoldText, SizesNat DEF PlainPort
  <2> QED
    BY <2>1, <2>2, <2>3, <2>4 DEF Init, PortInv, ContentInv
<1> QED
  BY <1>1, PortStaysPlain, ContentNext, InvHolds, PTL DEF Spec

\* What IcBox_getConfiguration returns is all that was appended since it
\* began, in its order, however the buffers break it up, whatever was collected
\* or left from earlier calls.
THEOREM TextIsContent == Spec => []DataIsContent
<1>1. ContentInv => DataIsContent
  BY DEF ContentInv, DataIsContent
<1> QED
  BY <1>1, ContentHolds, PTL

-----------------------------------------------------------------------------
(***************************************************************************)
(* What is printed, token by token, and what reading it gives.             *)
(***************************************************************************)
\* The tokens of the port, none for an empty one.
PortLength(st) == IF st.port = <<>> THEN 0 ELSE Len(st.port) + 3

\* The value of a property that is not the port.
ValueOf(st, key) == IF key \in DOMAIN Words THEN st[key] ELSE Decimal[st[key]]

\* t is what is printed of the first n properties.
Printed(st, t, n) ==
  /\ Len(t) = IF n = 0 THEN 0 ELSE PortLength(st) + 4 * (n - 1)
  /\ n > 0 /\ st.port # <<>> =>
       /\ t[1] = "port" /\ t[2] = ":" /\ t[PortLength(st)] = Semicolon
       /\ \A k \in 1 .. Len(st.port) : t[k + 2] = st.port[k]
  /\ \A k \in 2 .. n :
       LET a == PortLength(st) + 4 * (k - 2)
       IN  /\ t[a + 1] = Keys[k] /\ t[a + 2] = ":"
           /\ t[a + 3] = ValueOf(st, Keys[k]) /\ t[a + 4] = Semicolon

PrintedInv ==
  /\ settings = [key \in KeySet |-> settings[key]]
  /\ pc = "print" /\ ~torn => Printed(settings, pieces, at - 1)
  /\ pc = "told" /\ ~torn => Printed(settings, pieces, 9)
  /\ pc = "told" => pieces \in Texts

LEMMA PortLengthNat ==
  ASSUME NEW st, st.port \in Texts
  PROVE  /\ PortLength(st) \in Nat /\ Len(st.port) \in Nat
         /\ st.port # <<>> => PortLength(st) = Len(st.port) + 3 /\ Len(st.port) > 0
BY DEF PortLength, Texts

\* The tokens of two texts together.
LEMMA ConcatIs ==
  ASSUME NEW s \in Seq(Tokens), NEW t \in Seq(Tokens), NEW st, st = s \o t
  PROVE  /\ st \in Seq(Tokens) /\ Len(st) = Len(s) + Len(t)
         /\ Len(s) \in Nat /\ Len(t) \in Nat
         /\ \A k \in 1 .. Len(s) : st[k] = s[k]
         /\ \A k \in 1 .. Len(t) : st[Len(s) + k] = t[k]
<1>1. /\ st \in Seq(Tokens) /\ Len(st) = Len(s) + Len(t)
      /\ \A i \in 1 .. Len(s) + Len(t) : st[i] = IF i <= Len(s) THEN s[i] ELSE t[i - Len(s)]
  BY ConcatProperties
<1>2. Len(s) \in Nat /\ Len(t) \in Nat
  OBVIOUS
<1>3. \A k \in 1 .. Len(s) : st[k] = s[k]
  BY <1>1, <1>2
<1>4. ASSUME NEW k \in 1 .. Len(t) PROVE st[Len(s) + k] = t[k]
  <2>1. /\ Len(s) + k \in 1 .. Len(s) + Len(t) /\ ~(Len(s) + k <= Len(s))
        /\ (Len(s) + k) - Len(s) = k
    BY <1>2
  <2> QED
    BY ONLY <1>1, <2>1
<1> QED
  BY <1>1, <1>2, <1>3, <1>4

\* The tokens of a text with one more property.
LEMMA PieceElements ==
  ASSUME Inv, PortInv, NEW key \in KeySet, NEW t \in Texts, NEW new,
         new = t \o (<<key, ":">> \o ValueText(key) \o <<Semicolon>>)
  PROVE  LET value == ValueText(key)
         IN  /\ Len(value) \in Nat /\ Len(t) \in Nat /\ Len(new) = Len(t) + Len(value) + 3
             /\ \A a \in 1 .. Len(t) : new[a] = t[a]
             /\ new[Len(t) + 1] = key /\ new[Len(t) + 2] = ":"
             /\ \A k \in 1 .. Len(value) : new[Len(t) + k + 2] = value[k]
             /\ new[Len(t) + Len(value) + 3] = Semicolon
<1>1. PICK name : name = <<key, ":">>
  OBVIOUS
<1>2. PICK value : value = ValueText(key)
  OBVIOUS
<1>3. PICK rest : rest = value \o <<Semicolon>>
  OBVIOUS
<1>4. PICK end : end = <<Semicolon>>
  OBVIOUS
<1>5. /\ name \in Seq(Tokens) /\ value \in Seq(Tokens) /\ end \in Seq(Tokens)
      /\ t \in Seq(Tokens)
  BY <1>1, <1>2, <1>4, PieceIs, TokensSuffice DEF Texts
<1>6. /\ Len(name) = 2 /\ name[1] = key /\ name[2] = ":"
      /\ Len(end) = 1 /\ end[1] = Semicolon
  BY <1>1, <1>4
<1>7. new = (t \o name) \o rest
  BY <1>1, <1>2, <1>3, PieceIs
<1>8. /\ rest \in Seq(Tokens) /\ Len(rest) = Len(value) + 1
      /\ \A k \in 1 .. Len(value) : rest[k] = value[k]
      /\ rest[Len(value) + 1] = Semicolon
  <2>1. rest = value \o end
    BY <1>3, <1>4
  <2> QED
    <3>1. /\ rest \in Seq(Tokens) /\ Len(rest) = Len(value) + Len(end)
          /\ \A k \in 1 .. Len(value) : rest[k] = value[k]
          /\ \A k \in 1 .. Len(end) : rest[Len(value) + k] = end[k]
      BY <1>5, <2>1, ConcatIs
    <3>2. 1 \in 1 .. Len(end)
      BY <1>6
    <3> QED
      BY <1>5, <1>6, <3>1, <3>2
<1>9. PICK head : head = t \o name
  OBVIOUS
<1>10. /\ head \in Seq(Tokens) /\ Len(head) = Len(t) + 2
      /\ \A a \in 1 .. Len(t) : head[a] = t[a]
      /\ head[Len(t) + 1] = key /\ head[Len(t) + 2] = ":"
  <2>1. /\ head \in Seq(Tokens) /\ Len(head) = Len(t) + Len(name)
        /\ \A k \in 1 .. Len(t) : head[k] = t[k]
        /\ \A k \in 1 .. Len(name) : head[Len(t) + k] = name[k]
    BY <1>5, <1>9, ConcatIs
  <2>2. 1 \in 1 .. Len(name) /\ 2 \in 1 .. Len(name)
    BY <1>6
  <2> QED
    BY <1>5, <1>6, <2>1, <2>2
<1>11. /\ Len(new) = Len(head) + Len(rest)
       /\ \A a \in 1 .. Len(head) : new[a] = head[a]
       /\ \A a \in 1 .. Len(rest) : new[Len(head) + a] = rest[a]
  <2>1. new = head \o rest
    BY <1>7, <1>9
  <2>2. head \in Seq(Tokens) /\ rest \in Seq(Tokens)
    BY <1>8, <1>10
  <2> QED
    BY ONLY <2>1, <2>2, ConcatIs
<1>12. Len(t) \in Nat /\ Len(value) \in Nat
  BY <1>6
<1>13. \A k \in 1 .. Len(value) : new[Len(t) + k + 2] = value[k]
  <2> SUFFICES ASSUME NEW k \in 1 .. Len(value) PROVE new[Len(t) + k + 2] = value[k]
    OBVIOUS
  <2>1. k \in 1 .. Len(rest) /\ Len(t) + k + 2 = Len(head) + k
    BY <1>8, <1>10, <1>12
  <2> QED
    BY <1>8, <1>11, <2>1
<1>14. new[Len(t) + Len(value) + 3] = Semicolon
  <2>1. Len(value) + 1 \in 1 .. Len(rest) /\ Len(t) + Len(value) + 3 = Len(head) + (Len(value) + 1)
    BY <1>8, <1>10, <1>12
  <2> QED
    BY <1>8, <1>11, <2>1
<1>15. /\ Len(new) = Len(t) + Len(value) + 3
       /\ \A a \in 1 .. Len(t) : new[a] = t[a]
       /\ new[Len(t) + 1] = key /\ new[Len(t) + 2] = ":"
  <2>1. 1 .. Len(t) \subseteq 1 .. Len(head) /\ {Len(t) + 1, Len(t) + 2} \subseteq 1 .. Len(head)
    BY <1>10, <1>12
  <2> QED
    BY <1>8, <1>10, <1>11, <1>12, <2>1
<1> QED
  BY <1>2, <1>12, <1>13, <1>14, <1>15

\* Every property adds its tokens to what is printed.
LEMMA PrintedStep ==
  ASSUME Inv, PortInv, ContentInv, PrintedInv, PrintProperty, ~torn
  PROVE  Printed(settings, pieces', at)
<1>1. at \in 1 .. 9 /\ pc = "print"
  BY KeyNames DEF PrintProperty, Inv, TypeOK
<1>2. PICK key \in KeySet : key = Keys[at]
  BY <1>1, KeyNames
<1>3. pieces \in Texts /\ Printed(settings, pieces, at - 1)
  BY <1>1, ContentType DEF ContentInv, PrintedInv, Inv, TypeOK, BuilderOK
<1>4. /\ key = "port" /\ settings.port = <<>> => pieces' = pieces
      /\ ~(key = "port" /\ settings.port = <<>>) =>
           pieces' = pieces \o (<<key, ":">> \o ValueText(key) \o <<Semicolon>>)
  BY <1>2 DEF PrintProperty
<1>5. PICK value : value = ValueText(key)
  OBVIOUS
<1>6. PICK p : p = PortLength(settings)
  OBVIOUS
<1>7. /\ p \in Nat /\ Len(settings.port) \in Nat
      /\ settings.port # <<>> => p = Len(settings.port) + 3
      /\ settings.port = <<>> => p = 0
  BY <1>6, PortLengthNat DEF Inv, TypeOK, SettingsOK, PortLength
<1>8. PICK m : m = Len(pieces)
  OBVIOUS
<1>9. ~(key = "port" /\ settings.port = <<>>) =>
        /\ m \in Nat /\ Len(value) \in Nat /\ Len(pieces') = m + Len(value) + 3
        /\ \A a \in 1 .. m : pieces'[a] = pieces[a]
        /\ pieces'[m + 1] = key /\ pieces'[m + 2] = ":"
        /\ \A k \in 1 .. Len(value) : pieces'[m + k + 2] = value[k]
        /\ pieces'[m + Len(value) + 3] = Semicolon
  <2> SUFFICES ASSUME ~(key = "port" /\ settings.port = <<>>)
               PROVE  /\ m \in Nat /\ Len(value) \in Nat /\ Len(pieces') = m + Len(value) + 3
                      /\ \A a \in 1 .. m : pieces'[a] = pieces[a]
                      /\ pieces'[m + 1] = key /\ pieces'[m + 2] = ":"
                      /\ \A k \in 1 .. Len(value) : pieces'[m + k + 2] = value[k]
                      /\ pieces'[m + Len(value) + 3] = Semicolon
    OBVIOUS
  <2>1. PICK new : new = pieces'
    OBVIOUS
  <2>2. new = pieces \o (<<key, ":">> \o ValueText(key) \o <<Semicolon>>)
    BY <1>4, <2>1
  <2>3. /\ Len(ValueText(key)) \in Nat /\ Len(pieces) \in Nat
        /\ Len(new) = Len(pieces) + Len(ValueText(key)) + 3
        /\ \A a \in 1 .. Len(pieces) : new[a] = pieces[a]
        /\ new[Len(pieces) + 1] = key /\ new[Len(pieces) + 2] = ":"
        /\ \A k \in 1 .. Len(ValueText(key)) : new[Len(pieces) + k + 2] = ValueText(key)[k]
        /\ new[Len(pieces) + Len(ValueText(key)) + 3] = Semicolon
    BY <1>3, <2>2, PieceElements
  <2> QED
    BY ONLY <1>5, <1>8, <2>1, <2>3
<1>10. CASE at = 1
  <2>1. key = "port" /\ m = 0
    BY <1>2, <1>3, <1>8, <1>10 DEF Keys, Printed
  <2>2. value = settings.port
    BY <1>5, <2>1, KeyNames DEF ValueText
  <2>3. CASE settings.port = <<>>
    <3>1. pieces' = pieces /\ Len(pieces) = 0 /\ p = 0
      BY <1>4, <1>7, <1>8, <2>1, <2>3
    <3> QED
      BY <1>6, <1>10, <2>3, <3>1 DEF Printed
  <2>4. CASE settings.port # <<>>
    <3>1. /\ Len(pieces') = p
          /\ pieces'[1] = "port" /\ pieces'[2] = ":" /\ pieces'[p] = Semicolon
          /\ \A k \in 1 .. Len(settings.port) : pieces'[k + 2] = settings.port[k]
      BY <1>7, <1>9, <2>1, <2>2, <2>4
    <3> QED
      BY <1>6, <1>7, <1>10, <3>1 DEF Printed
  <2> QED
    BY <2>3, <2>4
<1>11. CASE at # 1
  <2>1. at \in 2 .. 9 /\ key # "port"
    BY <1>1, <1>2, <1>11 DEF Keys
  <2>2. value = <<ValueOf(settings, key)>>
    BY <1>5, <2>1 DEF ValueText, ValueOf
  <2>3. m = p + 4 * (at - 2)
    BY <1>3, <1>6, <1>8, <2>1 DEF Printed
  <2>4. /\ Len(pieces') = p + 4 * (at - 1)
        /\ \A a \in 1 .. m : pieces'[a] = pieces[a]
        /\ pieces'[m + 1] = key /\ pieces'[m + 2] = ":"
        /\ pieces'[m + 3] = ValueOf(settings, key) /\ pieces'[m + 4] = Semicolon
    <3>1. Len(value) = 1 /\ value[1] = ValueOf(settings, key) /\ 1 \in 1 .. Len(value)
      BY <2>2
    <3>2. pieces'[m + 1 + 2] = value[1] /\ m + 1 + 2 = m + 3 /\ m + Len(value) + 3 = m + 4
      BY <1>9, <2>1, <3>1
    <3> QED
      BY <1>7, <1>9, <2>1, <2>3, <3>1, <3>2
  <2>5. settings.port # <<>> =>
          /\ pieces'[1] = "port" /\ pieces'[2] = ":" /\ pieces'[p] = Semicolon
          /\ \A k \in 1 .. Len(settings.port) : pieces'[k + 2] = settings.port[k]
    <3> SUFFICES ASSUME settings.port # <<>>
                 PROVE  /\ pieces'[1] = "port" /\ pieces'[2] = ":" /\ pieces'[p] = Semicolon
                        /\ \A k \in 1 .. Len(settings.port) : pieces'[k + 2] = settings.port[k]
      OBVIOUS
    <3>1. /\ pieces[1] = "port" /\ pieces[2] = ":" /\ pieces[p] = Semicolon
          /\ \A k \in 1 .. Len(settings.port) : pieces[k + 2] = settings.port[k]
      BY <1>3, <1>6, <2>1 DEF Printed
    <3>2. /\ {1, 2, p} \subseteq 1 .. m
          /\ \A k \in 1 .. Len(settings.port) : k + 2 \in 1 .. m
      BY <1>7, <2>1, <2>3
    <3> QED
      BY <2>4, <3>1, <3>2
  <2>6. ASSUME NEW k \in 2 .. at, NEW a, a = p + 4 * (k - 2)
        PROVE  /\ pieces'[a + 1] = Keys[k] /\ pieces'[a + 2] = ":"
               /\ pieces'[a + 3] = ValueOf(settings, Keys[k]) /\ pieces'[a + 4] = Semicolon
    <3>1. CASE k = at
      BY <1>2, <2>3, <2>4, <2>6, <3>1
    <3>2. CASE k # at
      <4>1. k \in 2 .. at - 1
        BY <2>1, <3>2
      <4>2. /\ pieces[a + 1] = Keys[k] /\ pieces[a + 2] = ":"
            /\ pieces[a + 3] = ValueOf(settings, Keys[k]) /\ pieces[a + 4] = Semicolon
        BY <1>3, <1>6, <2>6, <4>1 DEF Printed
      <4>3. {a + 1, a + 2, a + 3, a + 4} \subseteq 1 .. m
        BY <1>7, <2>1, <2>3, <2>6, <4>1
      <4> QED
        BY <2>4, <4>2, <4>3
    <3> QED
      BY <3>1, <3>2
  <2> QED
    BY <1>6, <2>1, <2>4, <2>5, <2>6 DEF Printed
<1> QED
  BY <1>10, <1>11

LEMMA PrintedNext == Inv /\ PortInv /\ ContentInv /\ PrintedInv /\ [Next]_vars => PrintedInv'
<1> SUFFICES ASSUME Inv, PortInv, ContentInv, PrintedInv, [Next]_vars PROVE PrintedInv'
  OBVIOUS
<1>1. CASE SetProperty
  <2>1. pc = "set" /\ pc' = "set" /\ Keys[at] \in KeySet
    BY <1>1, KeyNames DEF SetProperty, Inv, TypeOK
  <2>2. PICK property : property = GetProperty(text, Keys[at], buff)
    OBVIOUS
  <2>3. settings' = IF ~property.found THEN settings
                    ELSE [settings EXCEPT ![Keys[at]] =
                            Converted(Keys[at], property.buff, settings[Keys[at]])]
    BY <1>1, <2>2 DEF SetProperty, Reading
  <2>4. settings' = [key \in KeySet |-> settings'[key]]
    BY <2>1, <2>3 DEF PrintedInv
  <2> QED
    BY <2>1, <2>4 DEF PrintedInv
<1>2. CASE GetConfiguration
  <2>1. settings' = settings /\ pieces' = <<>> /\ at' = 1 /\ pc' = "print"
    BY <1>2 DEF GetConfiguration
  <2>2. Printed(settings, <<>>, 0)
    BY DEF Printed
  <2>3. Printed(settings', pieces', at' - 1)
    BY <2>1, <2>2
  <2> QED
    BY <2>1, <2>3 DEF PrintedInv
<1>3. CASE PrintProperty
  <2>1. settings' = settings /\ at' - 1 = at /\ pc' = "print" /\ torn' = torn
    BY <1>3 DEF PrintProperty, Inv, TypeOK
  <2>2. ~torn => Printed(settings', pieces', at' - 1)
    BY <1>3, <2>1, PrintedStep
  <2> QED
    BY <2>1, <2>2 DEF PrintedInv
<1>4. CASE PrintEnds
  <2>1. at - 1 = 9 /\ pc = "print" /\ pc' = "told" /\ UNCHANGED <<settings, pieces, torn>>
    BY <1>4, KeyNames DEF PrintEnds, Inv, TypeOK
  <2>2. pieces \in Texts
    BY <2>1, ContentType DEF ContentInv, Inv, TypeOK, BuilderOK
  <2> QED
    BY <2>1, <2>2 DEF PrintedInv
<1>5. CASE Store
  <2>1. torn' /\ \E key : \E value : settings' = [settings EXCEPT ![key] = value]
    BY <1>5 DEF Store
  <2>2. settings' = [key \in KeySet |-> settings'[key]]
    BY <2>1 DEF PrintedInv
  <2> QED
    BY <1>5, <2>1, <2>2 DEF PrintedInv, Store
<1>6. CASE SetConfiguration \/ SetEnds \/ Told \/ Open \/ Link \/ Close \/ UNCHANGED vars
  <2>1. /\ UNCHANGED <<settings, pieces, torn>>
        /\ pc' \notin {"print", "told"} \/ UNCHANGED <<pc, at>>
    BY <1>6 DEF SetConfiguration, SetEnds, Told, Open, Link, Close, vars, setting, link
  <2> QED
    BY <2>1 DEF PrintedInv
<1> QED
  BY <1>1, <1>2, <1>3, <1>4, <1>5, <1>6 DEF Next

\* A value is none of the tokens that a property is found by.
LEMMA ValuePlain ==
  ASSUME NEW st, SettingsOK(st), NEW k \in 2 .. 9
  PROVE  /\ ValueOf(st, Keys[k]) \in Tokens
         /\ Lowered(ValueOf(st, Keys[k])) \notin {":", Semicolon} \union KeySet
<1>1. PICK key \in KeySet \ {"port"} : key = Keys[k]
  <2>1. Keys[k] \in KeySet /\ Keys[k] # "port"
    <3>1. Keys[1] = "port" /\ k # 1
      BY DEF Keys
    <3> QED
      BY <3>1, KeyNames, KeysDiffer
  <2> QED
    BY <2>1
<1>2. CASE key \in DOMAIN Words
  <2>1. st[key] \in Words[key] /\ ValueOf(st, key) = st[key]
    BY <1>2 DEF SettingsOK, ValueOf
  <2>2. st[key] \in UNION {Words[w] : w \in DOMAIN Words} /\ st[key] \in Tokens
    BY <1>2, <2>1, TokensSuffice
  <2> QED
    BY <1>1, <2>1, <2>2, ValuesArePlain
<1>3. CASE key \notin DOMAIN Words
  <2>1. st[key] \in Numbers
    BY <1>3, KeyNames DEF SettingsOK
  <2>2. ValueOf(st, key) = Decimal[st[key]]
    BY <1>3 DEF ValueOf
  <2>3. PICK n \in Numbers : n = st[key]
    BY <2>1
  <2>4. Decimal[n] \in Tokens
    BY NumbersHaveDigits
  <2>5. Lowered(Decimal[n]) \notin {":", Semicolon} \union KeySet
    BY ValuesArePlain
  <2> QED
    BY <1>1, <2>2, <2>3, <2>4, <2>5
<1> QED
  BY <1>2, <1>3

\* A name occurs in what is printed only in front of its property.
LEMMA PrintedNames ==
  ASSUME NEW st, SettingsOK(st), PlainPort(st.port), NEW t \in Texts, Printed(st, t, 9),
         NEW k \in 1 .. 9, NEW b \in 1 .. Len(t), Lowered(t[b]) = Keys[k]
  PROVE  \/ k = 1 /\ b = 1 /\ st.port # <<>>
         \/ k > 1 /\ b = PortLength(st) + 4 * (k - 2) + 1
<1>1. PICK p : p = PortLength(st)
  OBVIOUS
<1>2. /\ p \in Nat /\ Len(st.port) \in Nat
      /\ st.port # <<>> => p = Len(st.port) + 3
      /\ st.port = <<>> => p = 0
  BY <1>1, PortLengthNat DEF SettingsOK, PortLength
<1>3. Len(t) = p + 32 /\ b \in Nat /\ b >= 1 /\ b <= p + 32
  BY <1>1, <1>2 DEF Printed
<1>4. Keys[k] \in KeySet /\ Keys[k] \notin {":", Semicolon}
  <2>1. Keys[k] \in KeySet
    BY KeyNames
  <2>2. \A key \in KeySet : key \notin {":", Semicolon}
    BY KeyNames, Zenon DEF Semicolon
  <2> QED
    BY <2>1, <2>2
<1>5. Lowered(":") # Keys[k] /\ Lowered(Semicolon) # Keys[k]
  BY <1>4, PairsDocumented
<1>6. CASE b <= p
  <2>1. st.port # <<>> /\ p = Len(st.port) + 3
    BY <1>2, <1>3, <1>6
  <2>2. /\ t[1] = "port" /\ t[2] = ":" /\ t[p] = Semicolon
        /\ \A n \in 1 .. Len(st.port) : t[n + 2] = st.port[n]
    BY <1>1, <2>1 DEF Printed
  <2>3. CASE b = 1
    <3>1. Lowered("port") = "port" /\ Keys[1] = "port"
      BY KeyNames, ValuesArePlain DEF Keys
    <3>2. Keys[k] = Keys[1]
      BY <2>2, <2>3, <3>1
    <3>3. k = 1
      BY <3>2, KeysDiffer
    <3> QED
      BY <2>1, <2>3, <3>3
  <2>4. CASE b = 2 \/ b = p
    BY <1>5, <2>2, <2>4
  <2>5. CASE b > 2 /\ b < p
    <3>1. PICK n : n = b - 2
      OBVIOUS
    <3>2. n \in 1 .. Len(st.port) /\ n + 2 = b
      BY <1>2, <1>3, <2>1, <2>5, <3>1
    <3>3. n \in DOMAIN st.port
      BY <3>2 DEF SettingsOK, Texts
    <3>4. Lowered(st.port[n]) \notin KeySet
      BY <3>3 DEF PlainPort
    <3> QED
      BY <1>4, <2>2, <3>2, <3>4
  <2> QED
    BY <1>2, <1>3, <1>6, <2>3, <2>4, <2>5
<1>7. CASE b > p
  <2>1. PICK o \in 2 .. 9, i \in 1 .. 4 : b = p + 4 * (o - 2) + i
    <3>1. \E o \in {2, 3, 4, 5, 6, 7, 8, 9} : \E i \in {1, 2, 3, 4} : b = p + 4 * (o - 2) + i
      <4>1. PICK c \in Nat : b = p + c /\ c >= 1 /\ c <= 32
        <5>1. b - p \in Nat /\ b = p + (b - p) /\ b - p >= 1 /\ b - p <= 32
          BY <1>2, <1>3, <1>7
        <5> QED
          BY <5>1
      <4>2. \E o \in {2, 3, 4, 5, 6, 7, 8, 9} : \E i \in {1, 2, 3, 4} : c = 4 * (o - 2) + i
        BY <4>1
      <4> QED
        BY <1>2, <4>1, <4>2
    <3> QED
      BY <3>1
  <2>2. PICK a : a = p + 4 * (o - 2)
    OBVIOUS
  <2>3. /\ t[a + 1] = Keys[o] /\ t[a + 2] = ":"
        /\ t[a + 3] = ValueOf(st, Keys[o]) /\ t[a + 4] = Semicolon
    BY <1>1, <2>2 DEF Printed
  <2>4. b = a + i /\ i \in {1, 2, 3, 4}
    BY <2>1, <2>2
  <2>5. Lowered(Keys[o]) = Keys[o]
    <3>1. Keys[o] \in KeySet
      BY KeyNames
    <3> QED
      BY <3>1, ValuesArePlain
  <2>6. Lowered(ValueOf(st, Keys[o])) \notin KeySet
    BY ValuePlain
  <2>7. i = 1
    BY <1>4, <1>5, <2>3, <2>4, <2>6
  <2>8. Keys[o] = Keys[k]
    BY <2>3, <2>4, <2>5, <2>7
  <2>9. o = k
    <3>1. o \in 1 .. 9
      OBVIOUS
    <3>2. Keys[o] = Keys[k] => o = k
      BY <3>1, KeysDiffer, ZenonT(30)
    <3> QED
      BY <2>8, <3>2
  <2> QED
    BY <1>1, <2>1, <2>7, <2>9
<1> QED
  BY <1>2, <1>3, <1>6, <1>7

\* Reading what is printed finds every property but an empty port, with its value.
LEMMA PrintedFound ==
  ASSUME NEW st, SettingsOK(st), PlainPort(st.port), NEW t \in Texts, Printed(st, t, 9),
         NEW k \in 1 .. 9, NEW old
  PROVE  LET property == GetProperty(t, Keys[k], old)
         IN  IF k > 1 THEN property = [found |-> TRUE, buff |-> <<ValueOf(st, Keys[k])>>]
             ELSE IF st.port = <<>> THEN ~property.found
             ELSE property = [found |-> TRUE, buff |-> st.port]
<1>1. PICK p : p = PortLength(st)
  OBVIOUS
<1>2. /\ p \in Nat /\ Len(st.port) \in Nat
      /\ st.port # <<>> => p = Len(st.port) + 3 /\ Len(st.port) > 0
  BY <1>1, PortLengthNat DEF SettingsOK
<1>3. Len(t) = p + 32
  BY <1>1, <1>2 DEF Printed
<1>4. Keys[k] \in KeySet /\ Lowered(Keys[k]) = Keys[k]
  <2>1. Keys[k] \in KeySet
    BY KeyNames
  <2> QED
    BY <2>1, ValuesArePlain
<1>5. CASE k > 1
  <2>1. PICK a : a = p + 4 * (k - 2) + 1
    OBVIOUS
  <2>2. /\ t[a] = Keys[k] /\ t[a + 1] = ":"
        /\ t[a + 2] = ValueOf(st, Keys[k]) /\ t[a + 3] = Semicolon
    <3>1. PICK c : c = p + 4 * (k - 2)
      OBVIOUS
    <3>2. /\ t[c + 1] = Keys[k] /\ t[c + 2] = ":"
          /\ t[c + 3] = ValueOf(st, Keys[k]) /\ t[c + 4] = Semicolon
      <4>1. k \in 2 .. 9
        BY <1>5
      <4> QED
        BY <1>1, <3>1, <4>1 DEF Printed
    <3>3. a = c + 1 /\ a + 1 = c + 2 /\ a + 2 = c + 3 /\ a + 3 = c + 4
      BY <1>2, <2>1, <3>1
    <3> QED
      BY <3>2, <3>3
  <2>3. a \in Nat \ {0} /\ a + 2 <= Len(t)
    BY <1>2, <1>3, <1>5, <2>1
  <2>4. \A b \in 1 .. Len(t) : Lowered(t[b]) = Keys[k] => b = a
    BY <1>1, <1>5, <2>1, PrintedNames
  <2>5. /\ Lowered(t[a]) = Keys[k] /\ Lowered(t[a + 1]) = ":" /\ Lowered(t[a + 2]) # Semicolon
        /\ a + 3 <= Len(t) => Lowered(t[a + 3]) = Semicolon
    <3>1. k \in 2 .. 9
      BY <1>5
    <3>2. Lowered(ValueOf(st, Keys[k])) # Semicolon
      BY <3>1, ValuePlain
    <3> QED
      BY <1>4, <2>2, <3>2, PairsDocumented
  <2>6. GetProperty(t, Keys[k], old) = [found |-> TRUE, buff |-> <<t[a + 2]>>]
    BY <2>3, <2>4, <2>5, PropertyOfOne
  <2> QED
    BY <1>5, <2>2, <2>6
<1>6. CASE k = 1 /\ st.port = <<>>
  <2>1. \A b \in 1 .. Len(t) : Lowered(t[b]) # Keys[k]
    BY <1>6, PrintedNames
  <2>2. ~GetProperty(t, Keys[k], old).found
    BY <2>1, PropertyMissing
  <2> QED
    BY <1>6, <2>2
<1>7. CASE k = 1 /\ st.port # <<>>
  <2>1. /\ t[1] = "port" /\ t[2] = ":" /\ t[p] = Semicolon
        /\ \A n \in 1 .. Len(st.port) : t[n + 2] = st.port[n]
    <3>1. 9 > 0 /\ st.port # <<>>
      BY <1>7
    <3>2. /\ t[1] = "port" /\ t[2] = ":" /\ t[PortLength(st)] = Semicolon
          /\ \A n \in 1 .. Len(st.port) : t[n + 2] = st.port[n]
      BY <3>1, Zenon DEF Printed
    <3> QED
      BY <1>1, <3>2
  <2>2. p = Len(st.port) + 3 /\ Len(st.port) <= BufferSize /\ BufferSize \in Nat
    BY <1>2, <1>7, SizesNat DEF PlainPort
  <2>3. \A b \in 1 .. Len(t) : Lowered(t[b]) = Keys[k] => b = 1
    BY <1>7, PrintedNames
  <2>4. PICK a \in Nat \ {0} : a = 1
    OBVIOUS
  <2>5. /\ a + 1 < p /\ p <= Len(t) + 1 /\ p - (a + 2) <= BufferSize
        /\ a + 1 = 2 /\ a + 2 = 3
    BY <1>2, <1>3, <1>7, <2>2, <2>4
  <2>6. Keys[k] = "port"
    BY <1>7 DEF Keys
  <2>7. Lowered(t[a]) = Keys[k] /\ Lowered(t[a + 1]) = ":" /\ Lowered(t[p]) = Semicolon
    BY <1>4, <2>1, <2>4, <2>5, <2>6, PairsDocumented
  <2>8. ASSUME NEW b \in a + 2 .. p - 1 PROVE Lowered(t[b]) # Semicolon
    <3>1. PICK n : n = b - 2
      OBVIOUS
    <3>2. n \in 1 .. Len(st.port) /\ n + 2 = b
      BY <1>2, <2>2, <2>5, <3>1
    <3>3. n \in DOMAIN st.port
      BY <3>2 DEF SettingsOK, Texts
    <3> QED
      BY <2>1, <3>2, <3>3 DEF PlainPort
  <2>9. \A b \in 1 .. Len(t) : Lowered(t[b]) = Keys[k] => b = a
    BY <2>3, <2>4
  <2>10. GetProperty(t, Keys[k], old) = [found |-> TRUE, buff |-> SubSeq(t, a + 2, p - 1)]
    <3>1. PICK name : name = Keys[k]
      OBVIOUS
    <3>2. /\ Lowered(t[a]) = name /\ Lowered(t[a + 1]) = ":"
          /\ p <= Len(t) => Lowered(t[p]) = Semicolon
      BY <2>7, <3>1
    <3>3. /\ \A b \in 1 .. Len(t) : Lowered(t[b]) = name => b = a
          /\ \A b \in a + 2 .. p - 1 : Lowered(t[b]) # Semicolon
      BY <2>8, <2>9, <3>1
    <3>4. p \in Nat /\ a + 1 < p /\ p <= Len(t) + 1 /\ p - (a + 2) <= BufferSize
      BY <1>2, <2>5
    <3>5. GetProperty(t, name, old) = [found |-> TRUE, buff |-> SubSeq(t, a + 2, p - 1)]
      BY <3>2, <3>3, <3>4, PropertyFound
    <3> QED
      BY <3>1, <3>5
  <2>11. SubSeq(t, a + 2, p - 1) = st.port
    <3>1. PICK part : part = SubSeq(t, a + 2, p - 1)
      OBVIOUS
    <3>2. /\ part \in Seq(Tokens) /\ Len(part) = Len(st.port)
          /\ \A n \in 1 .. Len(part) : part[n] = t[n + 2]
      <4>1. \A n \in 3 .. p - 1 : t[n] \in Tokens
        BY <1>2, <1>3 DEF Texts
      <4>2. part = SubSeq(t, 3, p - 1)
        BY <2>5, <3>1
      <4>3. /\ part \in Seq(Tokens) /\ Len(part) = (IF 3 <= p - 1 THEN (p - 1) - 3 + 1 ELSE 0)
            /\ \A n \in 1 .. (p - 1) - 3 + 1 : part[n] = t[3 + n - 1]
        BY <1>2, <4>1, <4>2, SubSeqProperties
      <4>4. (p - 1) - 3 + 1 = Len(st.port) /\ 3 <= p - 1
        BY <1>2, <1>7
      <4>5. ASSUME NEW n \in 1 .. Len(st.port) PROVE part[n] = t[n + 2]
        <5>1. 3 + n - 1 = n + 2
          BY <1>2
        <5> QED
          BY <4>3, <4>4, <5>1
      <4> QED
        BY <4>3, <4>4, <4>5
    <3>3. st.port \in Seq(Tokens)
      BY DEF SettingsOK, Texts
    <3>4. \A n \in 1 .. Len(part) : part[n] = st.port[n]
      BY <2>1, <3>2
    <3> QED
      BY <3>1, <3>2, <3>3, <3>4, SeqEqual
  <2>12. GetProperty(t, Keys[k], old) = [found |-> TRUE, buff |-> st.port]
    BY ONLY <2>10, <2>11
  <2>13. PICK property : property = GetProperty(t, Keys[k], old)
    OBVIOUS
  <2>14. property = [found |-> TRUE, buff |-> st.port]
    BY ONLY <2>12, <2>13
  <2> QED
    BY <1>7, <2>13, <2>14
<1> QED
  <2>1. k > 1 \/ (k = 1 /\ st.port = <<>>) \/ (k = 1 /\ st.port # <<>>)
    OBVIOUS
  <2> QED
    BY ONLY <1>5, <1>6, <1>7, <2>1

\* A value that is printed is converted back.
LEMMA ConvertedBack ==
  ASSUME NEW st, SettingsOK(st), NEW k \in 2 .. 9, NEW old
  PROVE  Converted(Keys[k], <<ValueOf(st, Keys[k])>>, old) = st[Keys[k]]
<1>1. PICK key \in KeySet \ {"port"} : key = Keys[k]
  <2>1. Keys[k] \in KeySet /\ Keys[k] # "port"
    <3>1. Keys[1] = "port" /\ k # 1
      BY DEF Keys
    <3> QED
      BY <3>1, KeyNames, KeysDiffer
  <2> QED
    BY <2>1
<1>2. PICK value : value = <<ValueOf(st, key)>>
  OBVIOUS
<1>3. CASE key \in DOMAIN Words
  <2>1. value = <<st[key]>> /\ st[key] \in Words[key] /\ key \notin {"port", "baund", "data"}
    BY <1>2, <1>3, KeyNames DEF ValueOf, SettingsOK
  <2>2. Converted(key, value, old) =
          IF \E w \in Words[key] : value = <<w>> THEN value[1] ELSE Defaults[key]
    BY <1>3, <2>1, KeyNames DEF Converted
  <2> QED
    BY <1>1, <1>2, <2>1, <2>2
<1>4. CASE key \notin DOMAIN Words
  <2>1. value = <<Decimal[st[key]]>> /\ st[key] \in Numbers
    BY <1>2, <1>4, KeyNames DEF ValueOf, SettingsOK
  <2>2. NumberOf(value) = st[key]
    <3>1. \A n \in Numbers : value = <<Decimal[n]>> => n = st[key]
      <4>1. \A n \in Numbers : value = <<Decimal[n]>> => Decimal[n] = Decimal[st[key]]
        BY <2>1
      <4> QED
        BY <2>1, <4>1, ValuesArePlain
    <3>2. PICK n : n = CHOOSE m \in DOMAIN Decimal : value = <<Decimal[m]>>
      OBVIOUS
    <3>3. n \in DOMAIN Decimal /\ value = <<Decimal[n]>>
      BY <2>1, <3>2 DEF Numbers
    <3>4. NumberOf(value) = n
      BY <2>1, <3>2 DEF NumberOf, Numbers
    <3> QED
      BY <3>1, <3>3, <3>4 DEF Numbers
  <2>3. CASE key = "baund"
    <3>1. Converted(key, value, old) = NumberOf(value)
      BY <2>3, KeyNames DEF Converted
    <3> QED
      BY <1>1, <1>2, <2>2, <3>1
  <2>4. CASE key = "data"
    <3>1. st[key] \in 0 .. 255
      BY <2>4 DEF SettingsOK
    <3>2. st[key] % 256 = st[key]
      BY <3>1
    <3>3. Converted(key, value, old) = NumberOf(value) % 256
      BY <2>4, KeyNames DEF Converted
    <3> QED
      BY <1>1, <1>2, <2>2, <3>2, <3>3
  <2>5. CASE key \in DOMAIN Least
    <3>1. st[key] >= Least[key] /\ key \notin {"port", "baund", "data"} \union DOMAIN Words
      BY <2>5, KeyNames DEF SettingsOK
    <3>2. Converted(key, value, old) =
            IF NumberOf(value) >= Least[key] THEN NumberOf(value) ELSE old
      BY <2>5, <3>1 DEF Converted
    <3> QED
      BY <1>1, <1>2, <2>2, <3>1, <3>2
  <2> QED
    BY <1>4, <2>3, <2>4, <2>5, KeyNames
<1> QED
  BY <1>3, <1>4

\* f[k] is what reading the first k of n properties of a text gives.
ReadsNext(f, t, k) ==
  IF k = 0 THEN [settings |-> Defaults, buff |-> <<>>, changed |-> FALSE]
           ELSE Reading(Keys[k], t, f[k - 1])

Reads(f, t, n) == f = [k \in 0 .. n |-> ReadsNext(f, t, k)]

LEMMA ReadsStep ==
  ASSUME NEW f, NEW t, NEW n \in Nat, Reads(f, t, n), NEW k \in 0 .. n
  PROVE  f[k] = ReadsNext(f, t, k)
BY DEF Reads

LEMMA ReadsExist ==
  ASSUME NEW t, NEW n \in Nat
  PROVE  \E f : Reads(f, t, n)
<1> DEFINE T == {k \in 0 .. n : ~ \E f : Reads(f, t, k)}
<1> SUFFICES ASSUME T # {} PROVE FALSE
  BY DEF T
<1>1. PICK o \in T : \A p \in T : o <= p
  <2>1. T \in SUBSET Nat
    OBVIOUS
  <2> HIDE DEF T
  <2> QED
    BY <2>1, LeastExists
<1>2. o \in 0 .. n /\ ~ \E f : Reads(f, t, o)
  BY <1>1
<1>3. CASE o = 0
  <2>1. PICK x : x = [settings |-> Defaults, buff |-> <<>>, changed |-> FALSE]
    OBVIOUS
  <2>2. \A f : ReadsNext(f, t, 0) = x
    BY <2>1 DEF ReadsNext
  <2>3. Reads([k \in 0 .. 0 |-> x], t, 0)
    <3>1. PICK g : g = [k \in 0 .. 0 |-> x]
      OBVIOUS
    <3>2. [k \in 0 .. 0 |-> ReadsNext(g, t, k)] = [k \in 0 .. 0 |-> x]
      BY <2>2
    <3> QED
      BY <3>1, <3>2 DEF Reads
  <2> QED
    BY <1>2, <1>3, <2>3
<1>4. CASE o # 0
  <2>1. o - 1 \in 0 .. n /\ o - 1 \notin T
    BY <1>1, <1>2, <1>4
  <2>2. PICK f : Reads(f, t, o - 1)
    BY <2>1
  <2> DEFINE g == [k \in 0 .. o |-> IF k = o THEN Reading(Keys[o], t, f[o - 1]) ELSE f[k]]
  <2>3. ASSUME NEW k \in 0 .. o PROVE g[k] = ReadsNext(g, t, k)
    <3>1. CASE k = o
      <4>1. g[k] = Reading(Keys[o], t, f[o - 1]) /\ g[o - 1] = f[o - 1]
        BY <1>2, <1>4, <3>1
      <4> HIDE DEF g
      <4> QED
        BY <1>4, <3>1, <4>1 DEF ReadsNext
    <3>2. CASE k # o
      <4>1. k \in 0 .. o - 1 /\ g[k] = f[k]
        BY <1>2, <3>2
      <4>2. f[k] = ReadsNext(f, t, k)
        BY <1>2, <1>4, <2>2, <4>1, ReadsStep
      <4>3. k # 0 => g[k - 1] = f[k - 1]
        BY <1>2, <4>1
      <4> HIDE DEF g
      <4> QED
        BY <4>1, <4>2, <4>3 DEF ReadsNext
    <3> QED
      BY <3>1, <3>2
  <2>4. Reads(g, t, o)
    <3>1. g = [k \in 0 .. o |-> ReadsNext(g, t, k)]
      BY <2>3
    <3> HIDE DEF g
    <3> QED
      BY <3>1 DEF Reads
  <2> QED
    BY <1>2, <2>4
<1> QED
  BY <1>3, <1>4

\* The settings of a new instance after the first k properties were read.
Half(st, k) == [key \in KeySet |-> IF key \in {Keys[n] : n \in 1 .. k} THEN st[key] ELSE Defaults[key]]

\* Reading one more property of what is printed.
LEMMA HalfNext ==
  ASSUME NEW st, SettingsOK(st), PlainPort(st.port), NEW t \in Texts, Printed(st, t, 9),
         NEW k \in 1 .. 9, NEW r, r.settings = Half(st, k - 1)
  PROVE  Reading(Keys[k], t, r).settings = Half(st, k)
<1>1. PICK key \in KeySet : key = Keys[k]
  BY KeyNames
<1>2. PICK property : property = GetProperty(t, key, r.buff)
  OBVIOUS
<1>3. Reading(key, t, r).settings =
        IF ~property.found THEN r.settings
        ELSE [r.settings EXCEPT ![key] = Converted(key, property.buff, r.settings[key])]
  BY <1>2 DEF Reading
<1>4. IF k > 1 THEN property = [found |-> TRUE, buff |-> <<ValueOf(st, key)>>]
      ELSE IF st.port = <<>> THEN ~property.found
      ELSE property = [found |-> TRUE, buff |-> st.port]
  BY <1>1, <1>2, PrintedFound
<1>5. {Keys[n] : n \in 1 .. k} = {Keys[n] : n \in 1 .. k - 1} \union {key}
  <2>1. 1 .. k = (1 .. k - 1) \union {k}
    OBVIOUS
  <2> QED
    BY <1>1, <2>1
<1>6. Half(st, k) = [Half(st, k - 1) EXCEPT ![key] = st[key]]
  BY <1>5 DEF Half
<1>7. CASE k > 1
  <2>1. property.found /\ property.buff = <<ValueOf(st, key)>>
    BY <1>4, <1>7
  <2>2. k \in 2 .. 9
    BY <1>7
  <2>3. Converted(key, property.buff, r.settings[key]) = st[key]
    <3>1. PICK old : old = r.settings[key]
      OBVIOUS
    <3>2. Converted(Keys[k], <<ValueOf(st, Keys[k])>>, old) = st[Keys[k]]
      BY <2>2, ConvertedBack
    <3> QED
      BY <1>1, <2>1, <3>1, <3>2
  <2> QED
    BY <1>1, <1>3, <1>6, <2>1, <2>3
<1>8. CASE k = 1
  <2>1. key = "port"
    BY <1>1, <1>8 DEF Keys
  <2>2. CASE st.port = <<>>
    <3>1. ~property.found
      BY <1>4, <1>8, <2>2
    <3>2. st[key] = Defaults[key]
      BY <2>1, <2>2 DEF Defaults
    <3>3. Half(st, k) = Half(st, k - 1)
      BY <1>5, <3>2 DEF Half
    <3> QED
      BY <1>1, <1>3, <3>1, <3>3
  <2>3. CASE st.port # <<>>
    <3>1. property.found /\ property.buff = st.port
      BY <1>4, <1>8, <2>3
    <3>2. Converted(key, property.buff, r.settings[key]) = st[key]
      BY <2>1, <3>1, KeyNames DEF Converted
    <3> QED
      BY <1>1, <1>3, <1>6, <3>1, <3>2
  <2> QED
    BY <2>2, <2>3
<1> QED
  <2>1. k > 1 \/ k = 1
    OBVIOUS
  <2> QED
    BY <1>7, <1>8, <2>1

\* A new instance reads what is printed and has the settings it was printed of.
LEMMA ReadsBack ==
  ASSUME NEW st, SettingsOK(st), PlainPort(st.port), NEW t \in Texts, Printed(st, t, 9),
         NEW f, Reads(f, t, 9)
  PROVE  f[9].settings = [key \in KeySet |-> st[key]]
<1> DEFINE T == {k \in 0 .. 9 : f[k].settings # Half(st, k)}
<1>1. T = {}
  <2> SUFFICES ASSUME T # {} PROVE FALSE
    OBVIOUS
  <2>1. PICK o \in T : \A p \in T : o <= p
    <3>1. T \in SUBSET Nat
      OBVIOUS
    <3> HIDE DEF T
    <3> QED
      BY <3>1, LeastExists
  <2>2. o \in 0 .. 9 /\ f[o].settings # Half(st, o)
    BY <2>1
  <2>3. f[o] = ReadsNext(f, t, o)
    BY <2>2, ReadsStep
  <2>4. CASE o = 0
    <3>1. f[o].settings = Defaults
      BY <2>3, <2>4 DEF ReadsNext
    <3>2. Half(st, 0) = Defaults
      <4>1. {Keys[n] : n \in 1 .. 0} = {}
        OBVIOUS
      <4>2. Half(st, 0) = [key \in KeySet |-> Defaults[key]]
        BY <4>1 DEF Half
      <4>3. [key \in KeySet |-> Defaults[key]] = Defaults
        BY KeyNames DEF Defaults
      <4> QED
        BY <4>2, <4>3
    <3> QED
      BY <2>2, <2>4, <3>1, <3>2
  <2>5. CASE o # 0
    <3>1. o \in 1 .. 9 /\ o - 1 \in 0 .. 9 /\ o - 1 \notin T
      BY <2>1, <2>2, <2>5
    <3>2. f[o - 1].settings = Half(st, o - 1)
      BY <3>1
    <3>3. f[o] = Reading(Keys[o], t, f[o - 1])
      BY <2>3, <2>5 DEF ReadsNext
    <3>4. Reading(Keys[o], t, f[o - 1]).settings = Half(st, o)
      BY <3>1, <3>2, HalfNext
    <3> QED
      BY <2>2, <3>3, <3>4
  <2> QED
    BY <2>4, <2>5
<1>2. f[9].settings = Half(st, 9)
  BY <1>1
<1>3. KeySet \subseteq {Keys[n] : n \in 1 .. 9}
  BY KeyNames DEF KeySet
<1>4. Half(st, 9) = [key \in KeySet |-> st[key]]
  BY <1>3 DEF Half
<1> QED
  BY <1>2, <1>4

LEMMA PrintedHolds == Spec => []PrintedInv
<1>1. Init => PrintedInv
  <2> SUFFICES ASSUME Init PROVE PrintedInv
    OBVIOUS
  <2>1. settings = Defaults /\ pc = "out"
    BY DEF Init
  <2>2. [key \in KeySet |-> Defaults[key]] = Defaults
    BY KeyNames DEF Defaults
  <2> QED
    BY <2>1, <2>2 DEF PrintedInv
<1> QED
  BY <1>1, PrintedNext, ContentHolds, InvHolds, PTL DEF Spec

\* What IcBox_getConfiguration returns gives a new instance every setting of
\* this one, whatever they are, unless the search stored one while it was
\* printed.
THEOREM PrintedTextsWork == Spec => []RoundTrip
<1>1. Inv /\ PortInv /\ ContentInv /\ PrintedInv => RoundTrip
  <2> SUFFICES ASSUME Inv, PortInv, ContentInv, PrintedInv, pc = "told", ~torn
               PROVE  RoundTrip
    BY DEF RoundTrip
  <2>1. PICK t \in Texts : t = builder.data
    BY DEF ContentInv, PrintedInv
  <2>2. Printed(settings, t, 9)
    BY <2>1 DEF ContentInv, PrintedInv
  <2>3. SettingsOK(settings) /\ PlainPort(settings.port)
    BY DEF Inv, TypeOK, PortInv
  <2>4. PICK f : f = CHOOSE g : g = [k \in 0 .. Len(Keys) |->
                       IF k = 0 THEN [settings |-> Defaults, buff |-> <<>>, changed |-> FALSE]
                                ELSE Reading(Keys[k], builder.data, g[k - 1])]
    OBVIOUS
  <2>5. Reads(f, t, 9)
    <3>1. Len(Keys) = 9 /\ builder.data = t
      BY <2>1, KeyNames
    <3>2. f = CHOOSE g : Reads(g, t, 9)
      BY ONLY <2>4, <3>1 DEF Reads, ReadsNext
    <3>3. \E g : Reads(g, t, 9)
      BY ReadsExist
    <3> QED
      BY ONLY <3>2, <3>3
  <2>6. f[9].settings = settings
    BY <2>2, <2>3, <2>5, ReadsBack DEF PrintedInv
  <2> QED
    BY <2>4, <2>6, KeyNames DEF RoundTrip
<1> QED
  BY <1>1, PrintedHolds, ContentHolds, InvHolds, PTL

=============================================================================
