------------------------- MODULE GCodeBufferProofs -------------------------
(***************************************************************************)
(* Theorems about GCodeBuffer, for every size of lines, buckets and buffer *)
(* and every set of inputs.  append() loops over the pieces of its text,   *)
(* so its effect is a recursive function of the number of pieces done; the *)
(* lemmas of this section are the induction principle for that loop.       *)
(***************************************************************************)
EXTENDS GCodeBuffer, SumsProofs

-----------------------------------------------------------------------------
(* The loop of append() *)

(* The recursive function inside AppendChunks exists. *)
LEMMA AppendChunksFunction ==
  ASSUME NEW gcode \in Seq(Piece), NEW b
  PROVE  \E f : /\ f[0] = b
                /\ \A i \in 1..Len(gcode) : f[i] = AppendChunk(f[i - 1], gcode[i])
                /\ AppendChunks(b, gcode) = f[Len(gcode)]
<1> DEFINE Def(f, n) ==
             f = [i \in 0..n |-> IF i = 0 THEN b ELSE AppendChunk(f[i - 1], gcode[i])]
           P == {n \in 0..Len(gcode) : \E f : Def(f, n)}
<1>0. Len(gcode) \in Nat
  OBVIOUS
<1>1. 0 \in P
  <2> DEFINE z == [i \in 0..0 |-> b]
  <2>1. Def(z, 0)
    OBVIOUS
  <2>2. \E f : Def(f, 0)
    <3> HIDE DEF z, Def
    <3> QED BY <2>1
  <2> QED BY <1>0, <2>2
<1>2. ASSUME NEW n \in Nat, n < Len(gcode), n \in P
      PROVE  n + 1 \in P
  <2>1. PICK f : Def(f, n)
    BY <1>2
  <2> DEFINE g == [i \in 0..(n + 1) |->
                     IF i = n + 1 THEN AppendChunk(f[n], gcode[n + 1]) ELSE f[i]]
  <2>2. \A i \in 0..n : f[i] = IF i = 0 THEN b ELSE AppendChunk(f[i - 1], gcode[i])
    BY <2>1
  <2>3. \A i \in 0..(n + 1) : g[i] = IF i = 0 THEN b ELSE AppendChunk(g[i - 1], gcode[i])
    BY <2>2
  <2>4. Def(g, n + 1)
    BY <2>3
  <2>5. \E h : Def(h, n + 1)
    <3> HIDE DEF g, Def
    <3> QED BY <2>4
  <2>6. n + 1 \in 0..Len(gcode)
    BY <1>0, <1>2
  <2> HIDE DEF Def
  <2> QED BY <2>5, <2>6
<1>3. Len(gcode) \in P
  <2> HIDE DEF P
  <2>1. \A n \in Nat : n < Len(gcode) /\ n \in P => n + 1 \in P
    BY <1>2
  <2>2. \A n \in 0..Len(gcode) : n \in P
    BY <1>0, <1>1, <2>1, NatSetInduction
  <2> QED BY <1>0, <2>2
<1>4. PICK f : Def(f, Len(gcode))
  BY <1>3
<1> DEFINE h == CHOOSE k : Def(k, Len(gcode))
<1>5. Def(h, Len(gcode))
  BY <1>4
<1>6. AppendChunks(b, gcode) = h[Len(gcode)]
  BY DEF AppendChunks
<1> HIDE DEF h
<1>7. h[0] = b /\ \A i \in 1..Len(gcode) : h[i] = AppendChunk(h[i - 1], gcode[i])
  BY <1>0, <1>5
<1> HIDE DEF Def
<1> QED
  BY <1>6, <1>7

(* Loop invariants: what holds before the loop and is kept by every call   *)
(* of appendChunk() holds after it.                                        *)
LEMMA AppendChunksInduction ==
  ASSUME NEW gcode \in Seq(Piece), NEW b, NEW P,
         b \in P[0],
         \A i \in 1..Len(gcode) : \A c \in P[i - 1] : AppendChunk(c, gcode[i]) \in P[i]
  PROVE  AppendChunks(b, gcode) \in P[Len(gcode)]
<1>0. Len(gcode) \in Nat
  OBVIOUS
<1>1. PICK f : /\ f[0] = b
               /\ \A i \in 1..Len(gcode) : f[i] = AppendChunk(f[i - 1], gcode[i])
               /\ AppendChunks(b, gcode) = f[Len(gcode)]
  BY AppendChunksFunction
<1> DEFINE Q == {n \in 0..Len(gcode) : f[n] \in P[n]}
<1>2. 0 \in Q
  BY <1>0, <1>1
<1>3. \A n \in Nat : n < Len(gcode) /\ n \in Q => n + 1 \in Q
  <2> SUFFICES ASSUME NEW n \in Nat, n < Len(gcode), f[n] \in P[n]
               PROVE  n + 1 \in 0..Len(gcode) /\ f[n + 1] \in P[n + 1]
    OBVIOUS
  <2>1. n + 1 \in 1..Len(gcode) /\ (n + 1) - 1 = n
    BY <1>0
  <2>2. f[n + 1] = AppendChunk(f[n], gcode[n + 1])
    BY <1>1, <2>1
  <2> QED BY <2>1, <2>2
<1>4. \A n \in 0..Len(gcode) : n \in Q
  <2> HIDE DEF Q
  <2> QED BY <1>0, <1>2, <1>3, NatSetInduction
<1> QED
  BY <1>0, <1>1, <1>4

-----------------------------------------------------------------------------
(* Types *)

(* length() of a text is a natural number. *)
LEMMA BytesType ==
  ASSUME NEW lines \in Seq(Line)
  PROVE  Bytes(lines) \in Nat
<1> DEFINE s == [i \in 1..Len(lines) |-> SizeOf[lines[i]]]
<1>1. Len(lines) \in Nat /\ \A i \in 1..Len(lines) : SizeOf[lines[i]] \in Nat
  BY SizeAssumption
<1>2. s \in Seq(Nat)
  BY <1>1
<1> HIDE DEF s
<1>3. SumSeq(s) \in Nat
  BY <1>2, SumSeqNat
<1> QED BY <1>3 DEF Bytes, s

(* The deque that appendChunk() works on has a last bucket. *)
LEMMA OpenBucketsType ==
  ASSUME NEW b \in Buffer
  PROVE  /\ OpenBuckets(b) \in Seq(Seq(Line))
         /\ Len(OpenBuckets(b)) \in Nat \ {0}
<1>1. b.buckets \in Seq(Seq(Line))
  BY DEF Buffer
<1>2. <<>> \in Seq(Line)
  OBVIOUS
<1> QED BY <1>1, <1>2 DEF OpenBuckets

LEMMA AppendChunkType ==
  ASSUME NEW b \in Buffer, NEW p \in Piece
  PROVE  AppendChunk(b, p) \in Buffer
<1> DEFINE open  == OpenBuckets(b)
           n     == Len(open)
           total == b.totalLinesSent + Len(p.lines)
           buckets == [open EXCEPT ![n] = @ \o p.lines]
<1>1. open \in Seq(Seq(Line)) /\ n \in Nat \ {0}
  BY OpenBucketsType
<1>2. p.raw \in Nat /\ p.lines \in Seq(Line) /\ Len(p.lines) \in Nat
  BY DEF Piece
<1>3. /\ b.totalLinesSent \in Nat /\ b.bufferSize \in Int /\ b.bufferedLines \in Int
      /\ b.currentLine \in Int /\ b.accepted \in Seq(Line)
  BY DEF Buffer
<1>4. CleanedBytes(open[n], p) \in Int
  BY <1>2, BytesType DEF CleanedBytes
<1>5. total \in Nat
  BY <1>2, <1>3
<1>6. buckets \in Seq(Seq(Line))
  <2> HIDE DEF open
  <2>1. open[n] \in Seq(Line)
    BY <1>1
  <2>2. open[n] \o p.lines \in Seq(Line)
    BY <1>2, <2>1
  <2> QED BY <1>1, <2>2
<1>7. Smaller(b.currentLine, total) \in Int
  BY <1>3, <1>5 DEF Smaller
<1>8. b.accepted \o p.lines \in Seq(Line)
  BY <1>2, <1>3
<1> DEFINE size  == b.bufferSize - CleanedBytes(open[n], p) + p.raw
           lines == b.bufferedLines + Len(p.lines)
           line  == Smaller(b.currentLine, total)
           acc   == b.accepted \o p.lines
<1>9. size \in Int /\ lines \in Int
  <2> HIDE DEF open, n
  <2> QED BY <1>2, <1>3, <1>4
<1>10. AppendChunk(b, p) =
         [b EXCEPT !.buckets = buckets, !.bufferSize = size, !.bufferedLines = lines,
                   !.totalLinesSent = total, !.currentLine = line, !.accepted = acc]
  BY DEF AppendChunk
<1>11. line \in Int /\ acc \in Seq(Line)
  BY <1>7, <1>8
<1> HIDE DEF buckets, size, lines, total, line, acc
<1> QED
  BY <1>5, <1>6, <1>9, <1>10, <1>11 DEF Buffer

(* append() leaves a well-formed object. *)
LEMMA AppendChunksType ==
  ASSUME NEW b \in Buffer, NEW gcode \in Seq(Piece)
  PROVE  AppendChunks(b, gcode) \in Buffer
<1> DEFINE P == [i \in 0..Len(gcode) |-> Buffer]
<1>0. Len(gcode) \in Nat /\ \A i \in 1..Len(gcode) : gcode[i] \in Piece
  OBVIOUS
<1>1. b \in P[0]
  BY <1>0
<1>2. \A i \in 1..Len(gcode) : \A c \in P[i - 1] : AppendChunk(c, gcode[i]) \in P[i]
  BY <1>0, AppendChunkType
<1>3. AppendChunks(b, gcode) \in P[Len(gcode)]
  <2> HIDE DEF P
  <2> QED BY <1>1, <1>2, AppendChunksInduction
<1> QED
  BY <1>0, <1>3

LEMMA NotedType ==
  ASSUME NEW b \in Buffer, NEW total \in Int, NEW m \in MetaData \cup {NULL}
  PROVE  Noted(b, total, m) \in Buffer
<1> DEFINE lines == IF total >= 0 THEN total ELSE b.explicitTotalLines
           md    == IF m = NULL THEN b.md
                    ELSE [m EXCEPT !.source = IF b.md.source = NULL THEN @ ELSE b.md.source]
           cs    == Append(b.chunks, m)
<1>1. lines \in Int /\ md \in MetaData
  BY DEF Buffer, MetaData
<1>2. cs \in Seq(MetaData \cup {NULL})
  <2>1. b.chunks \in Seq(MetaData \cup {NULL})
    BY DEF Buffer
  <2> QED BY <2>1
<1>3. Noted(b, total, m) = [b EXCEPT !.explicitTotalLines = lines, !.md = md, !.chunks = cs]
  BY DEF Noted
<1> HIDE DEF lines, md, cs
<1> QED
  BY <1>1, <1>2, <1>3 DEF Buffer

LEMMA AppendedType ==
  ASSUME NEW b \in Buffer, NEW gcode \in Gcodes, NEW total \in TotalsGiven,
         NEW m \in MetaDatas
  PROVE  Appended(b, gcode, total, m) \in Buffer
<1>1. gcode \in Seq(Piece) /\ total \in Int /\ m \in MetaData \cup {NULL}
  BY InputAssumption
<1>2. Noted(b, total, m) \in Buffer
  BY <1>1, NotedType
<1> QED
  BY <1>1, <1>2, AppendChunksType DEF Appended

LEMMA ClearedType == Cleared \in Buffer
BY DEF Cleared, Buffer, NoMetaData, MetaData

LEMMA ErasedType ==
  ASSUME NEW b \in Buffer, b.buckets # <<>>, NEW amount \in Nat, NEW count \in Int
  PROVE  Erased(b, amount, count) \in Buffer
<1> DEFINE first == Head(b.buckets)
           rest  == SubSeq(first, Smaller(amount, Len(first)) + 1, Len(first))
<1>1. b.buckets \in Seq(Seq(Line)) /\ b.bufferSize \in Int /\ b.bufferedLines \in Int
  BY DEF Buffer
<1>2. first \in Seq(Line) /\ Tail(b.buckets) \in Seq(Seq(Line))
  BY <1>1
<1>3. rest \in Seq(Line)
  <2> HIDE DEF first
  <2> QED BY <1>2 DEF Smaller
<1>4. Bytes(first) \in Nat /\ Bytes(rest) \in Nat
  <2> HIDE DEF first, rest
  <2> QED BY <1>2, <1>3, BytesType
<1>5. (IF rest = <<>> THEN Tail(b.buckets) ELSE <<rest>> \o Tail(b.buckets)) \in Seq(Seq(Line))
  <2> HIDE DEF first, rest
  <2> QED BY <1>2, <1>3
<1> DEFINE buckets == IF rest = <<>> THEN Tail(b.buckets) ELSE <<rest>> \o Tail(b.buckets)
           size    == b.bufferSize - (Bytes(first) - Bytes(rest))
           lines   == b.bufferedLines - count
<1>6. size \in Int /\ lines \in Int
  <2> HIDE DEF first, rest
  <2> QED BY <1>1, <1>4
<1>7. Erased(b, amount, count) =
        [b EXCEPT !.buckets = buckets, !.bufferSize = size, !.bufferedLines = lines]
  BY DEF Erased
<1> HIDE DEF buckets, size, lines
<1>8. buckets \in Seq(Seq(Line))
  BY <1>5 DEF buckets
<1> QED
  BY <1>6, <1>7, <1>8 DEF Buffer

(* The members of the object keep their types in every behaviour, also of  *)
(* callers that erase more than there is.                                  *)
THEOREM TypeCorrect == AnyCallSpec => []TypeOK
<1>1. Init => TypeOK
  BY ClearedType DEF Init, TypeOK
<1>2. TypeOK /\ [AnyCall]_vars => TypeOK'
  <2> SUFFICES ASSUME TypeOK, [AnyCall]_vars
               PROVE  TypeOK'
    OBVIOUS
  <2>0. buf \in Buffer /\ crashed \in BOOLEAN
    BY DEF TypeOK
  <2>1. ASSUME NEW gcode \in Gcodes, NEW total \in TotalsGiven, NEW m \in MetaDatas,
               SetGCode(gcode, total, m)
        PROVE  TypeOK'
    BY <2>1, ClearedType, AppendedType DEF SetGCode, RefusalDereferencesNull, TypeOK
  <2>2. ASSUME NEW gcode \in Gcodes, NEW total \in TotalsGiven, NEW m \in MetaDatas,
               AppendGCode(gcode, total, m)
        PROVE  TypeOK'
    BY <2>0, <2>2, AppendedType DEF AppendGCode, RefusalDereferencesNull, TypeOK
  <2>3. CASE Clear
    BY <2>0, <2>3, ClearedType DEF Clear, TypeOK
  <2>4. ASSUME NEW line \in LineNumbers, SetCurrentLine(line)
        PROVE  TypeOK'
    <3>1. line \in Int /\ buf.totalLinesSent \in Int
      BY <2>0, InputAssumption DEF Buffer
    <3>2. Smaller(line, buf.totalLinesSent) \in Int
      BY <3>1 DEF Smaller
    <3>3. buf' \in Buffer
      BY <2>0, <2>4, <3>2 DEF SetCurrentLine, Buffer
    <3> QED BY <2>0, <2>4, <3>3 DEF SetCurrentLine, TypeOK
  <2>5. ASSUME NEW amount \in Amounts, EraseLine(amount)
        PROVE  TypeOK'
    <3>1. amount \in Nat
      BY InputAssumption
    <3>2. CASE buf.buckets = <<>>
      BY <2>0, <2>5, <3>2 DEF EraseLine, TypeOK
    <3>3. CASE buf.buckets # <<>>
      <4>1. Head(buf.buckets) \in Seq(Line)
        BY <2>0, <3>3 DEF Buffer
      <4>2. PICK count \in EraseCounts(Head(buf.buckets), amount) :
                   buf' = Erased(buf, amount, count)
        BY <2>5, <3>3 DEF EraseLine
      <4>3. count \in Int
        <5> DEFINE first == Head(buf.buckets)
        <5> HIDE DEF first
        <5>1. count \in EraseCounts(first, amount) /\ Len(first) \in Nat
          BY <4>1, <4>2 DEF first
        <5> QED BY <3>1, <5>1 DEF EraseCounts, Smaller
      <4>4. buf' \in Buffer
        BY <2>0, <3>1, <3>3, <4>2, <4>3, ErasedType
      <4> QED BY <2>0, <2>5, <4>4 DEF EraseLine, TypeOK
    <3> QED BY <3>2, <3>3
  <2>6. CASE UNCHANGED vars
    BY <2>0, <2>6 DEF vars, TypeOK
  <2> QED
    BY <2>1, <2>2, <2>3, <2>4, <2>5, <2>6 DEF AnyCall, Producer
<1> QED
  BY <1>1, <1>2, PTL DEF AnyCallSpec

-----------------------------------------------------------------------------
(* Metadata *)

(* Only the housekeeping of append() touches the metadata and the history  *)
(* of the chunks, never its loop.                                          *)
LEMMA AppendChunksKeepsMetaData ==
  ASSUME NEW b \in Buffer, NEW gcode \in Seq(Piece)
  PROVE  /\ AppendChunks(b, gcode).md = b.md
         /\ AppendChunks(b, gcode).chunks = b.chunks
<1> DEFINE Same == {c \in Buffer : c.md = b.md /\ c.chunks = b.chunks}
           P == [i \in 0..Len(gcode) |-> Same]
<1>0. Len(gcode) \in Nat /\ \A i \in 1..Len(gcode) : gcode[i] \in Piece
  OBVIOUS
<1>1. b \in P[0]
  BY <1>0
<1>2. ASSUME NEW c \in Same, NEW p \in Piece
      PROVE  AppendChunk(c, p) \in Same
  <2>1. AppendChunk(c, p) \in Buffer
    BY AppendChunkType
  <2>2. AppendChunk(c, p).md = c.md /\ AppendChunk(c, p).chunks = c.chunks
    BY DEF AppendChunk, Buffer
  <2> QED BY <2>1, <2>2
<1>3. \A i \in 1..Len(gcode) : \A c \in P[i - 1] : AppendChunk(c, gcode[i]) \in P[i]
  <2> HIDE DEF Same
  <2> QED BY <1>0, <1>2
<1>4. AppendChunks(b, gcode) \in P[Len(gcode)]
  <2> HIDE DEF P
  <2> QED BY <1>1, <1>3, AppendChunksInduction
<1> QED
  BY <1>0, <1>4

(* The metadata and the history after append(): as before; or the chunk is *)
(* the last of the history and its metadata, if it has any, are kept.      *)
LEMMA AppendedMetaData ==
  ASSUME NEW b \in Buffer, NEW gcode \in Gcodes, NEW total \in TotalsGiven,
         NEW m \in MetaDatas
  PROVE  LET c == Appended(b, gcode, total, m)
         IN  \/ c.md = b.md /\ c.chunks = b.chunks
             \/ /\ Consistent(b, m)
                /\ m \in MetaData \cup {NULL}
                /\ c.md = IF m = NULL THEN b.md ELSE m
                /\ c.chunks = Append(b.chunks, m)
<1> DEFINE c == Appended(b, gcode, total, m)
           d == Noted(b, total, m)
<1>1. gcode \in Seq(Piece) /\ total \in Int /\ m \in MetaData \cup {NULL}
  BY InputAssumption
<1>2. d \in Buffer
  BY <1>1, NotedType
<1>3. CASE ~(Consistent(b, m) /\ HasRoom(b, gcode))
  BY <1>3 DEF Appended
<1>4. CASE Consistent(b, m) /\ HasRoom(b, gcode)
  <2>1. c.md = d.md /\ c.chunks = d.chunks
    BY <1>1, <1>2, <1>4, AppendChunksKeepsMetaData DEF Appended
  <2>2. d.chunks = Append(b.chunks, m)
    BY DEF Noted, Buffer
  <2>3. CASE m = NULL
    BY <1>1, <1>4, <2>1, <2>2, <2>3 DEF Noted, Buffer
  <2>4. CASE m # NULL
    <3>1. m \in MetaData
      BY <1>1, <2>4
    <3>2. d.md = [m EXCEPT !.source = IF b.md.source = NULL THEN @ ELSE b.md.source]
      BY <2>4 DEF Noted, Buffer
    <3>3. b.md.source # NULL => m.source = b.md.source
      BY <1>4 DEF Consistent, SourceAgrees
    <3>4. d.md = m
      BY <3>1, <3>2, <3>3 DEF MetaData
    <3> QED BY <1>1, <1>4, <2>1, <2>2, <2>4, <3>4
  <2> QED BY <2>3, <2>4
<1> QED
  BY <1>3, <1>4

(* What append() keeps of the chunks so far is enough to compare with.     *)
Sequence(cs) ==
  \A j \in 1..Len(cs) :
    /\ \A i \in 1..(j - 1) : InSequence(cs[i], cs[j], j - i)
    /\ cs[j] # NULL /\ cs[j].seqNumber > 0 =>
         j > 1 /\ HasNumber(cs[j - 1], cs[j].seqNumber - 1)

Remembers(md, c, distance) ==
  c # NULL =>
    /\ c.seqNumber > -1 => md.seqNumber = c.seqNumber + distance
    /\ c.seqTotal > -1 => md.seqTotal = c.seqTotal
    /\ c.source # NULL => md.source = c.source

Remembered(cs, md) ==
  /\ \A i \in 1..Len(cs) : Remembers(md, cs[i], Len(cs) - i)
  /\ md.seqNumber > -1 => Len(cs) > 0 /\ HasNumber(cs[Len(cs)], md.seqNumber)

Sequenced(cs, md) == Sequence(cs) /\ Remembered(cs, md)

(* One chunk against one before it *)
LEMMA ChunkFollows ==
  ASSUME NEW b \in Buffer, NEW m \in MetaData \cup {NULL}, Consistent(b, m),
         NEW c \in MetaData \cup {NULL}, NEW n \in Nat, Remembers(b.md, c, n)
  PROVE  /\ InSequence(c, m, n + 1)
         /\ Remembers(IF m = NULL THEN b.md ELSE m, c, n + 1)
<1> SUFFICES ASSUME c \in MetaData
             PROVE  /\ InSequence(c, m, n + 1)
                    /\ Remembers(IF m = NULL THEN b.md ELSE m, c, n + 1)
  BY DEF InSequence, Remembers
<1>1. /\ b.md.seqNumber \in Int /\ b.md.seqTotal \in Int
      /\ c.seqNumber \in Int /\ c.seqTotal \in Int /\ c # NULL
  BY NullAssumption DEF Buffer, MetaData
<1>2. ASSUME c.seqNumber > -1
      PROVE  m # NULL /\ m.seqNumber = c.seqNumber + (n + 1)
  <2>1. b.md.seqNumber = c.seqNumber + n
    BY <1>1, <1>2 DEF Remembers
  <2>2. b.md.seqNumber > -1
    BY <1>1, <1>2, <2>1
  <2>3. m # NULL /\ m.seqNumber = b.md.seqNumber + 1
    BY <2>2 DEF Consistent, NumberFollows
  <2> QED BY <1>1, <2>1, <2>3
<1>3. ASSUME c.seqTotal > -1
      PROVE  m # NULL /\ m.seqTotal = c.seqTotal /\ m.seqNumber < m.seqTotal
  <2>1. b.md.seqTotal = c.seqTotal
    BY <1>1, <1>3 DEF Remembers
  <2>2. m # NULL /\ m.seqTotal = c.seqTotal /\ m.seqNumber + 1 <= m.seqTotal
    BY <1>3, <2>1 DEF Consistent, TotalAgrees
  <2>3. m.seqNumber \in Int /\ m.seqTotal \in Int
    BY <2>2 DEF MetaData
  <2> QED BY <2>2, <2>3
<1>4. ASSUME c.source # NULL
      PROVE  m # NULL /\ m.source = c.source
  BY <1>1, <1>4 DEF Remembers, Consistent, SourceAgrees
<1> QED
  BY <1>2, <1>3, <1>4 DEF InSequence, Remembers, HasNumber

LEMMA SequencedAppend ==
  ASSUME NEW b \in Buffer, NEW m \in MetaData \cup {NULL}, Consistent(b, m),
         Sequenced(b.chunks, b.md)
  PROVE  Sequenced(Append(b.chunks, m), IF m = NULL THEN b.md ELSE m)
<1> DEFINE cs  == b.chunks
           new == Append(cs, m)
           md  == IF m = NULL THEN b.md ELSE m
           n   == Len(cs)
<1>0. cs \in Seq(MetaData \cup {NULL}) /\ n \in Nat /\ b.md \in MetaData
  BY DEF Buffer
<1>1. /\ Len(new) = n + 1 /\ new[n + 1] = m
      /\ \A i \in 1..n : new[i] = cs[i] /\ cs[i] \in MetaData \cup {NULL}
  BY <1>0
<1>2. \A i \in 1..n : Remembers(b.md, cs[i], n - i)
  BY DEF Sequenced, Remembered
<1>3. b.md.seqNumber > -1 => n > 0 /\ HasNumber(cs[n], b.md.seqNumber)
  BY DEF Sequenced, Remembered
<1>4. Sequence(cs)
  BY DEF Sequenced
<1>c. md = IF m = NULL THEN b.md ELSE m
  OBVIOUS
<1> HIDE DEF cs, new, md, n
<1>5. ASSUME NEW i \in 1..n
      PROVE  InSequence(new[i], m, (n + 1) - i) /\ Remembers(md, new[i], (n + 1) - i)
  <2>1. n - i \in Nat /\ (n - i) + 1 = (n + 1) - i
    BY <1>0
  <2>2. new[i] = cs[i] /\ cs[i] \in MetaData \cup {NULL} /\ Remembers(b.md, cs[i], n - i)
    BY <1>1, <1>2
  <2>3. InSequence(cs[i], m, (n - i) + 1) /\ Remembers(md, cs[i], (n - i) + 1)
    BY <1>c, <2>1, <2>2, ChunkFollows
  <2> QED BY <2>1, <2>2, <2>3
<1>6. ASSUME m # NULL, m.seqNumber > 0
      PROVE  n > 0 /\ HasNumber(cs[n], m.seqNumber - 1)
  <2>0. m.seqNumber \in Int /\ b.md.seqNumber \in Int
    BY <1>0, <1>6 DEF MetaData
  <2>1. b.md.seqNumber > -1 /\ m.seqNumber = b.md.seqNumber + 1
    BY <1>6, <2>0 DEF Consistent, NumberFollows
  <2>2. m.seqNumber - 1 = b.md.seqNumber
    BY <2>0, <2>1
  <2> QED BY <1>3, <2>1, <2>2
<1>7. Sequence(new)
  <2> SUFFICES ASSUME NEW j \in 1..(n + 1)
               PROVE  /\ \A i \in 1..(j - 1) : InSequence(new[i], new[j], j - i)
                      /\ new[j] # NULL /\ new[j].seqNumber > 0 =>
                           j > 1 /\ HasNumber(new[j - 1], new[j].seqNumber - 1)
    BY <1>1 DEF Sequence
  <2>1. CASE j \in 1..n
    <3>1. /\ \A i \in 1..(j - 1) : InSequence(cs[i], cs[j], j - i)
          /\ cs[j] # NULL /\ cs[j].seqNumber > 0 =>
               j > 1 /\ HasNumber(cs[j - 1], cs[j].seqNumber - 1)
      BY <1>4, <2>1 DEF Sequence, n
    <3>2. \A i \in 1..(j - 1) : i \in 1..n
      BY <1>0, <2>1
    <3>3. j > 1 => j - 1 \in 1..n
      BY <1>0, <2>1
    <3> QED BY <1>1, <2>1, <3>1, <3>2, <3>3
  <2>2. CASE j = n + 1
    <3>1. j - 1 = n /\ (n > 0 => j > 1 /\ n \in 1..n)
      BY <1>0, <2>2
    <3>2. \A i \in 1..n : InSequence(new[i], new[j], j - i)
      BY <1>1, <1>5, <2>2
    <3>3. new[j] # NULL /\ new[j].seqNumber > 0 =>
            n > 0 /\ HasNumber(cs[n], new[j].seqNumber - 1)
      BY <1>1, <1>6, <2>2
    <3> QED BY <1>1, <3>1, <3>2, <3>3
  <2> QED BY <1>0, <2>1, <2>2
<1>8. Remembered(new, md)
  <2>1. ASSUME NEW i \in 1..(n + 1)
        PROVE  Remembers(md, new[i], (n + 1) - i)
    <3>1. CASE i = n + 1
      <4>1. (n + 1) - i = 0 /\ new[i] = m
        BY <1>0, <1>1, <3>1
      <4>2. m # NULL => m.seqNumber \in Int
        BY DEF MetaData
      <4> QED BY <1>c, <4>1, <4>2 DEF Remembers
    <3> QED BY <1>0, <1>5, <3>1
  <2>2. ASSUME md.seqNumber > -1
        PROVE  HasNumber(m, md.seqNumber)
    <3>1. CASE m = NULL
      <4>1. b.md.seqNumber > -1
        BY <1>c, <2>2, <3>1
      <4> QED BY <3>1, <4>1 DEF Consistent, NumberFollows
    <3>2. CASE m # NULL
      BY <1>c, <3>2 DEF HasNumber
    <3> QED BY <3>1, <3>2
  <2>3. n + 1 > 0
    BY <1>0
  <2> QED BY <1>1, <2>1, <2>2, <2>3 DEF Remembered
<1>9. Sequenced(new, md)
  BY <1>7, <1>8 DEF Sequenced
<1> QED
  BY <1>9 DEF new, md, cs

LEMMA SequencedAppended ==
  ASSUME NEW b \in Buffer, NEW gcode \in Gcodes, NEW total \in TotalsGiven,
         NEW m \in MetaDatas, Sequenced(b.chunks, b.md)
  PROVE  LET c == Appended(b, gcode, total, m)
         IN  Sequenced(c.chunks, c.md)
<1> DEFINE c == Appended(b, gcode, total, m)
<1>1. \/ c.md = b.md /\ c.chunks = b.chunks
      \/ /\ Consistent(b, m)
         /\ m \in MetaData \cup {NULL}
         /\ c.md = IF m = NULL THEN b.md ELSE m
         /\ c.chunks = Append(b.chunks, m)
  BY AppendedMetaData
<1> HIDE DEF c
<1>2. Sequenced(c.chunks, c.md)
  BY <1>1, SequencedAppend
<1> QED
  BY <1>2 DEF c

LEMMA SequencedCleared == Sequenced(Cleared.chunks, Cleared.md)
<1>1. Cleared.chunks = <<>> /\ Cleared.md.seqNumber = -1
  BY DEF Cleared, NoMetaData
<1>2. 1..Len(<<>>) = {}
  OBVIOUS
<1> QED
  BY <1>1, <1>2 DEF Sequenced, Sequence, Remembered

(* From the first numbered chunk on the accepted chunks have consecutive   *)
(* numbers, and they all have the total and the source that one of them    *)
(* had, in every behaviour of every caller.                                *)
THEOREM ChunkSequence == AnyCallSpec => []ChunksInSequence
<1> DEFINE Inv == Sequenced(buf.chunks, buf.md)
<1>1. Init => Inv
  BY SequencedCleared DEF Init
<1>2. TypeOK /\ Inv /\ [AnyCall]_vars => Inv'
  <2> SUFFICES ASSUME TypeOK, Inv, [AnyCall]_vars
               PROVE  Inv'
    OBVIOUS
  <2>0. buf \in Buffer
    BY DEF TypeOK
  <2>1. ASSUME NEW gcode \in Gcodes, NEW total \in TotalsGiven, NEW m \in MetaDatas,
               SetGCode(gcode, total, m)
        PROVE  Inv'
    BY <2>1, ClearedType, SequencedCleared, SequencedAppended DEF SetGCode
  <2>2. ASSUME NEW gcode \in Gcodes, NEW total \in TotalsGiven, NEW m \in MetaDatas,
               AppendGCode(gcode, total, m)
        PROVE  Inv'
    BY <2>0, <2>2, SequencedAppended DEF AppendGCode
  <2>3. CASE Clear
    BY <2>3, SequencedCleared DEF Clear
  <2>4. CASE buf'.md = buf.md /\ buf'.chunks = buf.chunks
    BY <2>4
  <2>5. ASSUME NEW line \in LineNumbers, SetCurrentLine(line)
        PROVE  buf'.md = buf.md /\ buf'.chunks = buf.chunks
    BY <2>0, <2>5 DEF SetCurrentLine, Buffer
  <2>6. ASSUME NEW amount \in Amounts, EraseLine(amount)
        PROVE  buf'.md = buf.md /\ buf'.chunks = buf.chunks
    BY <2>0, <2>6 DEF EraseLine, Erased, Buffer
  <2>7. CASE UNCHANGED vars
    BY <2>7 DEF vars
  <2> QED
    BY <2>1, <2>2, <2>3, <2>4, <2>5, <2>6, <2>7 DEF AnyCall, Producer
<1>3. Inv => ChunksInSequence
  BY DEF Sequenced, Sequence, ChunksInSequence
<1> HIDE DEF Inv
<1> QED
  BY <1>1, <1>2, <1>3, TypeCorrect, PTL DEF AnyCallSpec

-----------------------------------------------------------------------------
(* What the buffer holds.  Only the last bucket can be without a line; the *)
(* lines accepted are those that are gone, then those that are stored; and *)
(* bufferSize_ covers what is stored.  eraseLine() keeps this as long as   *)
(* it is called for lines that getNextLine() has returned.                 *)
Stored(b) == SX!FlattenSeq(b.buckets)

Filled(b) == \A i \in 1..(Len(b.buckets) - 1) : b.buckets[i] # <<>>

Counted(b) ==
  /\ \E gone \in Seq(Line) : b.accepted = gone \o Stored(b)
  /\ b.bufferedLines = Len(Stored(b))
  /\ b.totalLinesSent = Len(b.accepted)

Covered(b) == Bytes(Stored(b)) <= b.bufferSize

Kept(b) == b \in Buffer /\ Filled(b) /\ Counted(b) /\ Covered(b)

Holds == Kept(buf) /\ buf.bufferSize <= MaxBufferSize + 1

LEMMA StoredType ==
  ASSUME NEW b \in Buffer
  PROVE  Stored(b) \in Seq(Line) /\ b.buckets \in Seq(Seq(Line))
<1>1. b.buckets \in Seq(Seq(Line))
  BY DEF Buffer
<1> QED
  BY <1>1, FlattenType DEF Stored

LEMMA BytesEmpty == Bytes(<<>>) = 0
<1>1. [i \in 1..Len(<<>>) |-> SizeOf[<<>>[i]]] = <<>>
  OBVIOUS
<1> QED
  BY <1>1, SumSeqEmpty DEF Bytes

LEMMA BytesConcat ==
  ASSUME NEW s \in Seq(Line), NEW t \in Seq(Line)
  PROVE  Bytes(s \o t) = Bytes(s) + Bytes(t)
<1> DEFINE sizes(u) == [i \in 1..Len(u) |-> SizeOf[u[i]]]
<1>1. ASSUME NEW u \in Seq(Line)
      PROVE  sizes(u) \in Seq(Int) /\ Bytes(u) = SumSeq(sizes(u))
  <2>1. \A i \in 1..Len(u) : SizeOf[u[i]] \in Int
    BY SizeAssumption
  <2> QED BY <2>1 DEF Bytes
<1>2. s \o t \in Seq(Line) /\ sizes(s \o t) = sizes(s) \o sizes(t)
  OBVIOUS
<1> HIDE DEF sizes
<1> QED
  BY <1>1, <1>2, SumSeqConcat

(* A text of no bytes has no lines, since every line has its newline. *)
LEMMA BytesPositive ==
  ASSUME NEW s \in Seq(Line), Bytes(s) >= 1
  PROVE  s # <<>>
BY BytesEmpty

LEMMA ConcatFacts ==
  ASSUME NEW S, NEW s \in Seq(S), NEW t \in Seq(S)
  PROVE  /\ s \o t \in Seq(S) /\ Len(s \o t) = Len(s) + Len(t)
         /\ s \o <<>> = s /\ <<>> \o s = s
         /\ (s \o t = <<>> <=> s = <<>> /\ t = <<>>)
         /\ SubSeq(s \o t, Len(s) + 1, Len(s) + Len(t)) = t
<1>1. s \o t \in Seq(S) /\ Len(s \o t) = Len(s) + Len(t)
  OBVIOUS
<1>2. s \o <<>> = s /\ <<>> \o s = s
  BY ConcatEmptySeq
<1>3. s \o t = <<>> <=> s = <<>> /\ t = <<>>
  OBVIOUS
<1>4. SubSeq(s \o t, Len(s) + 1, Len(s) + Len(t)) = t
  OBVIOUS
<1> QED
  BY <1>1, <1>2, <1>3, <1>4

LEMMA FrontFacts ==
  ASSUME NEW S, NEW s \in Seq(S), NEW n \in 0..Len(s)
  PROVE  /\ SubSeq(s, 1, n) \in Seq(S) /\ Len(SubSeq(s, 1, n)) = n
         /\ \A i \in 1..n : SubSeq(s, 1, n)[i] = s[i]
OBVIOUS

LEMMA IsAppend ==
  ASSUME NEW S, NEW f \in Seq(S), NEW e \in S, NEW r \in Seq(S),
         Len(r) = Len(f) + 1, r[Len(r)] = e,
         \A i \in 1..Len(f) : r[i] = f[i]
  PROVE  r = Append(f, e)
OBVIOUS

(* Appending to the last sequence appends to the whole. *)
LEMMA FlattenLast ==
  ASSUME NEW T, NEW seqs \in Seq(Seq(T)), seqs # <<>>, NEW s \in Seq(T)
  PROVE  SX!FlattenSeq([seqs EXCEPT ![Len(seqs)] = @ \o s]) = SX!FlattenSeq(seqs) \o s
<1> DEFINE n     == Len(seqs)
           front == SubSeq(seqs, 1, n - 1)
           x     == seqs[n]
           y     == x \o s
           longer == [seqs EXCEPT ![n] = @ \o s]
<1>1. n \in Nat /\ n >= 1 /\ n \in 1..n
  OBVIOUS
<1>2. front \in Seq(Seq(T)) /\ Len(front) = n - 1 /\ \A i \in 1..(n - 1) : front[i] = seqs[i]
  <2>1. n - 1 \in 0..Len(seqs)
    BY <1>1
  <2> QED BY <2>1, FrontFacts
<1>3. x \in Seq(T)
  BY <1>1, ElementOfSeq
<1>4. seqs = Append(front, x)
  <2> HIDE DEF front
  <2>1. Len(seqs) = Len(front) + 1 /\ \A i \in 1..Len(front) : seqs[i] = front[i]
    BY <1>1, <1>2
  <2>2. seqs[Len(seqs)] = x
    OBVIOUS
  <2> HIDE DEF x, n
  <2> QED BY <1>2, <1>3, <2>1, <2>2, IsAppend
<1>5. longer = Append(front, y)
  <2>1. longer \in Seq(Seq(T)) /\ Len(longer) = n /\ longer[n] = y
        /\ \A i \in 1..(n - 1) : longer[i] = front[i]
    <3>1. y \in Seq(T)
      BY <1>3
    <3> HIDE DEF front, y
    <3>2. longer = [seqs EXCEPT ![n] = y]
      BY DEF y
    <3> QED BY <1>1, <1>2, <3>1, <3>2
  <2>2. y \in Seq(T)
    BY <1>3
  <2> HIDE DEF front, y, longer, x
  <2>3. Len(longer) = Len(front) + 1 /\ longer[Len(longer)] = y
        /\ \A i \in 1..Len(front) : longer[i] = front[i]
    BY <1>1, <1>2, <2>1
  <2> QED BY <1>2, <2>1, <2>2, <2>3, IsAppend
<1>6. y \in Seq(T)
  BY <1>3
<1> HIDE DEF n, front, x, longer
<1>7. SX!FlattenSeq(longer) = SX!FlattenSeq(front) \o y
  <2> HIDE DEF y
  <2> QED BY <1>2, <1>5, <1>6, FlattenAppend
<1>8. SX!FlattenSeq(seqs) = SX!FlattenSeq(front) \o x
  BY <1>2, <1>3, <1>4, FlattenAppend
<1>9. SX!FlattenSeq(front) \in Seq(T)
  BY <1>2, FlattenType
<1>10. SX!FlattenSeq(front) \o (x \o s) = (SX!FlattenSeq(front) \o x) \o s
  <2> DEFINE f == SX!FlattenSeq(front)
  <2> HIDE DEF f
  <2>1. f \in Seq(T)
    BY <1>9 DEF f
  <2>2. f \o (x \o s) = (f \o x) \o s
    BY ONLY <1>3, <2>1, s \in Seq(T)
  <2> QED BY <2>2 DEF f
<1> QED
  BY <1>7, <1>8, <1>10 DEF longer, n

(* A new bucket is begun after one that is full, and so not empty. *)
LEMMA OpenBucketsFacts ==
  ASSUME NEW b \in Buffer, Filled(b)
  PROVE  LET open == OpenBuckets(b)
         IN  /\ open \in Seq(Seq(Line)) /\ Len(open) \in Nat \ {0} /\ open # <<>>
             /\ \A i \in 1..(Len(open) - 1) : open[i] # <<>>
             /\ SX!FlattenSeq(open) = Stored(b)
<1> DEFINE open == OpenBuckets(b)
           old  == b.buckets
<1>1. open \in Seq(Seq(Line)) /\ Len(open) \in Nat \ {0}
  BY OpenBucketsType
<1>2. old \in Seq(Seq(Line)) /\ Stored(b) \in Seq(Line)
  BY StoredType
<1>3. CASE open = old
  <2> HIDE DEF open, old
  <2>1. \A i \in 1..(Len(old) - 1) : old[i] # <<>>
    BY DEF Filled, old
  <2>2. open # <<>>
    BY <1>1
  <2> QED BY <1>1, <1>3, <2>1, <2>2 DEF Stored, old, open
<1>4. CASE open # old
  <2>1. /\ open = Append(old, <<>>)
        /\ old # <<>> => ~(Bytes(old[Len(old)]) < MaxBucketSize)
    BY <1>4 DEF OpenBuckets
  <2>2. \A i \in 1..(Len(old) - 1) : old[i] # <<>>
    BY DEF Filled
  <2> HIDE DEF open, old
  <2>3. <<>> \in Seq(Line) /\ Len(old) \in Nat
    BY <1>2
  <2>4. old # <<>> => old[Len(old)] # <<>>
    <3> SUFFICES ASSUME old # <<>> PROVE old[Len(old)] # <<>>
      OBVIOUS
    <3> DEFINE z == old[Len(old)]
    <3>1. z \in Seq(Line)
      BY <1>2, ElementOfSeq
    <3>2. ~(Bytes(z) < MaxBucketSize)
      BY <2>1
    <3> HIDE DEF z
    <3>3. Bytes(z) >= 1
      BY <3>1, <3>2, BytesType, LimitAssumption
    <3> QED BY <3>1, <3>3, BytesPositive DEF z
  <2>5. SX!FlattenSeq(open) = SX!FlattenSeq(old) \o <<>>
    BY <1>2, <2>1, <2>3, FlattenAppend
  <2>6. SX!FlattenSeq(open) = Stored(b)
    BY <1>2, <2>5, ConcatFacts DEF Stored, old
  <2>7. Len(open) = Len(old) + 1 /\ \A i \in 1..Len(old) : open[i] = old[i]
    BY <1>2, <2>1, <2>3
  <2>8. \A i \in 1..(Len(open) - 1) : open[i] # <<>>
    <3> SUFFICES ASSUME NEW i \in 1..Len(old)
                 PROVE  old[i] # <<>>
      BY <2>3, <2>7
    <3>1. CASE i = Len(old)
      <4>1. old # <<>>
        BY <2>3
      <4> QED BY <2>4, <3>1, <4>1
    <3>2. CASE i # Len(old)
      <4>1. i \in 1..(Len(old) - 1)
        BY <2>3, <3>2
      <4> QED BY <2>2, <4>1
    <3> QED BY <3>1, <3>2
  <2>9. open # <<>>
    BY <1>1
  <2> QED BY <1>1, <2>6, <2>8, <2>9 DEF open
<1> QED
  BY <1>3, <1>4

LEMMA AppendChunkKept ==
  ASSUME NEW b, Kept(b), NEW p \in Piece, p.bare => p.lines = <<>>
  PROVE  /\ Kept(AppendChunk(b, p))
         /\ AppendChunk(b, p).bufferSize \in
              {b.bufferSize + Bytes(p.lines)} \cup (IF p.bare THEN {b.bufferSize + p.raw} ELSE {})
<1> DEFINE open  == OpenBuckets(b)
           n     == Len(open)
           c     == AppendChunk(b, p)
           new   == p.lines
           more  == [open EXCEPT ![n] = @ \o new]
<1>0. b \in Buffer /\ Filled(b) /\ Counted(b) /\ Covered(b)
  BY DEF Kept
<1>1. c \in Buffer
  BY <1>0, AppendChunkType
<1>2. /\ open \in Seq(Seq(Line)) /\ n \in Nat \ {0} /\ open # <<>>
      /\ \A i \in 1..(n - 1) : open[i] # <<>>
      /\ SX!FlattenSeq(open) = Stored(b)
  BY <1>0, OpenBucketsFacts
<1>3. /\ p.raw \in Nat /\ new \in Seq(Line) /\ Len(new) \in Nat /\ Bytes(new) \in Nat
  BY BytesType DEF Piece
<1>4. /\ b.totalLinesSent \in Nat /\ b.bufferSize \in Int /\ b.bufferedLines \in Int
      /\ b.accepted \in Seq(Line) /\ Stored(b) \in Seq(Line)
  BY <1>0, StoredType DEF Buffer
<1>5. /\ c.buckets = more
      /\ c.bufferSize = b.bufferSize - CleanedBytes(open[n], p) + p.raw
      /\ c.bufferedLines = b.bufferedLines + Len(new)
      /\ c.totalLinesSent = b.totalLinesSent + Len(new)
      /\ c.accepted = b.accepted \o new
  BY <1>0 DEF AppendChunk, Buffer
<1> HIDE DEF c, open, new
<1>6. Stored(c) = Stored(b) \o new
  <2>1. SX!FlattenSeq([open EXCEPT ![Len(open)] = @ \o new]) = SX!FlattenSeq(open) \o new
    BY <1>2, <1>3, FlattenLast
  <2>2. SX!FlattenSeq(more) = Stored(b) \o new
    BY <1>2, <2>1
  <2> HIDE DEF more
  <2> QED BY <1>5, <2>2 DEF Stored
<1>7. Filled(c)
  <2>1. Len(c.buckets) = n /\ \A i \in 1..(n - 1) : c.buckets[i] = open[i]
    <3>1. Len(more) = n /\ \A i \in 1..(n - 1) : more[i] = open[i]
      BY <1>2
    <3> HIDE DEF more
    <3> QED BY <1>5, <3>1
  <2> HIDE DEF n
  <2> QED BY <1>2, <2>1 DEF Filled
<1>8. Counted(c)
  <2>1. PICK gone \in Seq(Line) : b.accepted = gone \o Stored(b)
    BY <1>0 DEF Counted
  <2> DEFINE f == Stored(b)
             a == b.accepted
  <2>2. b.bufferedLines = Len(f) /\ b.totalLinesSent = Len(a)
    BY <1>0 DEF Counted
  <2>3. f \in Seq(Line) /\ a \in Seq(Line) /\ a = gone \o f
    BY <1>4, <2>1
  <2>4. Stored(c) = f \o new /\ c.accepted = a \o new
    BY <1>5, <1>6
  <2>5. c.bufferedLines = Len(f) + Len(new) /\ c.totalLinesSent = Len(a) + Len(new)
    BY <1>5, <2>2
  <2> HIDE DEF f, a
  <2>6. a \o new = gone \o (f \o new)
    BY ONLY <1>3, <2>3
  <2>7. Len(f \o new) = Len(f) + Len(new) /\ Len(a \o new) = Len(a) + Len(new)
    BY <1>3, <2>3, ConcatFacts
  <2>8. \E g \in Seq(Line) : c.accepted = g \o Stored(c)
    BY <2>4, <2>6
  <2> QED BY <2>4, <2>5, <2>7, <2>8 DEF Counted
<1>9. c.bufferSize \in {b.bufferSize + Bytes(new)} \cup (IF p.bare THEN {b.bufferSize + p.raw} ELSE {})
  <2>1. CASE p.bare /\ open[n] = <<>>
    <3>1. CleanedBytes(open[n], p) = 0
      BY <2>1 DEF CleanedBytes
    <3>2. c.bufferSize = b.bufferSize + p.raw
      BY <1>3, <1>4, <1>5, <3>1
    <3> QED BY <2>1, <3>2
  <2>2. CASE ~(p.bare /\ open[n] = <<>>)
    <3>1. CleanedBytes(open[n], p) = p.raw - Bytes(new)
      BY <2>2 DEF CleanedBytes, new
    <3>2. c.bufferSize = b.bufferSize + Bytes(new)
      BY <1>3, <1>4, <1>5, <3>1
    <3> QED BY <3>2
  <2> QED BY <2>1, <2>2
<1>10. Covered(c)
  <2>1. Bytes(Stored(c)) = Bytes(Stored(b)) + Bytes(new)
    BY <1>3, <1>4, <1>6, BytesConcat
  <2>2. Bytes(Stored(b)) \in Nat /\ Bytes(Stored(b)) <= b.bufferSize
    BY <1>0, <1>4, BytesType DEF Covered
  <2>3. CASE c.bufferSize = b.bufferSize + Bytes(new)
    BY <1>3, <1>4, <2>1, <2>2, <2>3 DEF Covered
  <2>4. CASE p.bare /\ c.bufferSize = b.bufferSize + p.raw
    <3>1. Bytes(new) = 0
      BY <2>4, BytesEmpty DEF new
    <3> QED BY <1>3, <1>4, <2>1, <2>2, <2>4, <3>1 DEF Covered
  <2> QED BY <1>9, <2>3, <2>4
<1> QED
  BY <1>1, <1>7, <1>8, <1>9, <1>10 DEF Kept, c, new

(* A piece adds no more than its own length, and one newline if it is the  *)
(* last piece of the text.                                                 *)
LEMMA AppendChunksKept ==
  ASSUME NEW gcode \in Gcodes, NEW b, Kept(b)
  PROVE  /\ Kept(AppendChunks(b, gcode))
         /\ gcode = <<>> => AppendChunks(b, gcode).bufferSize = b.bufferSize
         /\ gcode # <<>> =>
              AppendChunks(b, gcode).bufferSize <= b.bufferSize + RawBytes(gcode) + 1
<1> DEFINE N    == Len(gcode)
           raws == [i \in 1..N |-> gcode[i].raw]
<1>0. gcode \in Seq(Piece) /\ N \in Nat /\ \A i \in 1..N : gcode[i] \in Piece
  <2>1. gcode \in Seq(Piece)
    BY InputAssumption
  <2> QED BY <2>1
<1>1. raws \in Seq(Int) /\ Len(raws) = N /\ \A i \in 1..N : raws[i] = gcode[i].raw
  <2>1. \A i \in 1..N : gcode[i].raw \in Int
    BY <1>0 DEF Piece
  <2> QED BY <1>0, <2>1
<1>2. RawBytes(gcode) = SumSeq(raws)
  BY DEF RawBytes
<1> HIDE DEF raws
<1>3. PICK f \in [0..N -> Int] :
        /\ f[0] = 0
        /\ \A i \in 1..N : f[i] = f[i - 1] + raws[i]
        /\ RawBytes(gcode) = f[N]
  BY <1>1, <1>2, SumSeqFunction
<1> DEFINE Extra(i) == IF i = N /\ N > 0 THEN 1 ELSE 0
           Within(c, i) == Kept(c) /\ c.bufferSize <= b.bufferSize + f[i] + Extra(i)
           P == [i \in 0..N |-> {c \in Buffer : Within(c, i)}]
<1>4. b.bufferSize \in Int /\ b \in Buffer
  BY DEF Kept, Buffer
<1>5. b \in P[0]
  <2>1. Within(b, 0)
    BY <1>0, <1>3, <1>4
  <2> HIDE DEF Within
  <2> QED BY <1>0, <1>4, <2>1
<1>6. ASSUME NEW i \in 1..N, NEW c \in P[i - 1]
      PROVE  AppendChunk(c, gcode[i]) \in P[i]
  <2> DEFINE p == gcode[i]
             d == AppendChunk(c, p)
  <2>1. i - 1 \in 0..N /\ i \in 0..N /\ Extra(i - 1) = 0 /\ Extra(i) = IF i = N THEN 1 ELSE 0
    BY <1>0
  <2>2. c \in Buffer /\ Kept(c) /\ c.bufferSize <= b.bufferSize + f[i - 1] + 0
    <3>1. Within(c, i - 1) /\ c \in Buffer
      <4> HIDE DEF Within
      <4> QED BY <1>6, <2>1
    <3> QED BY <2>1, <3>1
  <2>3. p \in Piece /\ f[i] = f[i - 1] + p.raw
    BY <1>0, <1>1, <1>3
  <2>4. /\ p.bare => p.lines = <<>>
        /\ Bytes(p.lines) <= p.raw + (IF i = N THEN 1 ELSE 0)
    BY PieceAssumption DEF Bytes
  <2> HIDE DEF p
  <2>5. /\ Kept(d)
        /\ d.bufferSize \in {c.bufferSize + Bytes(p.lines)}
                             \cup (IF p.bare THEN {c.bufferSize + p.raw} ELSE {})
    BY <2>2, <2>3, <2>4, AppendChunkKept
  <2> HIDE DEF d, Extra
  <2>6. /\ p.raw \in Nat /\ Bytes(p.lines) \in Nat /\ c.bufferSize \in Int /\ d \in Buffer
        /\ f[i - 1] \in Int /\ f[i] \in Int
    <3>1. p.raw \in Nat /\ p.lines \in Seq(Line)
      BY <2>3 DEF Piece
    <3>2. c.bufferSize \in Int /\ d \in Buffer
      BY <2>2, <2>5 DEF Kept, Buffer
    <3> QED BY <1>3, <2>1, <3>1, <3>2, BytesType
  <2> DEFINE e == IF i = N THEN 1 ELSE 0
             z == Bytes(p.lines)
  <2>7. z <= p.raw + e /\ e \in {0, 1} /\ Extra(i) = e /\ z \in Nat
    BY <2>1, <2>4, <2>6
  <2>8. d.bufferSize = c.bufferSize + z \/ d.bufferSize = c.bufferSize + p.raw
    BY <2>5
  <2> HIDE DEF e, z
  <2>9. d.bufferSize <= b.bufferSize + f[i] + Extra(i)
    <3> DEFINE old  == b.bufferSize
               was  == c.bufferSize
               is   == d.bufferSize
               raw  == p.raw
               from == f[i - 1]
               to   == f[i]
               more == Extra(i)
    <3>1. /\ old \in Int /\ was \in Int /\ raw \in Nat /\ from \in Int /\ to \in Int
          /\ was <= old + from + 0 /\ to = from + raw
          /\ z <= raw + e /\ e \in {0, 1} /\ more = e /\ z \in Nat
          /\ is = was + z \/ is = was + raw
      BY <1>4, <2>2, <2>3, <2>6, <2>7, <2>8
    <3> HIDE DEF old, was, is, raw, from, to, more
    <3>2. is <= old + to + more
      BY ONLY <3>1
    <3> QED BY <3>2 DEF old, is, to, more
  <2>10. Within(d, i)
    BY <2>5, <2>9
  <2> HIDE DEF Within
  <2> QED BY <2>1, <2>6, <2>10 DEF d, p
<1>7. AppendChunks(b, gcode) \in P[N]
  <2> HIDE DEF P
  <2>1. \A i \in 1..N : \A c \in P[i - 1] : AppendChunk(c, gcode[i]) \in P[i]
    BY <1>6
  <2> QED BY <1>0, <1>5, <2>1, AppendChunksInduction
<1> DEFINE r == AppendChunks(b, gcode)
<1>8. Within(r, N) /\ r \in Buffer
  <2> HIDE DEF Within, r
  <2>1. r \in P[N] /\ N \in 0..N
    BY <1>0, <1>7 DEF r
  <2> QED BY <2>1
<1>9. gcode # <<>> => r.bufferSize <= b.bufferSize + RawBytes(gcode) + 1
  <2> SUFFICES ASSUME gcode # <<>> PROVE r.bufferSize <= b.bufferSize + RawBytes(gcode) + 1
    OBVIOUS
  <2>1. N > 0
    BY <1>0
  <2>2. Extra(N) = 1
    BY <2>1
  <2> HIDE DEF Extra, r
  <2> QED BY <1>3, <1>8, <2>2
<1>10. gcode = <<>> => r.bufferSize = b.bufferSize
  <2> SUFFICES ASSUME gcode = <<>> PROVE r.bufferSize = b.bufferSize
    OBVIOUS
  <2>1. PICK g : g[0] = b /\ AppendChunks(b, gcode) = g[Len(gcode)]
    BY <1>0, AppendChunksFunction
  <2>2. Len(gcode) = 0
    OBVIOUS
  <2> QED BY <2>1, <2>2
<1> QED
  BY <1>8, <1>9, <1>10

LEMMA RawBytesType ==
  ASSUME NEW gcode \in Seq(Piece)
  PROVE  RawBytes(gcode) \in Nat
<1> DEFINE raws == [i \in 1..Len(gcode) |-> gcode[i].raw]
<1>1. \A i \in 1..Len(gcode) : gcode[i].raw \in Nat
  <2>1. \A i \in 1..Len(gcode) : gcode[i] \in Piece
    BY ElementOfSeq
  <2> QED BY <2>1 DEF Piece
<1>2. raws \in Seq(Nat)
  BY <1>1
<1> HIDE DEF raws
<1> QED
  BY <1>2, SumSeqNat DEF RawBytes, raws

LEMMA NotedKept ==
  ASSUME NEW b, Kept(b), NEW total \in Int, NEW m \in MetaData \cup {NULL}
  PROVE  Kept(Noted(b, total, m)) /\ Noted(b, total, m).bufferSize = b.bufferSize
<1> DEFINE c == Noted(b, total, m)
<1>1. b \in Buffer /\ c \in Buffer
  BY NotedType DEF Kept
<1>2. /\ c.buckets = b.buckets /\ c.accepted = b.accepted /\ c.bufferSize = b.bufferSize
      /\ c.bufferedLines = b.bufferedLines /\ c.totalLinesSent = b.totalLinesSent
  BY <1>1 DEF Noted, Buffer
<1> HIDE DEF c
<1>3. Stored(c) = Stored(b)
  BY <1>2 DEF Stored
<1>4. Filled(c) /\ Counted(c) /\ Covered(c)
  BY <1>2, <1>3 DEF Kept, Filled, Counted, Covered
<1> QED
  BY <1>1, <1>2, <1>4 DEF Kept, c

LEMMA AppendedKept ==
  ASSUME NEW b, Kept(b), b.bufferSize <= MaxBufferSize + 1,
         NEW gcode \in Gcodes, NEW total \in TotalsGiven, NEW m \in MetaDatas
  PROVE  /\ Kept(Appended(b, gcode, total, m))
         /\ Appended(b, gcode, total, m).bufferSize <= MaxBufferSize + 1
<1>0. total \in Int /\ m \in MetaData \cup {NULL} /\ gcode \in Seq(Piece)
  BY InputAssumption
<1>1. CASE ~(Consistent(b, m) /\ HasRoom(b, gcode))
  BY <1>1 DEF Appended
<1>2. CASE Consistent(b, m) /\ HasRoom(b, gcode)
  <2> DEFINE c == Noted(b, total, m)
             d == AppendChunks(c, gcode)
  <2>1. Kept(c) /\ c.bufferSize = b.bufferSize
    BY <1>0, NotedKept
  <2>2. Appended(b, gcode, total, m) = d
    BY <1>2 DEF Appended
  <2> HIDE DEF c
  <2>3. /\ Kept(d)
        /\ gcode = <<>> => d.bufferSize = c.bufferSize
        /\ gcode # <<>> => d.bufferSize <= c.bufferSize + RawBytes(gcode) + 1
    BY <2>1, AppendChunksKept
  <2> HIDE DEF d
  <2>4. b.bufferSize + RawBytes(gcode) <= MaxBufferSize
    BY <1>2 DEF HasRoom
  <2> DEFINE x == b.bufferSize
             y == d.bufferSize
             z == RawBytes(gcode)
  <2>5. x \in Int /\ y \in Int /\ z \in Nat /\ MaxBufferSize \in Nat
    <3>1. x \in Int /\ y \in Int
      BY <2>3 DEF Kept, Buffer
    <3> QED BY <1>0, <3>1, RawBytesType, LimitAssumption
  <2>6. /\ x + z <= MaxBufferSize /\ x <= MaxBufferSize + 1
        /\ y = x \/ y <= x + z + 1
    BY <2>1, <2>3, <2>4
  <2> HIDE DEF x, y, z
  <2>7. y <= MaxBufferSize + 1
    BY ONLY <2>5, <2>6
  <2> QED BY <2>2, <2>3, <2>7 DEF y
<1> QED
  BY <1>1, <1>2

LEMMA ClearedKept == Kept(Cleared) /\ Cleared.bufferSize <= MaxBufferSize + 1
<1> DEFINE c == Cleared
<1>1. c \in Buffer
  BY ClearedType
<1>2. /\ c.buckets = <<>> /\ c.accepted = <<>> /\ c.bufferSize = 0
      /\ c.bufferedLines = 0 /\ c.totalLinesSent = 0
  BY DEF Cleared
<1> HIDE DEF c
<1>3. Stored(c) = <<>>
  BY <1>2, FlattenEmpty DEF Stored
<1>4. Filled(c)
  <2>1. Len(c.buckets) = 0
    BY <1>2
  <2>2. 1..(0 - 1) = {}
    OBVIOUS
  <2> QED BY <2>1, <2>2 DEF Filled
<1>5. Counted(c)
  <2> DEFINE e == <<>>
  <2>1. e \in Seq(Line) /\ e = e \o e /\ Len(e) = 0
    OBVIOUS
  <2>2. c.accepted = e /\ Stored(c) = e
    BY <1>2, <1>3
  <2> HIDE DEF e
  <2>3. \E gone \in Seq(Line) : c.accepted = gone \o Stored(c)
    BY <2>1, <2>2
  <2>4. c.bufferedLines = Len(Stored(c)) /\ c.totalLinesSent = Len(c.accepted)
    BY <1>2, <2>1, <2>2
  <2> QED BY <2>3, <2>4 DEF Counted
<1>6. Covered(c)
  BY <1>2, <1>3, BytesEmpty DEF Covered
<1>7. c.bufferSize <= MaxBufferSize + 1
  BY <1>2, LimitAssumption
<1> QED
  BY <1>1, <1>4, <1>5, <1>6, <1>7 DEF Kept, c

(* The first bucket and the others *)
LEMMA StoredFirst ==
  ASSUME NEW b \in Buffer, b.buckets # <<>>
  PROVE  /\ Head(b.buckets) \in Seq(Line) /\ Tail(b.buckets) \in Seq(Seq(Line))
         /\ SX!FlattenSeq(Tail(b.buckets)) \in Seq(Line)
         /\ Stored(b) = Head(b.buckets) \o SX!FlattenSeq(Tail(b.buckets))
<1> DEFINE s     == b.buckets
           first == Head(s)
           rest  == Tail(s)
<1>1. s \in Seq(Seq(Line)) /\ s # <<>>
  BY StoredType
<1> HIDE DEF s
<1>2. first \in Seq(Line) /\ rest \in Seq(Seq(Line)) /\ s = <<first>> \o rest
  BY <1>1
<1> HIDE DEF first, rest
<1>3. SX!FlattenSeq(<<first>> \o rest) = first \o SX!FlattenSeq(rest)
  BY <1>2, FlattenCons
<1>4. SX!FlattenSeq(rest) \in Seq(Line)
  BY <1>2, FlattenType
<1> QED
  BY <1>2, <1>3, <1>4 DEF Stored, s, first, rest

LEMMA TailFilled ==
  ASSUME NEW S, NEW s \in Seq(Seq(S)), s # <<>>,
         \A i \in 1..(Len(s) - 1) : s[i] # <<>>
  PROVE  \A i \in 1..(Len(Tail(s)) - 1) : Tail(s)[i] # <<>>
<1>1. Len(Tail(s)) = Len(s) - 1 /\ \A i \in 1..Len(Tail(s)) : Tail(s)[i] = s[i + 1]
  OBVIOUS
<1> SUFFICES ASSUME NEW i \in 1..(Len(Tail(s)) - 1)
             PROVE  Tail(s)[i] # <<>>
  OBVIOUS
<1>2. i \in 1..Len(Tail(s)) /\ i + 1 \in 1..(Len(s) - 1)
  BY <1>1
<1> QED
  BY <1>1, <1>2

LEMMA SplitAt ==
  ASSUME NEW S, NEW s \in Seq(S), NEW n \in 0..Len(s)
  PROVE  /\ SubSeq(s, 1, n) \in Seq(S) /\ SubSeq(s, n + 1, Len(s)) \in Seq(S)
         /\ Len(SubSeq(s, 1, n)) = n /\ Len(SubSeq(s, n + 1, Len(s))) = Len(s) - n
         /\ s = SubSeq(s, 1, n) \o SubSeq(s, n + 1, Len(s))
<1> DEFINE x == SubSeq(s, 1, n)
           y == SubSeq(s, n + 1, Len(s))
<1>0. n \in Nat /\ Len(s) \in Nat /\ n <= Len(s)
  OBVIOUS
<1>1. x \in Seq(S) /\ Len(x) = n /\ \A i \in 1..n : x[i] = s[i]
  BY FrontFacts
<1>2. y \in Seq(S) /\ Len(y) = Len(s) - n /\ \A i \in 1..(Len(s) - n) : y[i] = s[n + i]
  BY <1>0
<1> HIDE DEF x, y
<1>3. /\ x \o y \in Seq(S) /\ Len(x \o y) = n + (Len(s) - n)
      /\ \A i \in 1..(n + (Len(s) - n)) : (x \o y)[i] = IF i <= n THEN x[i] ELSE y[i - n]
  BY <1>1, <1>2
<1> DEFINE z == x \o y
<1>4. Len(z) = Len(s)
  BY <1>0, <1>3
<1>5. z \in Seq(S) /\ \A i \in 1..Len(s) : z[i] = IF i <= n THEN x[i] ELSE y[i - n]
  BY <1>0, <1>3
<1> HIDE DEF z
<1>6. \A i \in 1..Len(s) : z[i] = s[i]
  <2> SUFFICES ASSUME NEW i \in 1..Len(s) PROVE z[i] = s[i]
    OBVIOUS
  <2>1. CASE i <= n
    BY <1>0, <1>1, <1>5, <2>1
  <2>2. CASE i > n
    <3> DEFINE j == i - n
    <3>1. j \in 1..(Len(s) - n) /\ n + j = i /\ z[i] = y[j]
      BY <1>0, <1>5, <2>2
    <3> HIDE DEF j
    <3> QED BY <1>2, <3>1
  <2> QED BY <1>0, <2>1, <2>2
<1>7. z = s
  BY <1>4, <1>5, <1>6, SeqEqual
<1> QED
  BY <1>1, <1>2, <1>7 DEF x, y, z

(* eraseLine() of lines that are there *)
LEMMA ErasedKept ==
  ASSUME NEW b, Kept(b), b.buckets # <<>>, Head(b.buckets) # <<>>, NEW amount \in Nat,
         NEW count, count = Smaller(amount, Len(Head(b.buckets)))
  PROVE  Kept(Erased(b, amount, count)) /\ Erased(b, amount, count).bufferSize <= b.bufferSize
<1> DEFINE first  == Head(b.buckets)
           others == Tail(b.buckets)
           gone   == SubSeq(first, 1, count)
           rest   == SubSeq(first, count + 1, Len(first))
           c      == Erased(b, amount, count)
           f      == SX!FlattenSeq(others)
<1>0. b \in Buffer /\ Filled(b) /\ Counted(b) /\ Covered(b)
  BY DEF Kept
<1>1. /\ first \in Seq(Line) /\ others \in Seq(Seq(Line)) /\ f \in Seq(Line)
      /\ Stored(b) = first \o f
  BY <1>0, StoredFirst
<1>2. count \in 0..Len(first) /\ count \in Nat /\ Len(first) \in Nat
  <2> HIDE DEF first
  <2>1. Len(first) \in Nat /\ count = Smaller(amount, Len(first))
    BY <1>1 DEF first
  <2> QED BY <2>1 DEF Smaller
<1>3. /\ gone \in Seq(Line) /\ rest \in Seq(Line) /\ Len(gone) = count
      /\ Len(rest) = Len(first) - count /\ first = gone \o rest
  <2> HIDE DEF first, others, f
  <2>1. first \in Seq(Line)
    BY <1>1
  <2> QED BY <1>2, <2>1, SplitAt
<1>4. c \in Buffer
  BY <1>0, <1>2, ErasedType
<1>5. /\ c.buckets = IF rest = <<>> THEN others ELSE <<rest>> \o others
      /\ c.bufferSize = b.bufferSize - (Bytes(first) - Bytes(rest))
      /\ c.bufferedLines = b.bufferedLines - count
      /\ c.totalLinesSent = b.totalLinesSent /\ c.accepted = b.accepted
  BY <1>0 DEF Erased, Buffer
<1>6. b.buckets \in Seq(Seq(Line)) /\ Stored(b) \in Seq(Line) /\ b.accepted \in Seq(Line)
      /\ b.bufferSize \in Int
  BY <1>0, StoredType DEF Buffer
<1>7. \A i \in 1..(Len(others) - 1) : others[i] # <<>>
  <2>1. \A i \in 1..(Len(b.buckets) - 1) : b.buckets[i] # <<>>
    BY <1>0 DEF Filled
  <2> QED BY <1>6, <2>1, TailFilled
<1> HIDE DEF first, others, gone, rest, c, f
<1>8. Stored(c) = rest \o f
  <2>1. CASE rest = <<>>
    <3>1. rest \o f = f
      BY <1>1, <2>1, ConcatFacts
    <3> QED BY <1>5, <2>1, <3>1 DEF Stored, f
  <2>2. CASE rest # <<>>
    <3>1. SX!FlattenSeq(<<rest>> \o others) = rest \o f
      BY <1>1, <1>3, FlattenCons DEF f
    <3> QED BY <1>5, <2>2, <3>1 DEF Stored
  <2> QED BY <2>1, <2>2
<1>9. Filled(c)
  <2>1. CASE rest = <<>>
    BY <1>5, <1>7, <2>1 DEF Filled
  <2>2. CASE rest # <<>>
    <3> DEFINE s == <<rest>> \o others
    <3>1. Len(s) = Len(others) + 1 /\ s[1] = rest /\ Len(others) \in Nat
          /\ \A i \in 1..Len(others) : s[i + 1] = others[i]
      BY <1>1, <1>3, ConsFacts
    <3>2. c.buckets = s
      BY <1>5, <2>2
    <3> HIDE DEF s
    <3>3. ASSUME NEW i \in 1..(Len(s) - 1)
          PROVE  s[i] # <<>>
      <4>1. CASE i = 1
        BY <2>2, <3>1, <4>1
      <4>2. CASE i # 1
        <5> DEFINE j == i - 1
        <5>1. j \in 1..(Len(others) - 1) /\ j \in 1..Len(others) /\ i = j + 1
          BY <3>1, <4>2
        <5> HIDE DEF j
        <5>2. s[j + 1] = others[j] /\ others[j] # <<>>
          BY <1>7, <3>1, <5>1
        <5> QED BY <5>1, <5>2
      <4> QED BY <4>1, <4>2
    <3> QED BY <3>2, <3>3 DEF Filled
  <2> QED BY <2>1, <2>2
<1>10. Counted(c)
  <2>1. PICK before \in Seq(Line) : b.accepted = before \o Stored(b)
    BY <1>0 DEF Counted
  <2> DEFINE a == b.accepted
  <2>2. a = before \o ((gone \o rest) \o f)
    BY <1>1, <1>3, <2>1
  <2>3. (before \o gone) \o (rest \o f) = before \o ((gone \o rest) \o f)
    <3> DEFINE u == rest \o f
    <3>1. u \in Seq(Line) /\ f \in Seq(Line) /\ rest \in Seq(Line) /\ gone \in Seq(Line)
      BY <1>1, <1>3
    <3>2. gone \o (rest \o f) = (gone \o rest) \o f
      BY ONLY <3>1
    <3> HIDE DEF u
    <3>3. (before \o gone) \o u = before \o (gone \o u)
      BY ONLY <3>1, before \in Seq(Line)
    <3> QED BY ONLY <3>2, <3>3 DEF u
  <2>4. before \o gone \in Seq(Line)
    BY <1>3
  <2>5. \E g \in Seq(Line) : c.accepted = g \o Stored(c)
    BY <1>5, <1>8, <2>2, <2>3, <2>4
  <2>6. Len(rest \o f) = Len(rest) + Len(f) /\ Len(first \o f) = Len(first) + Len(f)
        /\ Len(f) \in Nat
    <3>1. f \in Seq(Line) /\ rest \in Seq(Line) /\ first \in Seq(Line)
      BY <1>1, <1>3
    <3> QED BY ONLY <3>1
  <2>7. c.bufferedLines = Len(Stored(c))
    <3>1. b.bufferedLines = Len(first) + Len(f)
      BY <1>0, <1>1, <2>6 DEF Counted
    <3>2. c.bufferedLines = Len(rest) + Len(f)
      BY <1>2, <1>3, <1>5, <2>6, <3>1
    <3> QED BY <1>8, <2>6, <3>2
  <2>8. c.totalLinesSent = Len(c.accepted)
    BY <1>0, <1>5 DEF Counted
  <2> QED BY <2>5, <2>7, <2>8 DEF Counted
<1>11. Covered(c) /\ c.bufferSize <= b.bufferSize
  <2>1. /\ Bytes(first) = Bytes(gone) + Bytes(rest)
        /\ Bytes(first \o f) = Bytes(first) + Bytes(f)
        /\ Bytes(rest \o f) = Bytes(rest) + Bytes(f)
    BY <1>1, <1>3, BytesConcat
  <2>2. /\ Bytes(first) \in Nat /\ Bytes(gone) \in Nat /\ Bytes(rest) \in Nat
        /\ Bytes(f) \in Nat
    BY <1>1, <1>3, BytesType
  <2>3. Bytes(first \o f) <= b.bufferSize
    BY <1>0, <1>1 DEF Covered
  <2>4. /\ Bytes(rest \o f) <= c.bufferSize
        /\ c.bufferSize <= b.bufferSize
    <3> DEFINE all   == Bytes(first \o f)
               left  == Bytes(rest \o f)
               bf    == Bytes(first)
               bg    == Bytes(gone)
               br    == Bytes(rest)
               bo    == Bytes(f)
               old   == b.bufferSize
               new   == c.bufferSize
    <3>1. /\ bf = bg + br /\ all = bf + bo /\ left = br + bo
          /\ bf \in Nat /\ bg \in Nat /\ br \in Nat /\ bo \in Nat /\ old \in Int
          /\ all <= old /\ new = old - (bf - br)
      BY <1>5, <1>6, <2>1, <2>2, <2>3
    <3> HIDE DEF all, left, bf, bg, br, bo, old, new
    <3>2. left <= new /\ new <= old
      BY ONLY <3>1
    <3> QED BY <3>2 DEF left, new, old
  <2> QED BY <1>8, <2>4 DEF Covered
<1> QED
  BY <1>4, <1>9, <1>10, <1>11 DEF Kept, c

LEMMA HoldsInit == Init => Holds
BY ClearedKept DEF Init, Holds

LEMMA HoldsStep ==
  ASSUME Holds, [Next]_vars
  PROVE  Holds'
<1>0. Kept(buf) /\ buf.bufferSize <= MaxBufferSize + 1
  BY DEF Holds
<1>1. ASSUME NEW gcode \in Gcodes, NEW total \in TotalsGiven, NEW m \in MetaDatas,
             SetGCode(gcode, total, m)
      PROVE  Holds'
  <2>1. buf' = Appended(Cleared, gcode, total, m)
    BY <1>1 DEF SetGCode
  <2>2. Kept(buf') /\ buf'.bufferSize <= MaxBufferSize + 1
    BY <2>1, ClearedKept, AppendedKept
  <2> QED BY <2>2 DEF Holds, Kept, Filled, Counted, Covered, Stored
<1>2. ASSUME NEW gcode \in Gcodes, NEW total \in TotalsGiven, NEW m \in MetaDatas,
             AppendGCode(gcode, total, m)
      PROVE  Holds'
  <2>1. buf' = Appended(buf, gcode, total, m)
    BY <1>2 DEF AppendGCode
  <2>2. Kept(buf') /\ buf'.bufferSize <= MaxBufferSize + 1
    BY <1>0, <2>1, AppendedKept
  <2> QED BY <2>2 DEF Holds, Kept, Filled, Counted, Covered, Stored
<1>3. CASE Clear
  <2>1. Kept(buf') /\ buf'.bufferSize <= MaxBufferSize + 1
    BY <1>3, ClearedKept DEF Clear
  <2> QED BY <2>1 DEF Holds, Kept, Filled, Counted, Covered, Stored
<1>4. ASSUME NEW line \in LineNumbers, SetCurrentLine(line)
      PROVE  Holds'
  <2> DEFINE l == Smaller(line, buf.totalLinesSent)
             b == buf
             c == buf'
  <2>1. b \in Buffer /\ c = [b EXCEPT !.currentLine = l]
    BY <1>0, <1>4 DEF Kept, SetCurrentLine
  <2>2. l \in Int
    <3>1. line \in Int /\ buf.totalLinesSent \in Nat
      BY <2>1, InputAssumption DEF Buffer
    <3> QED BY <3>1 DEF Smaller
  <2> HIDE DEF l
  <2>3. c \in Buffer
    BY <2>1, <2>2 DEF Buffer
  <2>4. /\ c.buckets = b.buckets /\ c.accepted = b.accepted /\ c.bufferSize = b.bufferSize
        /\ c.bufferedLines = b.bufferedLines /\ c.totalLinesSent = b.totalLinesSent
    BY <2>1 DEF Buffer
  <2>5. Kept(c) /\ c.bufferSize <= MaxBufferSize + 1
    BY <1>0, <2>3, <2>4 DEF Kept, Filled, Counted, Covered, Stored
  <2> QED BY <2>5 DEF Holds, Kept, Filled, Counted, Covered, Stored
<1>5. ASSUME NEW amount \in Amounts, EraseFetchedLine(amount)
      PROVE  Holds'
  <2>0. amount \in Nat /\ NextLineCount(buf, amount) > 0 /\ EraseLine(amount)
    BY <1>5, InputAssumption DEF EraseFetchedLine
  <2>1. buf.buckets # <<>> /\ Head(buf.buckets) # <<>>
    <3>1. buf.buckets # <<>>
      BY <2>0 DEF NextLineCount
    <3>2. ASSUME Head(buf.buckets) = <<>>
          PROVE  FALSE
      <4>1. Len(Head(buf.buckets)) = 0
        BY <3>2
      <4>2. Smaller(amount, 0) = 0
        BY <2>0 DEF Smaller
      <4> QED BY <2>0, <3>1, <4>1, <4>2 DEF NextLineCount
    <3> QED BY <3>1, <3>2
  <2>2. PICK count \in EraseCounts(Head(buf.buckets), amount) :
               buf' = Erased(buf, amount, count)
    BY <2>0, <2>1 DEF EraseLine
  <2>3. count = Smaller(amount, Len(Head(buf.buckets)))
    BY <2>1, <2>2 DEF EraseCounts
  <2>4. Kept(buf') /\ buf'.bufferSize <= buf.bufferSize
    BY <1>0, <2>0, <2>1, <2>2, <2>3, ErasedKept
  <2> DEFINE x == buf.bufferSize
             y == buf'.bufferSize
  <2>5. x \in Int /\ y \in Int /\ y <= x /\ x <= MaxBufferSize + 1
    BY <1>0, <2>4 DEF Kept, Buffer
  <2> HIDE DEF x, y
  <2>6. y <= MaxBufferSize + 1
    BY <2>5, LimitAssumption
  <2> QED BY <2>4, <2>6 DEF y, Holds, Kept, Filled, Counted, Covered, Stored
<1>6. CASE UNCHANGED vars
  BY <1>6 DEF vars, Holds, Kept, Filled, Counted, Covered, Stored
<1> QED
  BY <1>1, <1>2, <1>3, <1>4, <1>5, <1>6 DEF Next, Producer

LEMMA HoldsAlways == Spec => []Holds
BY HoldsInit, HoldsStep, PTL DEF Spec

(* Whatever chunks come in, are refused or are split over buckets, the     *)
(* buffer holds the last bufferedLines_ of the totalLinesSent_ lines       *)
(* accepted, in their order.                                               *)
THEOREM DeliveredInOrder == Spec => []DeliversInOrder
<1>1. ASSUME Holds
      PROVE  DeliversInOrder
  <2>0. Kept(buf) /\ buf \in Buffer /\ Counted(buf)
    BY <1>1 DEF Holds, Kept
  <2>1. PICK gone \in Seq(Line) : buf.accepted = gone \o Stored(buf)
    BY <2>0 DEF Counted
  <2> DEFINE f     == Stored(buf)
             total == buf.totalLinesSent
             held  == buf.bufferedLines
             all   == buf.accepted
  <2>2. f \in Seq(Line) /\ f = StoredLines /\ all = gone \o f
    BY <2>0, <2>1, StoredType DEF Stored, StoredLines
  <2>3. held = Len(f) /\ total = Len(all)
    BY <2>0 DEF Counted
  <2> HIDE DEF f, total, held, all
  <2>4. Len(all) = Len(gone) + Len(f) /\ Len(f) \in Nat /\ Len(gone) \in Nat
    BY ONLY <2>2, gone \in Seq(Line)
  <2>5. SubSeq(gone \o f, Len(gone) + 1, Len(gone) + Len(f)) = f
    BY <2>2, ConcatFacts
  <2>6. total - held + 1 = Len(gone) + 1 /\ total = Len(gone) + Len(f)
    BY <2>3, <2>4
  <2>7. f = SubSeq(all, total - held + 1, total)
    BY <2>2, <2>5, <2>6
  <2> QED
    BY <2>2, <2>3, <2>7 DEF DeliversInOrder, f, total, held, all
<1> QED
  BY <1>1, HoldsAlways, PTL

(* getNextLine() answers 0, which ends a print, only when no bucket holds  *)
(* a line any more.                                                        *)
THEOREM DrainedAtZero == Spec => []ZeroMeansDrained
<1>1. ASSUME Holds
      PROVE  ZeroMeansDrained
  <2>0. buf \in Buffer /\ Filled(buf)
    BY <1>1 DEF Holds, Kept
  <2> DEFINE first == Head(buf.buckets)
             rest  == Tail(buf.buckets)
  <2>1. CASE buf.buckets = <<>>
    BY <2>1, FlattenEmpty DEF ZeroMeansDrained, NextLineCount, StoredLines
  <2>2. CASE buf.buckets # <<>>
    <3>1. /\ first \in Seq(Line) /\ rest \in Seq(Seq(Line))
          /\ SX!FlattenSeq(rest) \in Seq(Line)
          /\ StoredLines = first \o SX!FlattenSeq(rest)
      BY <2>0, <2>2, StoredFirst DEF Stored, StoredLines
    <3>2. NextLineCount(buf, 1) = Smaller(1, Len(first))
      BY <2>2 DEF NextLineCount
    <3>3. first = <<>> => rest = <<>>
      <4> SUFFICES ASSUME first = <<>> PROVE rest = <<>>
        OBVIOUS
      <4> DEFINE s == buf.buckets
      <4>1. s \in Seq(Seq(Line)) /\ s # <<>> /\ Len(s) \in Nat /\ s[1] = <<>>
        <5>1. s \in Seq(Seq(Line))
          BY <2>0, StoredType
        <5> HIDE DEF s
        <5>2. Head(s) = s[1] /\ Len(s) \in Nat
          BY <5>1
        <5> QED BY <2>2, <5>1, <5>2 DEF s
      <4>2. \A i \in 1..(Len(s) - 1) : s[i] # <<>>
        BY <2>0 DEF Filled
      <4> HIDE DEF s
      <4>3. ~(1 \in 1..(Len(s) - 1))
        BY <4>1, <4>2
      <4>4. Len(s) = 1
        <5> DEFINE n == Len(s)
        <5>1. n \in Nat /\ n # 0
          BY <4>1, EmptySeq
        <5>2. ~(1 \in 1..(n - 1))
          BY <4>3
        <5> HIDE DEF n
        <5>3. n = 1
          BY ONLY <5>1, <5>2
        <5> QED BY <5>3 DEF n
      <4>5. Tail(s) = <<>>
        <5>1. Tail(s) \in Seq(Seq(Line)) /\ Len(Tail(s)) = Len(s) - 1
          BY ONLY <4>1, HeadTailProperties
        <5>2. Len(Tail(s)) = 0
          BY ONLY <4>4, <5>1
        <5> QED BY ONLY <5>1, <5>2, EmptySeq
      <4> QED BY <4>5 DEF s
    <3> HIDE DEF first, rest
    <3>4. StoredLines = <<>> <=> first = <<>>
      <4>1. CASE first = <<>>
        <5>1. SX!FlattenSeq(rest) = <<>>
          BY <3>3, <4>1, FlattenEmpty
        <5>2. first \o SX!FlattenSeq(rest) = <<>>
          BY <3>1, <4>1, <5>1, ConcatFacts
        <5> QED BY <3>1, <4>1, <5>2
      <4>2. CASE first # <<>>
        <5>1. first \o SX!FlattenSeq(rest) # <<>>
          BY <3>1, <4>2, ConcatFacts
        <5> QED BY <3>1, <4>2, <5>1
      <4> QED BY <4>1, <4>2
    <3>5. Smaller(1, Len(first)) = 0 <=> first = <<>>
      BY <3>1 DEF Smaller
    <3> QED BY <3>2, <3>4, <3>5 DEF ZeroMeansDrained
  <2> QED BY <2>1, <2>2
<1> QED
  BY <1>1, HoldsAlways, PTL

(* bufferSize_ covers what is stored, and the limit is overrun by no more  *)
(* than the newline that the cleanup adds after the size check.            *)
THEOREM SizeLimited == Spec => []SizeWithinLimit
<1>1. Holds => SizeWithinLimit
  BY DEF Holds, Kept, Covered, Stored, StoredLines, SizeWithinLimit
<1> QED
  BY <1>1, HoldsAlways, PTL
=============================================================================
