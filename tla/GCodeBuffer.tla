---------------------------- MODULE GCodeBuffer ----------------------------
(***************************************************************************)
(* The gcode buffer of a printer driver (src/src/drivers/GCodeBuffer.cpp). *)
(*                                                                         *)
(* Clients append gcode in transactions of arbitrary size; the driver      *)
(* takes lines from the front and erases them once the printer has them.   *)
(* The text is kept in a deque of buckets, because erasing from the front  *)
(* of one huge string would be too slow.  Appending cleans the text up     *)
(* (comments, empty lines) and keeps three running totals beside it: bytes *)
(* stored, lines stored, lines ever accepted.                              *)
(*                                                                         *)
(* The text itself is abstract: a line is a value whose size in bytes      *)
(* (newline included) is SizeOf[line].  The text of one append() is the    *)
(* sequence of pieces its split loop hands to appendChunk(); every piece   *)
(* says how many bytes it has before the cleanup, which lines the cleanup  *)
(* keeps, and whether it is one bare comment without a newline, the case   *)
(* cleanupGCode() leaves by its early return.                              *)
(*                                                                         *)
(* Definitions named Mut... are deliberate mistakes; no specification uses *)
(* them.  Each shows a bug that one of the properties would catch.         *)
(***************************************************************************)
EXTENDS Sums

CONSTANTS
  Line,           \* the lines of gcode that clients send
  SizeOf,         \* bytes of a line in the buffer, its newline included
  Source,         \* the names a client may give as source of its gcode
  NULL,           \* the null pointer: no metadata, or no source in it
  MaxBufferSize,  \* MAX_BUFFER_SIZE, in bytes
  MaxBucketSize,  \* MAX_BUCKET_SIZE, in bytes
  Gcodes,         \* the texts passed to append(), as sequences of pieces
  MetaDatas,      \* the metadata arguments passed to append(), NULL included
  TotalsGiven,    \* the totalLines arguments; -1 means "not given"
  LineNumbers,    \* the arguments of setCurrentLine()
  Amounts,        \* the arguments of eraseLine()
  MaxLines,       \* bound of the model: lines accepted between two clears
  MaxChunks       \* bound of the model: chunks accepted between two clears

(* GCodeBuffer.h, struct MetaData: -1 and NULL mean that a field is unset. *)
MetaData ==
  [seqNumber : Int, seqTotal : Int, source : Source \cup {NULL}]

NoMetaData == [seqNumber |-> -1, seqTotal |-> -1, source |-> NULL]

(* One piece of the split loop in append(); see the header comment. *)
Piece == [raw : Nat, lines : Seq(Line), bare : BOOLEAN]

ASSUME SizeAssumption == SizeOf \in [Line -> Nat \ {0}]
ASSUME LimitAssumption == MaxBufferSize \in Nat \ {0} /\ MaxBucketSize \in Nat \ {0}
ASSUME InputAssumption ==
  /\ Gcodes \in SUBSET Seq(Piece)
  /\ MetaDatas \subseteq MetaData \cup {NULL}
  /\ TotalsGiven \subseteq Int
  /\ LineNumbers \subseteq Int
  /\ Amounts \subseteq Nat \ {0}
  /\ MaxLines \in Nat /\ MaxChunks \in Nat \ {0}
(* The cleanup only shortens a piece; only the last piece of a text can    *)
(* lack its newline, which the cleanup then adds.                          *)
ASSUME PieceAssumption ==
  \A gcode \in Gcodes : \A i \in 1..Len(gcode) :
    LET p == gcode[i]
    IN  /\ p.bare => p.lines = <<>> /\ p.raw > 0
        /\ SumSeq([j \in 1..Len(p.lines) |-> SizeOf[p.lines[j]]])
             <= p.raw + (IF i = Len(gcode) THEN 1 ELSE 0)
ASSUME NullAssumption == NULL \notin MetaData /\ NULL \notin Source

VARIABLES
  buf,      \* the GCodeBuffer object, one field per member
  crashed   \* the process has died of a null pointer dereference

vars == <<buf, crashed>>

-----------------------------------------------------------------------------
(* std::string::length() of a text that consists of these lines *)
Bytes(lines) == SumSeq([i \in 1..Len(lines) |-> SizeOf[lines[i]]])

(* gcode.length(): bytes of the text before the cleanup *)
RawBytes(gcode) == SumSeq([i \in 1..Len(gcode) |-> gcode[i].raw])

(* lines of the text after the cleanup *)
LineCount(gcode) == SumSeq([i \in 1..Len(gcode) |-> Len(gcode[i].lines)])

Smaller(a, b) == IF a <= b THEN a ELSE b

-----------------------------------------------------------------------------
(* The object after construction and after clear().  Two fields are        *)
(* histories that the code does not keep: `accepted', the lines taken in   *)
(* since the last clear, and `chunks', the metadata (or NULL) that came    *)
(* with each chunk of them.                                                *)
Cleared ==
  [ buckets            |-> <<>>,
    currentLine        |-> 0,
    bufferedLines      |-> 0,
    totalLinesSent     |-> 0,
    explicitTotalLines |-> -1,
    bufferSize         |-> 0,
    md                 |-> NoMetaData,
    accepted           |-> <<>>,
    chunks             |-> <<>> ]

(* The sanity checks of append(): metadata that was given once has to be   *)
(* given, consistently, with every later chunk until the next clear.       *)
MutNumberFollows(b, m) ==
  IF b.md.seqNumber > -1
  THEN m # NULL /\ m.seqNumber \in b.md.seqNumber..(b.md.seqNumber + 1)
  ELSE (m # NULL /\ m.seqNumber >= 0) => (m.seqNumber = 0 /\ b.bufferSize <= 0)

NumberFollows(b, m) ==
  IF b.md.seqNumber > -1
  THEN m # NULL /\ m.seqNumber = b.md.seqNumber + 1
  ELSE (m # NULL /\ m.seqNumber >= 0) => (m.seqNumber = 0 /\ b.bufferSize <= 0)

TotalAgrees(b, m) ==
  b.md.seqTotal > -1 =>
    m # NULL /\ m.seqTotal = b.md.seqTotal /\ m.seqNumber + 1 <= m.seqTotal

SourceAgrees(b, m) ==
  b.md.source # NULL => m # NULL /\ m.source = b.md.source

Consistent(b, m) == NumberFollows(b, m) /\ TotalAgrees(b, m) /\ SourceAgrees(b, m)

(* The size check looks at the text as it came in, before the cleanup. *)
MutHasRoom(b, gcode) == b.bufferSize <= MaxBufferSize

HasRoom(b, gcode) == b.bufferSize + RawBytes(gcode) <= MaxBufferSize

(* The bucket appendChunk() appends to is the last one; a new one is begun *)
(* when there is none or the last one has reached its maximum size.        *)
OpenBuckets(b) ==
  IF b.buckets # <<>> /\ Bytes(b.buckets[Len(b.buckets)]) < MaxBucketSize
  THEN b.buckets
  ELSE Append(b.buckets, <<>>)

(* What cleanupGCode() subtracts from bufferSize_.  It returns before the  *)
(* subtraction when a comment was all the bucket held.                     *)
CleanedBytes(bucket, p) ==
  IF p.bare /\ bucket = <<>> THEN 0 ELSE p.raw - Bytes(p.lines)

MutAppendChunk(b, p) ==
  LET total == b.totalLinesSent + Len(p.lines)
  IN  [b EXCEPT
        !.buckets        = IF p.lines = <<>> THEN @ ELSE <<p.lines>> \o @,
        !.bufferSize     = @ + Bytes(p.lines),
        !.bufferedLines  = @ + Len(p.lines),
        !.totalLinesSent = total,
        !.currentLine    = Smaller(@, total),
        !.accepted       = @ \o p.lines]

(* appendChunk(), with cleanupGCode() and updateStats() *)
AppendChunk(b, p) ==
  LET open  == OpenBuckets(b)
      n     == Len(open)
      total == b.totalLinesSent + Len(p.lines)
  IN  [b EXCEPT
        !.buckets        = [open EXCEPT ![n] = @ \o p.lines],
        !.bufferSize     = @ - CleanedBytes(open[n], p) + p.raw,
        !.bufferedLines  = @ + Len(p.lines),
        !.totalLinesSent = total,
        !.currentLine    = Smaller(@, total),
        !.accepted       = @ \o p.lines]

(* The split loop of append() *)
AppendChunks(b, gcode) ==
  LET after[i \in 0..Len(gcode)] ==
        IF i = 0 THEN b ELSE AppendChunk(after[i - 1], gcode[i])
  IN  after[Len(gcode)]

MutNoted(b, total, m) ==
  [b EXCEPT
    !.explicitTotalLines = IF total >= 0 THEN total ELSE @,
    !.md = m,
    !.chunks = Append(@, m)]

(* The housekeeping of append(): totals and metadata of an accepted chunk *)
Noted(b, total, m) ==
  [b EXCEPT
    !.explicitTotalLines = IF total >= 0 THEN total ELSE @,
    !.md = IF m = NULL THEN @
           ELSE [m EXCEPT !.source = IF b.md.source = NULL THEN @ ELSE b.md.source],
    !.chunks = Append(@, m)]

(* append(): the object after the call; unchanged if the chunk is refused *)
Appended(b, gcode, total, m) ==
  IF Consistent(b, m) /\ HasRoom(b, gcode)
  THEN AppendChunks(Noted(b, total, m), gcode)
  ELSE b

(* The log statement of a refused append() reads through metaData, also   *)
(* when the caller gave none.                                              *)
RefusalDereferencesNull(b, m) == ~Consistent(b, m) /\ m = NULL

-----------------------------------------------------------------------------
(* getNextLine() and eraseLine() work on the first bucket only. *)

NextLineCount(b, amount) ==
  IF b.buckets = <<>> THEN 0 ELSE Smaller(amount, Len(Head(b.buckets)))

(* The count eraseLine() returns and takes off bufferedLines_.  Its loop   *)
(* counts from 1 even if the bucket holds no line, and then reads the byte *)
(* before an empty string, which may or may not be a newline.              *)
EraseCounts(bucket, amount) ==
  IF bucket # <<>> THEN {Smaller(amount, Len(bucket))}
  ELSE IF amount = 1 THEN {1} ELSE {1, 2}

MutErased(b, amount, count) ==
  LET first == Head(b.buckets)
      rest  == SubSeq(first, Smaller(amount, Len(first)) + 1, Len(first))
  IN  [b EXCEPT
        !.buckets       = <<rest>> \o Tail(@),
        !.bufferSize    = @ - (Bytes(first) - Bytes(rest)),
        !.bufferedLines = @ - count]

(* eraseLine(): the lines go, and with the last of them the bucket *)
Erased(b, amount, count) ==
  LET first == Head(b.buckets)
      rest  == SubSeq(first, Smaller(amount, Len(first)) + 1, Len(first))
  IN  [b EXCEPT
        !.buckets       = IF rest = <<>> THEN Tail(@) ELSE <<rest>> \o Tail(@),
        !.bufferSize    = @ - (Bytes(first) - Bytes(rest)),
        !.bufferedLines = @ - count]

-----------------------------------------------------------------------------
Init == buf = Cleared /\ crashed = FALSE

(* set(): clear(), then append() *)
SetGCode(gcode, total, m) ==
  /\ ~crashed
  /\ LineCount(gcode) <= MaxLines
  /\ buf' = Appended(Cleared, gcode, total, m)
  /\ crashed' = RefusalDereferencesNull(Cleared, m)

AppendGCode(gcode, total, m) ==
  /\ ~crashed
  /\ buf.totalLinesSent + LineCount(gcode) <= MaxLines
  /\ Len(buf.chunks) < MaxChunks
  /\ buf' = Appended(buf, gcode, total, m)
  /\ crashed' = RefusalDereferencesNull(buf, m)

Clear ==
  /\ ~crashed
  /\ buf' = Cleared
  /\ UNCHANGED crashed

SetCurrentLine(line) ==
  /\ ~crashed
  /\ buf' = [buf EXCEPT !.currentLine = Smaller(line, buf.totalLinesSent)]
  /\ UNCHANGED crashed

(* On an empty deque eraseLine() returns 0 and changes nothing. *)
EraseLine(amount) ==
  /\ ~crashed
  /\ IF buf.buckets = <<>>
     THEN UNCHANGED buf
     ELSE \E count \in EraseCounts(Head(buf.buckets), amount) :
            buf' = Erased(buf, amount, count)
  /\ UNCHANGED crashed

(* The drivers erase lines only after getNextLine() has returned some.     *)
EraseFetchedLine(amount) == NextLineCount(buf, amount) > 0 /\ EraseLine(amount)

Producer ==
  \/ \E gcode \in Gcodes, total \in TotalsGiven, m \in MetaDatas :
       SetGCode(gcode, total, m)
  \/ \E gcode \in Gcodes, total \in TotalsGiven, m \in MetaDatas :
       AppendGCode(gcode, total, m)
  \/ Clear

(* Next: the calls the drivers make.  AnyCall: whatever the class allows.  *)
Next ==
  \/ Producer
  \/ \E line \in LineNumbers : SetCurrentLine(line)
  \/ \E amount \in Amounts : EraseFetchedLine(amount)

AnyCall ==
  \/ Producer
  \/ \E line \in LineNumbers : SetCurrentLine(line)
  \/ \E amount \in Amounts : EraseLine(amount)

Spec == Init /\ [][Next]_vars
AnyCallSpec == Init /\ [][AnyCall]_vars
-----------------------------------------------------------------------------
(* Properties *)

Buffer ==
  [ buckets            : Seq(Seq(Line)),
    currentLine        : Int,
    bufferedLines      : Int,
    totalLinesSent     : Nat,
    explicitTotalLines : Int,
    bufferSize         : Int,
    md                 : MetaData,
    accepted           : Seq(Line),
    chunks             : Seq(MetaData \cup {NULL}) ]

(* The members of the object have the types of GCodeBuffer.h. *)
TypeOK == buf \in Buffer /\ crashed \in BOOLEAN

(* The lines in all buckets, front to back *)
StoredLines == SX!FlattenSeq(buf.buckets)

(* Whatever the bucket boundaries, the refused chunks and the cleanup do,  *)
(* the buffer holds exactly the last bufferedLines_ of the totalLinesSent_ *)
(* lines accepted since the last clear, in their order: appendChunk(),     *)
(* eraseLine() and the two line counters agree.                            *)
DeliversInOrder ==
  /\ Len(buf.accepted) = buf.totalLinesSent
  /\ StoredLines = SubSeq(buf.accepted,
                          buf.totalLinesSent - buf.bufferedLines + 1,
                          buf.totalLinesSent)

(* getNextLine() looks at the first bucket only; its answer 0, which ends  *)
(* the print, is given only when no bucket holds a line any more.          *)
ZeroMeansDrained == NextLineCount(buf, 1) = 0 <=> StoredLines = <<>>

(* bufferSize_ never claims less than is stored, and the text accepted at  *)
(* the limit overruns it by no more than the newline that cleanupGCode()   *)
(* adds after the size check of append().                                  *)
SizeWithinLimit ==
  /\ Bytes(StoredLines) <= buf.bufferSize
  /\ buf.bufferSize <= MaxBufferSize + 1

(* Among the chunks accepted since the last clear, from the first that is  *)
(* numbered on every chunk has the next number, so that none is repeated,  *)
(* skipped or overtaken; from the first with a total, or with a source, on *)
(* every chunk has that total and that source, so that none of another     *)
(* transaction is mixed in; and the first number is 0.  append() only      *)
(* compares a chunk with what it has kept of those before.                 *)
HasNumber(c, n) == c # NULL /\ c.seqNumber = n

InSequence(c, d, distance) ==
  c # NULL =>
    /\ c.seqNumber > -1 => HasNumber(d, c.seqNumber + distance)
    /\ c.seqTotal > -1 => d # NULL /\ d.seqTotal = c.seqTotal /\ d.seqNumber < d.seqTotal
    /\ c.source # NULL => d # NULL /\ d.source = c.source

ChunksInSequence ==
  \A j \in 1..Len(buf.chunks) :
    /\ \A i \in 1..(j - 1) : InSequence(buf.chunks[i], buf.chunks[j], j - i)
    /\ buf.chunks[j] # NULL /\ buf.chunks[j].seqNumber > 0 =>
         j > 1 /\ HasNumber(buf.chunks[j - 1], buf.chunks[j].seqNumber - 1)

(* t_GCodeBuffer.cpp, testBufferSize: getBufferSize() is the length of the *)
(* text without its comments, that is, of the stored lines.                *)
SizeIsStoredText == buf.bufferSize = Bytes(StoredLines)
=============================================================================
