------------------------ MODULE MakerbotDriverProofs ------------------------
(***************************************************************************)
(* Theorems about MakerbotDriver, for all sizes, retries and bounds, with  *)
(* any damage and any stray bytes: types; that the printer's action buffer *)
(* never overflows as long as the driver knows the room in it; that the    *)
(* commands are sent in order, and once as long as the driver is in step   *)
(* with the replies; and that the driver is idle after a print only when   *)
(* all is sent and, if it knows the room, the printer has finished.        *)
(***************************************************************************)
EXTENDS MakerbotDriver, SumsProofs

(* Commands that some line really converts to *)
RealCommand == {c \in Command : c.part \in 1..Len(PacketsOf[c.line])}

Real ==
  /\ queue \in Seq(RealCommand) /\ held \in Seq(RealCommand)
  /\ packet.kind = "command" => packet.command \in RealCommand
  /\ last # NoCommand => last \in RealCommand

Typed == TypeOK /\ Real

(* bufferSpace_ without its wrap-around: what damaged replies have made of *)
(* it is a little below 0 at most.                                         *)
Counted(word) == IF word > BufferSize THEN word - Word ELSE word

Asking == IF packet.kind = "space" THEN 1 ELSE 0

Owed == IF packet.kind = "command" THEN Size(packet.command) ELSE 0

(* A driver that is in step with the replies has read all that came.  Only *)
(* a command is on its way while processQueue() sends, and nowhere else.   *)
Framed ==
  /\ "frame" \notin suffered => rx = <<>>
  /\ packet.kind = "command" <=> packet # NoPacket /\ at = "send"

(* The driver's count of the room against the real one, while it knows it. *)
Account ==
  /\ ~discarded
  /\ Counted(bufferSpace) + Owed <= Room
  /\ Counted(bufferSpace) >= -(garbled + Asking)
  /\ at = "send" => bufferSpace \in Margin..BufferSize

Books == Framed /\ (RoomKnown => Account)

(* The lines not yet converted are the ones appended last.  The commands   *)
(* sent, being sent and in the queue follow each other up to them.         *)
Sent == IF packet.kind = "command" THEN packet.command ELSE last

Before(c, q, i) == IF i = 1 THEN c ELSE q[i - 1]

Chain(c, q) == \A i \in 1..Len(q) : Follows(Before(c, q, i), q[i])

LastOf(c, q) == IF q = <<>> THEN c ELSE q[Len(q)]

Ended(c, n) ==
  /\ c.line <= n
  /\ c = NoCommand \/ c.part = Len(PacketsOf[c.line]) \/ c.line <= givenUp
  /\ \A m \in (c.line + 1)..n : PacketsOf[m] = <<>> \/ m <= givenUp

MaySend(c) ==
  \/ Follows(last, c)
  \/ c = last /\ "frame" \in suffered

Ordered ==
  /\ packet.kind = "command" => MaySend(packet.command)
  /\ Chain(Sent, queue)
  /\ Ended(LastOf(Sent, queue), appended - Len(gcode))
  /\ Len(gcode) <= appended
  /\ \A i \in 1..Len(gcode) : gcode[i] = appended - Len(gcode) + i
  /\ last.line <= appended /\ Sent.line <= appended
  /\ \A i \in 1..Len(queue) : queue[i].line <= appended

(* A queue that processQueue() finds empty was not to be filled. *)
Drained == at \in {"processQueue", "decide"} => queue # <<>> \/ gcode = <<>>

Accounted == Typed /\ Books
Inductive == Accounted /\ Ordered /\ Drained

-----------------------------------------------------------------------------
(* Sizes, rooms and conversions *)

Largest == RefillAbove + 1 - Margin

LEMMA Constants ==
  /\ BufferSize \in Nat /\ Margin \in Nat /\ Retries \in Nat /\ Retries >= 1
  /\ RefillAbove \in Nat /\ RefillAbove >= Margin /\ RefillAbove < BufferSize
  /\ MaxGarbled \in Nat /\ MaxLines \in Nat /\ MaxChunk \in Nat /\ MaxStray \in Nat
  /\ Word \in Nat /\ Word > 2 * (BufferSize + MaxGarbled)
  /\ ToolQueries \in Nat /\ ToolQueries >= 1
BY SizeAssumption, BoundAssumption, WordAssumption

(* Subtraction in unsigned arithmetic *)
LEMMA Subtracted ==
  ASSUME NEW a \in 0..(Word - 1), NEW s \in 0..Word
  PROVE  /\ (a + Word - s) % Word \in 0..(Word - 1)
         /\ (a + Word - s) % Word = IF a >= s THEN a - s ELSE a + Word - s
<1>1. Word \in Nat /\ Word >= 1
  BY Constants
<1>2. CASE a >= s
  BY <1>1, <1>2
<1>3. CASE a < s
  BY <1>1, <1>3
<1> QED
  BY <1>1, <1>2, <1>3

LEMMA SizeType ==
  ASSUME NEW c \in RealCommand
  PROVE  Size(c) \in Nat /\ Size(c) >= 1 /\ Size(c) <= Largest /\ Size(c) < Word
<1>1. c.line \in 1..MaxLines /\ c.part \in 1..Len(PacketsOf[c.line])
  BY DEF RealCommand, Command
<1> DEFINE s == PacketsOf[c.line]
<1>2. s \in Seq(1..Largest)
  BY <1>1, PacketAssumption DEF Largest
<1> HIDE DEF s
<1>3. c.part \in 1..Len(s) /\ Size(c) = s[c.part]
  BY <1>1 DEF s, Size
<1>4. s[c.part] \in 1..Largest
  BY <1>2, <1>3, ElementOfSeq
<1> QED
  BY <1>3, <1>4, Constants DEF Largest

LEMMA CommandsOfFacts ==
  ASSUME NEW n \in 1..MaxLines
  PROVE  /\ PacketsOf[n] \in Seq(1..Largest) /\ Len(PacketsOf[n]) \in Nat
         /\ CommandsOf(n) \in Seq(RealCommand)
         /\ Len(CommandsOf(n)) = Len(PacketsOf[n])
         /\ \A p \in 1..Len(PacketsOf[n]) : CommandsOf(n)[p] = [line |-> n, part |-> p]
<1> DEFINE k == Len(PacketsOf[n])
<1>1. PacketsOf[n] \in Seq(1..Largest)
  BY PacketAssumption DEF Largest
<1>2. k \in Nat
  <2> DEFINE s == PacketsOf[n]
  <2> HIDE DEF s
  <2>1. s \in Seq(1..Largest)
    BY <1>1 DEF s
  <2>2. Len(s) \in Nat
    BY <2>1
  <2> QED BY <2>2 DEF s
<1>3. \A p \in 1..k : [line |-> n, part |-> p] \in RealCommand
  BY <1>2 DEF RealCommand, Command
<1>4. CommandsOf(n) = [p \in 1..k |-> [line |-> n, part |-> p]]
  BY DEF CommandsOf
<1> HIDE DEF k
<1>5. CommandsOf(n) \in Seq(RealCommand) /\ Len(CommandsOf(n)) = k
  BY <1>2, <1>3, <1>4
<1> QED
  BY <1>1, <1>2, <1>4, <1>5 DEF k

LEMMA ConvertedType ==
  ASSUME NEW lines \in Seq(1..MaxLines)
  PROVE  Converted(lines) \in Seq(RealCommand)
<1> DEFINE seqs == [i \in 1..Len(lines) |-> CommandsOf(lines[i])]
<1>1. \A i \in 1..Len(lines) : lines[i] \in 1..MaxLines
  BY ElementOfSeq
<1>2. \A i \in 1..Len(lines) : CommandsOf(lines[i]) \in Seq(RealCommand)
  BY <1>1, CommandsOfFacts
<1>3. seqs \in Seq(Seq(RealCommand))
  BY <1>2
<1> QED
  <2> HIDE DEF seqs
  <2>1. SX!FlattenSeq(seqs) \in Seq(RealCommand)
    BY <1>3, FlattenType
  <2> QED BY <2>1 DEF seqs, Converted

(* What the printer's action buffer holds *)
Sizes(h) == [i \in 1..Len(h) |-> Size(h[i])]
Load(h) == SumSeq(Sizes(h))

LEMMA RoomIsLoad == Room = BufferSize - Load(held)
BY DEF Room, Load, Sizes

LEMMA SizesType ==
  ASSUME NEW h \in Seq(RealCommand)
  PROVE  Sizes(h) \in Seq(Nat) /\ Len(Sizes(h)) = Len(h)
<1>1. \A i \in 1..Len(h) : Size(h[i]) \in Nat
  BY SizeType
<1> QED
  BY <1>1 DEF Sizes

LEMMA LoadType ==
  ASSUME NEW h \in Seq(RealCommand)
  PROVE  Load(h) \in Nat
BY SizesType, SumSeqNat DEF Load

LEMMA LoadEmpty == Load(<<>>) = 0
<1>1. Sizes(<<>>) = <<>>
  BY DEF Sizes
<1> QED
  BY <1>1, SumSeqEmpty DEF Load

LEMMA LoadAppend ==
  ASSUME NEW h \in Seq(RealCommand), NEW c \in RealCommand
  PROVE  Load(Append(h, c)) = Load(h) + Size(c)
<1> DEFINE z == Size(c)
<1>1. z \in Nat
  BY SizeType
<1>2. Sizes(Append(h, c)) = Sizes(h) \o <<Size(c)>>
  BY DEF Sizes
<1> HIDE DEF z
<1>3. <<z>> \in Seq(Int) /\ Sizes(h) \in Seq(Int)
  BY <1>1, SizesType
<1>4. SumSeq(Sizes(h) \o <<z>>) = SumSeq(Sizes(h)) + SumSeq(<<z>>)
  BY <1>3, SumSeqConcat
<1> QED
  BY <1>1, <1>2, <1>4, SumSeqSingleton DEF Load, z

LEMMA LoadTail ==
  ASSUME NEW h \in Seq(RealCommand), h # <<>>
  PROVE  Load(h) = Size(Head(h)) + Load(Tail(h))
<1> DEFINE z == Size(Head(h))
<1>0. Head(h) \in RealCommand /\ Tail(h) \in Seq(RealCommand)
  OBVIOUS
<1>1. z \in Nat
  BY <1>0, SizeType
<1>2. Sizes(h) = <<z>> \o Sizes(Tail(h))
  BY DEF Sizes
<1> HIDE DEF z
<1> DEFINE rest == Sizes(Tail(h))
<1>3. rest \in Seq(Nat)
  BY <1>0, SizesType
<1> HIDE DEF rest
<1>4. <<z>> \in Seq(Int) /\ rest \in Seq(Int)
  BY <1>1, <1>3
<1>5. SumSeq(<<z>> \o rest) = SumSeq(<<z>>) + SumSeq(rest)
  BY <1>4, SumSeqConcat
<1> QED
  BY <1>1, <1>2, <1>5, SumSeqSingleton DEF Load, z, rest

(* A command takes some room: an empty load is an empty buffer. *)
LEMMA LoadZero ==
  ASSUME NEW h \in Seq(RealCommand), Load(h) = 0
  PROVE  h = <<>>
<1> SUFFICES ASSUME h # <<>> PROVE FALSE
  OBVIOUS
<1>1. Head(h) \in RealCommand /\ Tail(h) \in Seq(RealCommand)
  OBVIOUS
<1>2. Size(Head(h)) >= 1 /\ Size(Head(h)) \in Nat /\ Load(Tail(h)) \in Nat
  BY <1>1, SizeType, LoadType
<1> QED
  BY <1>2, LoadTail

-----------------------------------------------------------------------------
(* Types *)

Actual == [kind : Kind, command : Command \cup {NoCommand}, retriesLeft : 1..Retries]

LEMMA DropType ==
  ASSUME NEW S, NEW s \in Seq(S), NEW n \in Nat
  PROVE  SubSeq(s, n + 1, Len(s)) \in Seq(S)
OBVIOUS

LEMMA RealIsCommand ==
  /\ RealCommand \subseteq Command
  /\ \A q \in Seq(RealCommand) : q \in Seq(Command)
  /\ NoCommand \notin Command
<1>1. RealCommand \subseteq Command
  BY DEF RealCommand
<1>2. ASSUME NEW q \in Seq(RealCommand)
      PROVE  q \in Seq(Command)
  BY <1>1
<1>3. NoCommand \notin Command
  BY DEF NoCommand, Command
<1> QED
  BY <1>1, <1>2, <1>3

LEMMA QueryType ==
  ASSUME NEW kind \in {"version", "tool", "space"}
  PROVE  /\ Query(kind) \in Actual /\ Query(kind).kind = kind
         /\ PayloadSize(Query(kind)) = IF kind = "tool" THEN 3 ELSE 1
<1>1. Retries \in 1..Retries
  BY Constants
<1> QED
  BY <1>1 DEF Query, Actual, Kind, PayloadSize

LEMMA SendingType ==
  ASSUME NEW c \in RealCommand
  PROVE  /\ Sending(c) \in Actual /\ Sending(c).kind = "command"
         /\ Sending(c).command = c /\ PayloadSize(Sending(c)) = Size(c)
<1>1. Retries \in 1..Retries /\ c \in Command
  BY Constants, RealIsCommand
<1> QED
  BY <1>1 DEF Sending, Actual, Kind, PayloadSize

LEMMA NoPacketFacts == NoPacket \notin Actual /\ NoPacket.kind = "none"
BY DEF NoPacket, Actual, Kind

LEMMA ModType ==
  ASSUME NEW a \in Int
  PROVE  a % Word \in 0..(Word - 1)
<1>1. Word \in Nat /\ Word >= 1
  BY Constants
<1> QED
  BY <1>1

LEMMA BeginPacketType ==
  ASSUME NEW p, PayloadSize(p) \in Nat, NEW b \in BOOLEAN,
         rx \in Seq(Byte), bufferSpace \in 0..(Word - 1),
         BeginPacket(p, b)
  PROVE  packet' = p /\ rx' \in Seq(Byte) /\ bufferSpace' \in 0..(Word - 1)
<1> DEFINE n == PayloadSize(p)
<1>1. n \in Nat
  OBVIOUS
<1>2. /\ packet' = p /\ rx' = SubSeq(rx, n + 1, Len(rx))
      /\ bufferSpace' = IF b THEN (bufferSpace + Word - n) % Word ELSE bufferSpace
  BY DEF BeginPacket
<1> HIDE DEF n
<1>3. SubSeq(rx, n + 1, Len(rx)) \in Seq(Byte)
  BY <1>1, DropType
<1>4. bufferSpace + Word - n \in Int
  BY <1>1, Constants
<1> QED
  BY <1>2, <1>3, <1>4, ModType

LEMMA TypedInit == Init => Typed
<1> SUFFICES ASSUME Init PROVE Typed
  OBVIOUS
<1>1. PICK n \in 0..MaxStray : rx = [i \in 1..n |-> Rest]
  BY DEF Init
<1>2. Rest \in Byte
  BY Constants DEF Rest, Byte
<1>3. rx \in Seq(Byte)
  BY <1>1, <1>2, Constants
<1>4. Room = BufferSize
  BY LoadEmpty, RoomIsLoad, Constants DEF Init
<1>5. BufferSize \in 0..(Word - 1) /\ 0 \in 0..(ToolQueries + 1) /\ 0 \in 0..MaxLines
      /\ 0 \in 0..MaxGarbled /\ BufferSize \in 0..BufferSize
  BY Constants
<1>6. NoPacket.kind # "command"
  BY NoPacketFacts
<1>7. /\ state \in State /\ gcode = <<>> /\ queue = <<>> /\ held = <<>>
      /\ bufferSpace = BufferSize /\ validResponseReceived = FALSE
      /\ at = "server" /\ queries = 0 /\ packet = NoPacket /\ exited = FALSE
      /\ appended = 0 /\ givenUp = 0 /\ last = NoCommand
      /\ discarded = FALSE /\ garbled = 0 /\ suffered \subseteq {"checksum", "frame"}
  BY DEF Init, State
<1>8. TypeOK
  <2>0. validResponseReceived \in BOOLEAN /\ exited \in BOOLEAN /\ discarded \in BOOLEAN
    BY ONLY <1>7
  <2>1. gcode \in Seq(1..MaxLines) /\ queue \in Seq(Command) /\ held \in Seq(Command)
    BY ONLY <1>7
  <2>2. bufferSpace \in 0..(Word - 1) /\ Room \in 0..BufferSize
    BY ONLY <1>4, <1>5, <1>7
  <2>3. /\ queries \in 0..(ToolQueries + 1) /\ garbled \in 0..MaxGarbled
        /\ appended \in 0..MaxLines /\ givenUp \in 0..MaxLines
    BY ONLY <1>5, <1>7
  <2> QED
    BY ONLY <1>3, <1>7, <2>0, <2>1, <2>2, <2>3 DEF TypeOK, Kind
<1>9. Real
  BY ONLY <1>6, <1>7 DEF Real
<1> QED
  BY <1>8, <1>9 DEF Typed

LEMMA BytesType ==
  ASSUME NEW reply \in Byte, reply.kind # "rest"
  PROVE  /\ BytesOf(reply) \in Seq(Byte) /\ BytesOf(reply) # <<>>
         /\ Head(BytesOf(reply)) = reply
         /\ Len(BytesOf(reply)) = ReplySize(reply.kind) /\ ReplySize(reply.kind) \in Nat
<1> DEFINE k == ReplySize(reply.kind) - 1
           tail == [i \in 1..k |-> Rest]
<1>1. Rest \in Byte
  BY Constants DEF Byte, Rest
<1>2. k \in Nat /\ ReplySize(reply.kind) = k + 1
  BY DEF ReplySize
<1>3. BytesOf(reply) = <<reply>> \o tail
  BY DEF BytesOf
<1> HIDE DEF k
<1>4. tail \in Seq(Byte) /\ Len(tail) = k
  BY <1>1, <1>2
<1> HIDE DEF tail
<1>5. /\ <<reply>> \o tail \in Seq(Byte) /\ Len(<<reply>> \o tail) = Len(tail) + 1
      /\ <<reply>> \o tail # <<>> /\ (<<reply>> \o tail)[1] = reply
  BY <1>4, ConsFacts
<1> DEFINE all == <<reply>> \o tail
<1>6. Len(tail) + 1 = ReplySize(reply.kind) /\ ReplySize(reply.kind) \in Nat
  BY <1>2, <1>4
<1>7. /\ all \in Seq(Byte) /\ all # <<>> /\ all[1] = reply
      /\ Len(all) = ReplySize(reply.kind) /\ BytesOf(reply) = all
  BY ONLY <1>3, <1>5, <1>6
<1> HIDE DEF all
<1>8. Head(all) = reply
  BY ONLY <1>7
<1> QED
  BY ONLY <1>6, <1>7, <1>8

Outcome == Damage \cup {"none"}

(* The first byte of a reply whose frame is intact *)
Reply(p, damage) ==
  [kind |-> IF damage = "packet" THEN "error" ELSE p.kind,
   room |-> Room, good |-> damage # "checksum"]

LEMMA AnswerType ==
  ASSUME NEW p \in Actual, NEW damage \in Outcome, Room \in 0..BufferSize
  PROVE  /\ Answer(p, damage) \in Seq(Byte) /\ Answer(p, damage) # <<>>
         /\ damage # "frame" =>
              /\ Reply(p, damage) \in Byte /\ Reply(p, damage).kind # "rest"
              /\ Head(Answer(p, damage)) = Reply(p, damage)
              /\ Len(Answer(p, damage)) = ReplySize(Reply(p, damage).kind)
              /\ ReplySize(Reply(p, damage).kind) \in Nat
<1>1. CASE damage = "frame"
  <2> DEFINE k == ReplySize(p.kind)
             all == [i \in 1..k |-> Rest]
  <2>1. k \in Nat /\ k >= 1 /\ Rest \in Byte
    BY Constants DEF ReplySize, Rest, Byte
  <2>2. Answer(p, damage) = all
    BY <1>1 DEF Answer
  <2> HIDE DEF k
  <2>3. all \in Seq(Byte) /\ Len(all) = k
    BY <2>1
  <2> QED BY <1>1, <2>1, <2>2, <2>3
<1>2. CASE damage # "frame"
  <2> DEFINE reply == Reply(p, damage)
  <2>1. reply \in Byte /\ reply.kind # "rest"
    BY DEF Reply, Actual, Kind, Byte
  <2>2. Answer(p, damage) = BytesOf(reply)
    BY <1>2 DEF Answer, Reply
  <2> HIDE DEF reply
  <2>3. /\ BytesOf(reply) \in Seq(Byte) /\ BytesOf(reply) # <<>>
        /\ Head(BytesOf(reply)) = reply
        /\ Len(BytesOf(reply)) = ReplySize(reply.kind) /\ ReplySize(reply.kind) \in Nat
    BY <2>1, BytesType
  <2> QED BY <2>1, <2>2, <2>3 DEF reply
<1> QED
  BY <1>1, <1>2

LEMMA TakenType ==
  ASSUME Typed, packet \in Actual, NEW damage \in Outcome, Taken(packet, damage)
  PROVE  /\ held' \in Seq(RealCommand) /\ Room' \in 0..BufferSize
         /\ last' # NoCommand => last' \in RealCommand
         /\ discarded' \in BOOLEAN
<1>0. /\ held \in Seq(RealCommand) /\ Room \in 0..BufferSize /\ discarded \in BOOLEAN
      /\ last # NoCommand => last \in RealCommand
      /\ packet.kind = "command" => packet.command \in RealCommand
  BY DEF Typed, TypeOK, Real
<1>1. last' # NoCommand => last' \in RealCommand
  BY <1>0 DEF Taken
<1>2. CASE packet.kind = "command" /\ damage # "packet" /\ Size(packet.command) <= Room
  <2> DEFINE c == packet.command
  <2>1. c \in RealCommand
    BY <1>0, <1>2
  <2>2. held' = Append(held, c) /\ discarded' = discarded
    BY <1>2 DEF Taken
  <2>3. Size(c) <= Room
    BY <1>2
  <2> HIDE DEF c
  <2>4. held' \in Seq(RealCommand)
    BY <1>0, <2>1, <2>2
  <2>5. Load(held') = Load(held) + Size(c)
    BY <1>0, <2>1, <2>2, LoadAppend
  <2>6. Room' = BufferSize - Load(held')
    BY DEF Room, Load, Sizes, Size
  <2>7. Load(held') \in Nat /\ Load(held) \in Nat /\ Size(c) \in Nat
    BY <1>0, <2>1, <2>4, LoadType, SizeType
  <2>8. Room' \in 0..BufferSize
    BY <1>0, <2>3, <2>5, <2>6, <2>7, RoomIsLoad, Constants
  <2> QED BY <1>0, <1>1, <2>2, <2>4, <2>8
<1>3. CASE ~(packet.kind = "command" /\ damage # "packet" /\ Size(packet.command) <= Room)
  <2>1. held' = held /\ (discarded' = TRUE \/ discarded' = discarded)
    BY <1>3 DEF Taken
  <2>2. Room' = Room
    BY <2>1 DEF Room, Size
  <2> QED BY <1>0, <1>1, <2>1, <2>2
<1> QED
  BY <1>2, <1>3

LEMMA ParseType ==
  ASSUME NEW p, NEW received \in Seq(Byte), received # <<>>, NEW rv,
         state \in State, bufferSpace \in 0..(Word - 1),
         ParseResponse(p, received, rv)
  PROVE  /\ state' \in State /\ bufferSpace' \in 0..(Word - 1)
         /\ rx' \in Seq(Byte)
<1> DEFINE first == Head(received)
<1>1. first \in Byte /\ ReplySize(first.kind) \in Nat
  BY DEF ReplySize
<1>2. \E n \in Nat : rx' = SubSeq(received, n + 1, Len(received))
  <2>1. \A n \in 4..Len(received) : n \in Nat
    OBVIOUS
  <2> QED BY <1>1, <2>1 DEF ParseResponse
<1>3. Interpreted(p, first) \/ UNCHANGED <<state, bufferSpace>>
  BY DEF ParseResponse
<1> HIDE DEF first
<1>4. rx' \in Seq(Byte)
  BY <1>2, DropType
<1>5. ASSUME Interpreted(p, first)
      PROVE  state' \in State /\ bufferSpace' \in 0..(Word - 1)
  <2>1. first.room \in 0..(Word - 1)
    BY <1>1, Constants DEF Byte
  <2> QED BY <1>5, <2>1 DEF Interpreted, State
<1> QED
  BY <1>3, <1>4, <1>5

LEMMA SecondTryType ==
  ASSUME NEW p \in Actual, NEW rv
  PROVE  /\ SecondTry(p, rv) \in Actual \cup {NoPacket}
         /\ SecondTry(p, rv) # NoPacket =>
              /\ SecondTry(p, rv).kind = p.kind
              /\ SecondTry(p, rv).command = p.command
              /\ rv \notin {0, -3}
<1>1. CASE SecondTry(p, rv) = NoPacket
  BY <1>1
<1>2. CASE /\ rv \notin {0, -3} /\ p.retriesLeft > 1
           /\ SecondTry(p, rv) = [p EXCEPT !.retriesLeft = @ - 1]
  <2>1. /\ p.retriesLeft \in 1..Retries /\ p.kind \in Kind
        /\ p.command \in Command \cup {NoCommand}
        /\ p = [kind |-> p.kind, command |-> p.command, retriesLeft |-> p.retriesLeft]
    BY DEF Actual
  <2>2. p.retriesLeft - 1 \in 1..Retries
    BY <1>2, <2>1, Constants
  <2>3. SecondTry(p, rv) =
          [kind |-> p.kind, command |-> p.command, retriesLeft |-> p.retriesLeft - 1]
    BY <1>2, <2>1
  <2> QED BY <1>2, <2>1, <2>2, <2>3 DEF Actual
<1> QED
  BY <1>1, <1>2 DEF SecondTry

(* The type invariant in parts: where update() is, what a packet carries,  *)
(* the lines and commands that wait, and the printer.                      *)
TypedUpdate ==
  /\ state \in State
  /\ validResponseReceived \in BOOLEAN
  /\ at \in {"server", "fill", "processQueue", "decide", "send", "poll", "query"}
  /\ queries \in 0..(ToolQueries + 1)
  /\ exited \in BOOLEAN

TypedPacket ==
  /\ bufferSpace \in 0..(Word - 1)
  /\ packet \in Actual \cup {NoPacket}
  /\ packet.kind = "command" => packet.command \in RealCommand
  /\ rx \in Seq(Byte)

TypedLines ==
  /\ gcode \in Seq(1..MaxLines)
  /\ queue \in Seq(RealCommand)
  /\ appended \in 0..MaxLines /\ givenUp \in 0..MaxLines

TypedPrinter ==
  /\ held \in Seq(RealCommand) /\ Room \in 0..BufferSize
  /\ last # NoCommand => last \in RealCommand
  /\ discarded \in BOOLEAN
  /\ suffered \subseteq {"checksum", "frame"} \cup Kind /\ garbled \in 0..MaxGarbled

LEMMA TypedParts == Typed <=> TypedUpdate /\ TypedPacket /\ TypedLines /\ TypedPrinter
<1>1. ASSUME Typed
      PROVE  TypedUpdate /\ TypedPacket /\ TypedLines /\ TypedPrinter
  BY <1>1 DEF Typed, TypeOK, Real, Actual, TypedUpdate, TypedPacket, TypedLines, TypedPrinter
<1>2. ASSUME TypedUpdate, TypedPacket, TypedLines, TypedPrinter
      PROVE  Typed
  <2>1. queue \in Seq(Command) /\ held \in Seq(Command) /\ last \in Command \cup {NoCommand}
    BY <1>2, RealIsCommand DEF TypedLines, TypedPrinter
  <2> QED
    BY <1>2, <2>1
    DEF Typed, TypeOK, Real, Actual, TypedUpdate, TypedPacket, TypedLines, TypedPrinter
<1> QED
  BY <1>1, <1>2

LEMMA PrinterKept ==
  ASSUME TypedPrinter, UNCHANGED printerVars
  PROVE  TypedPrinter' /\ Room' = Room
<1>1. Room' = Room
  BY DEF printerVars, Room, Size
<1> QED
  BY <1>1 DEF TypedPrinter, printerVars

LEMMA TypedStep ==
  ASSUME Typed, [Next]_vars
  PROVE  Typed'
<1>0. TypedUpdate /\ TypedPacket /\ TypedLines /\ TypedPrinter
  BY TypedParts
<1> SUFFICES TypedUpdate' /\ TypedPacket' /\ TypedLines' /\ TypedPrinter'
  BY TypedParts, PTL
<1> USE <1>0
<1>q. /\ PayloadSize(Query("space")) \in Nat /\ Query("space") \in Actual
      /\ Query("space").kind # "command"
  BY QueryType
<1>1. CASE Update
  <2>1. TypedUpdate'
    BY <1>1 DEF Update, Frame, TypedUpdate
  <2>2. TypedPacket' /\ TypedLines' /\ UNCHANGED printerVars
    BY <1>1 DEF Update, Frame, TypedPacket, TypedLines
  <2> QED BY <2>1, <2>2, PrinterKept
<1>2. CASE FillQueue
  <2>1. TypedUpdate'
    BY <1>2 DEF FillQueue, Frame, TypedUpdate
  <2>2. TypedPacket' /\ UNCHANGED <<printerVars, appended, givenUp>>
    BY <1>2 DEF FillQueue, Frame, TypedPacket
  <2>3. gcode' \in Seq(1..MaxLines) /\ queue' \in Seq(RealCommand)
    <3>0. gcode \in Seq(1..MaxLines) /\ queue \in Seq(RealCommand)
      BY DEF TypedLines
    <3>1. CASE UNCHANGED <<gcode, queue>>
      BY <3>0, <3>1
    <3>2. CASE \E n \in 1..Smaller(CvtLines, Len(gcode)) :
                 /\ queue' = queue \o Converted(SubSeq(gcode, 1, n))
                 /\ gcode' = SubSeq(gcode, n + 1, Len(gcode))
      <4>1. PICK n \in 1..Smaller(CvtLines, Len(gcode)) :
                 /\ queue' = queue \o Converted(SubSeq(gcode, 1, n))
                 /\ gcode' = SubSeq(gcode, n + 1, Len(gcode))
        BY <3>2
      <4>2. n \in 1..Len(gcode) /\ n \in Nat
        BY <3>0, SizeAssumption DEF Smaller
      <4>3. SubSeq(gcode, 1, n) \in Seq(1..MaxLines)
        BY <3>0, <4>2, PrefixFacts
      <4>4. Converted(SubSeq(gcode, 1, n)) \in Seq(RealCommand)
        BY <4>3, ConvertedType
      <4>5. gcode' \in Seq(1..MaxLines)
        BY <3>0, <4>1, <4>2, DropType
      <4> QED
        BY <3>0, <4>1, <4>4, <4>5, ConcatProperties
    <3> QED BY <1>2, <3>1, <3>2 DEF FillQueue
  <2> QED BY <2>1, <2>2, <2>3, PrinterKept DEF TypedLines
<1>3. CASE ProcessQueue
  <2>1. TypedUpdate'
    BY <1>3 DEF ProcessQueue, Frame, TypedUpdate
  <2>2. TypedLines' /\ UNCHANGED printerVars
    BY <1>3 DEF ProcessQueue, Frame, TypedLines
  <2>3. packet' = Query("space") /\ rx' \in Seq(Byte) /\ bufferSpace' \in 0..(Word - 1)
    BY <1>3, <1>q, BeginPacketType DEF ProcessQueue, TypedPacket
  <2> QED BY <1>q, <2>1, <2>2, <2>3, PrinterKept DEF TypedPacket
<1>4. CASE Decide
  <2>1. TypedUpdate'
    BY <1>4 DEF Decide, Frame, TypedUpdate, State
  <2>2. TypedPacket' /\ TypedLines' /\ UNCHANGED printerVars
    BY <1>4 DEF Decide, Frame, TypedPacket, TypedLines
  <2> QED BY <2>1, <2>2, PrinterKept
<1>5. CASE SendCommands
  <2>1. TypedUpdate'
    BY <1>5 DEF SendCommands, Frame, TypedUpdate
  <2>2. UNCHANGED <<gcode, appended, givenUp, printerVars>>
    BY <1>5 DEF SendCommands, Frame
  <2>0. queue \in Seq(RealCommand)
    BY DEF TypedLines
  <2>3. TypedPacket' /\ queue' \in Seq(RealCommand)
    <3>1. CASE UNCHANGED <<queue, bufferSpace, packet, rx>>
      BY <2>0, <3>1 DEF TypedPacket
    <3>2. CASE queue # <<>> /\ BeginPacket(Sending(Head(queue)), TRUE) /\ queue' = Tail(queue)
      <4>1. Head(queue) \in RealCommand /\ queue' \in Seq(RealCommand)
        BY <2>0, <3>2
      <4>2. /\ PayloadSize(Sending(Head(queue))) \in Nat
            /\ Sending(Head(queue)) \in Actual
            /\ Sending(Head(queue)).command \in RealCommand
        BY <4>1, SendingType, SizeType
      <4>3. /\ packet' = Sending(Head(queue)) /\ rx' \in Seq(Byte)
            /\ bufferSpace' \in 0..(Word - 1)
        BY <3>2, <4>2, BeginPacketType DEF TypedPacket
      <4> QED
        BY <4>1, <4>2, <4>3 DEF TypedPacket
    <3> QED BY <1>5, <3>1, <3>2 DEF SendCommands
  <2> QED BY <2>1, <2>2, <2>3, PrinterKept DEF TypedLines
<1>6. CASE Poll
  <2>1. TypedUpdate'
    BY <1>6, Constants DEF Poll, Frame, TypedUpdate
  <2>2. TypedPacket' /\ TypedLines' /\ UNCHANGED printerVars
    BY <1>6 DEF Poll, Frame, TypedPacket, TypedLines
  <2> QED BY <2>1, <2>2, PrinterKept
<1>7. CASE SendQueries
  <2>0. queries \in 0..(ToolQueries + 1) /\ ToolQueries \in Nat
    BY Constants DEF TypedUpdate
  <2>1. TypedUpdate'
    <3>0. queries' = IF queries > 0 THEN queries - 1 ELSE queries
      BY <1>7 DEF SendQueries
    <3>1. queries' \in 0..(ToolQueries + 1) /\ at' \in {at, "server"}
      <4>1. queries' \in 0..(ToolQueries + 1)
        BY <2>0, <3>0
      <4>2. at' \in {at, "server"}
        BY <1>7 DEF SendQueries
      <4> QED BY <4>1, <4>2
    <3>2. UNCHANGED <<state, validResponseReceived, exited>>
      BY <1>7 DEF SendQueries, Frame
    <3> QED BY <3>1, <3>2 DEF TypedUpdate
  <2>2. TypedLines' /\ UNCHANGED printerVars
    BY <1>7 DEF SendQueries, Frame, TypedLines
  <2>3. \E kind \in {"version", "tool", "space"}, b \in BOOLEAN : BeginPacket(Query(kind), b)
    BY <1>7 DEF SendQueries
  <2>4. PICK kind \in {"version", "tool", "space"}, b \in BOOLEAN : BeginPacket(Query(kind), b)
    BY <2>3
  <2>5. /\ Query(kind) \in Actual /\ Query(kind).kind # "command"
        /\ PayloadSize(Query(kind)) \in Nat
    BY QueryType
  <2>6. packet' = Query(kind) /\ rx' \in Seq(Byte) /\ bufferSpace' \in 0..(Word - 1)
    BY <2>4, <2>5, BeginPacketType DEF TypedPacket
  <2> QED BY <2>1, <2>2, <2>5, <2>6, PrinterKept DEF TypedPacket
<1>8. CASE Attempt
  <2>0. packet \in Actual /\ packet # NoPacket /\ Room \in 0..BufferSize
    BY <1>8 DEF Attempt, TypedPacket, TypedPrinter
  <2>1. PICK damage \in Outcome, rv \in {0, -3, -99} :
          /\ Suffers(packet, damage) /\ Taken(packet, damage)
          /\ ParseResponse(packet, rx \o Answer(packet, damage), rv)
          /\ packet' = SecondTry(packet, rv)
          /\ validResponseReceived' = (validResponseReceived \/ rv = 0)
    BY <1>8 DEF Attempt, Outcome
  <2> DEFINE bytes    == Answer(packet, damage)
             received == rx \o bytes
  <2>2. bytes \in Seq(Byte) /\ bytes # <<>>
    BY <2>0, AnswerType
  <2> HIDE DEF bytes
  <2>3. received \in Seq(Byte) /\ received # <<>>
    BY <2>2 DEF TypedPacket
  <2>4. ParseResponse(packet, received, rv)
    BY <2>1 DEF bytes
  <2> HIDE DEF received
  <2>5. state' \in State /\ bufferSpace' \in 0..(Word - 1) /\ rx' \in Seq(Byte)
    BY <2>3, <2>4, ParseType DEF TypedUpdate, TypedPacket
  <2>6. validResponseReceived' \in BOOLEAN
    BY <2>1 DEF TypedUpdate
  <2>7. /\ packet' \in Actual \cup {NoPacket}
        /\ packet'.kind = "command" => packet'.command \in RealCommand
    BY <2>0, <2>1, SecondTryType, NoPacketFacts DEF TypedPacket
  <2>8. /\ garbled' \in 0..MaxGarbled
        /\ suffered' \subseteq {"checksum", "frame"} \cup Kind
    <3>0. garbled \in 0..MaxGarbled /\ suffered \subseteq {"checksum", "frame"} \cup Kind
      BY DEF TypedPrinter
    <3>1. CASE UNCHANGED <<suffered, garbled>>
      BY <3>0, <3>1
    <3>2. CASE /\ damage \in Damage /\ garbled < MaxGarbled /\ garbled' = garbled + 1
               /\ suffered' = suffered \cup {IF damage = "packet" THEN packet.kind ELSE damage}
      <4>1. packet.kind \in Kind
        BY <2>0 DEF Actual
      <4>2. garbled' \in 0..MaxGarbled
        BY <3>0, <3>2, Constants
      <4> QED BY <3>0, <3>2, <4>1, <4>2 DEF Damage
    <3> QED BY <2>1, <3>1, <3>2 DEF Suffers, Outcome
  <2>9. TypedLines' /\ UNCHANGED <<at, queries, exited>>
    BY <1>8 DEF Attempt, TypedLines
  <2>10. /\ held' \in Seq(RealCommand) /\ Room' \in 0..BufferSize
         /\ last' # NoCommand => last' \in RealCommand
         /\ discarded' \in BOOLEAN
    BY <2>0, <2>1, TakenType
  <2>11. TypedUpdate'
    BY <2>5, <2>6, <2>9 DEF TypedUpdate
  <2>12. TypedPacket'
    BY <2>5, <2>7 DEF TypedPacket
  <2>13. TypedPrinter'
    BY <2>8, <2>10 DEF TypedPrinter
  <2> QED BY <2>9, <2>11, <2>12, <2>13
<1>9. CASE PortLost
  <2>1. TypedUpdate'
    BY <1>9 DEF PortLost, TypedUpdate, State, Offline
  <2>2. TypedPacket' /\ TypedLines' /\ UNCHANGED printerVars
    BY <1>9 DEF PortLost, TypedPacket, TypedLines
  <2> QED BY <2>1, <2>2, PrinterKept
<1>10. CASE ClientCommand
  <2>0. /\ UNCHANGED <<bufferSpace, validResponseReceived, at, queries, packet, rx,
                       printerVars, exited>>
        /\ state' \in State
    BY <1>10 DEF ClientCommand, GCodeAppend, GCodeClear, GCodeStartPrint, GCodeStopPrint,
                 CommandFrame, State, Printing, Offline, TypedUpdate
  <2>1. ASSUME NEW k \in 0..MaxChunk, appended + k <= MaxLines
        PROVE  NewLines(k) \in Seq(1..MaxLines) /\ appended + k \in 0..MaxLines
    <3>1. appended \in 0..MaxLines /\ k \in Nat /\ MaxLines \in Nat
      BY Constants DEF TypedLines
    <3>2. \A i \in 1..k : appended + i \in 1..MaxLines
      BY <2>1, <3>1
    <3> QED BY <2>1, <3>1, <3>2 DEF NewLines
  <2>2. TypedLines'
    <3>0. /\ gcode \in Seq(1..MaxLines) /\ queue \in Seq(RealCommand)
          /\ appended \in 0..MaxLines /\ givenUp \in 0..MaxLines
      BY DEF TypedLines
    <3>1. ASSUME NEW k \in 0..MaxChunk, GCodeAppend(k)
          PROVE  TypedLines'
      <4>1. gcode' = gcode \o NewLines(k) /\ appended' = appended + k
            /\ appended + k <= MaxLines /\ UNCHANGED <<queue, givenUp>>
        BY <3>1 DEF GCodeAppend
      <4> DEFINE new == NewLines(k)
      <4>2. new \in Seq(1..MaxLines) /\ appended + k \in 0..MaxLines
        BY <2>1, <4>1
      <4> HIDE DEF new
      <4>3. gcode' \in Seq(1..MaxLines)
        BY <3>0, <4>1, <4>2, ConcatProperties DEF new
      <4> QED BY <3>0, <4>1, <4>2, <4>3 DEF TypedLines
    <3>2. ASSUME GCodeClear
          PROVE  TypedLines'
      BY <3>0, <3>2 DEF GCodeClear, TypedLines
    <3>3. ASSUME GCodeStartPrint
          PROVE  TypedLines'
      BY <3>0, <3>3 DEF GCodeStartPrint, TypedLines
    <3>4. ASSUME NEW k \in 0..MaxChunk, GCodeStopPrint(k)
          PROVE  TypedLines'
      <4>1. gcode' = NewLines(k) /\ appended' = appended + k /\ queue' = <<>>
            /\ appended + k <= MaxLines /\ givenUp' = appended
        BY <3>4 DEF GCodeStopPrint
      <4>2. NewLines(k) \in Seq(1..MaxLines) /\ appended + k \in 0..MaxLines
        BY <2>1, <4>1
      <4> QED BY <3>0, <4>1, <4>2 DEF TypedLines
    <3> QED BY <1>10, <3>1, <3>2, <3>3, <3>4 DEF ClientCommand
  <2>3. TypedUpdate' /\ TypedPacket'
    BY <2>0 DEF TypedUpdate, TypedPacket
  <2> QED BY <2>0, <2>2, <2>3, PrinterKept
<1>11. CASE PrinterExecutes
  <2>1. TypedUpdate' /\ TypedPacket' /\ TypedLines'
    BY <1>11 DEF PrinterExecutes, driverVars, TypedUpdate, TypedPacket, TypedLines
  <2>2. /\ held # <<>> /\ held' = Tail(held) /\ held \in Seq(RealCommand)
        /\ UNCHANGED <<last, discarded, suffered, garbled>>
    BY <1>11 DEF PrinterExecutes, TypedPrinter
  <2>3. held' \in Seq(RealCommand) /\ Head(held) \in RealCommand
    BY <2>2
  <2>4. Load(held) = Size(Head(held)) + Load(held')
    BY <2>2, LoadTail
  <2>5. Load(held) \in Nat /\ Load(held') \in Nat /\ Size(Head(held)) \in Nat
    BY <2>2, <2>3, LoadType, SizeType
  <2>6. Room' = BufferSize - Load(held') /\ Room = BufferSize - Load(held)
    BY DEF Room, Load, Sizes, Size
  <2>7. Room' \in 0..BufferSize
    BY <2>4, <2>5, <2>6, Constants DEF TypedPrinter
  <2> QED BY <2>1, <2>2, <2>3, <2>7 DEF TypedPrinter
<1>12. CASE UNCHANGED vars
  <2>1. TypedUpdate' /\ TypedPacket' /\ TypedLines' /\ UNCHANGED printerVars
    BY <1>12 DEF vars, driverVars, TypedUpdate, TypedPacket, TypedLines
  <2> QED BY <2>1, PrinterKept
<1> QED
  BY <1>1, <1>2, <1>3, <1>4, <1>5, <1>6, <1>7, <1>8, <1>9, <1>10, <1>11, <1>12
  DEF Next, UpdateStep

(* The driver's members and the printer's buffer keep their types, with    *)
(* damaged replies and with stray bytes too: bufferSpace_ stays a word,    *)
(* the printer never holds more than it has room for.                      *)
THEOREM TypeCorrect == Spec => []TypeOK
<1>1. Typed => TypeOK
  BY DEF Typed
<1>2. Typed /\ [Next]_vars => Typed'
  BY TypedStep
<1> QED
  BY <1>1, <1>2, TypedInit, PTL DEF Spec

-----------------------------------------------------------------------------
(* What an attempt does                                                    *)

LEMMA SufferedGrows ==
  ASSUME [Next]_vars
  PROVE  suffered \subseteq suffered'
<1>1. CASE Attempt
  <2>1. PICK damage : Suffers(packet, damage)
    BY <1>1 DEF Attempt
  <2> QED BY <2>1 DEF Suffers
<1>2. CASE ~Attempt
  BY <1>2 DEF Next, UpdateStep, Update, FillQueue, ProcessQueue, Decide, SendCommands,
              Poll, SendQueries, PortLost, ClientCommand, GCodeAppend, GCodeClear,
              GCodeStartPrint, GCodeStopPrint, PrinterExecutes, Frame, CommandFrame,
              vars, printerVars
<1> QED
  BY <1>1, <1>2

(* A packet is sent again only by a driver that is out of step. *)
LEMMA AttemptFacts ==
  ASSUME Typed, Framed, Attempt
  PROVE  /\ packet \in Actual /\ packet # NoPacket
         /\ packet' # NoPacket =>
              /\ packet'.kind = packet.kind /\ packet'.command = packet.command
              /\ "frame" \in suffered'
         /\ "frame" \notin suffered' => rx' = <<>>
         /\ "frame" \notin suffered' /\ "space" \notin suffered' =>
              \/ /\ garbled' = garbled
                 /\ bufferSpace' = IF packet.kind = "space" THEN Room ELSE bufferSpace
              \/ garbled' = garbled + 1 /\ bufferSpace' = bufferSpace
         /\ \E damage \in Outcome : Taken(packet, damage)
<1>0. packet \in Actual /\ packet # NoPacket /\ Room \in 0..BufferSize
  BY TypedParts DEF Attempt, TypedPacket, TypedPrinter
<1>1. PICK damage \in Outcome, rv \in {0, -3, -99} :
        /\ Suffers(packet, damage) /\ Taken(packet, damage)
        /\ ParseResponse(packet, rx \o Answer(packet, damage), rv)
        /\ packet' = SecondTry(packet, rv)
  BY DEF Attempt, Outcome
<1>2. packet' # NoPacket =>
        packet'.kind = packet.kind /\ packet'.command = packet.command /\ rv = -99
  BY <1>0, <1>1, SecondTryType
<1>3. ASSUME "frame" \notin suffered'
      PROVE  /\ rv # -99 /\ rx' = <<>>
             /\ "space" \notin suffered' =>
                  \/ /\ garbled' = garbled
                     /\ bufferSpace' = IF packet.kind = "space" THEN Room ELSE bufferSpace
                  \/ garbled' = garbled + 1 /\ bufferSpace' = bufferSpace
  <2>1. rx = <<>> /\ damage # "frame"
    BY <1>1, <1>3 DEF Framed, Suffers
  <2> DEFINE received == Answer(packet, damage)
             first    == Reply(packet, damage)
  <2>2. /\ received \in Seq(Byte) /\ received # <<>> /\ Head(received) = first
        /\ first.kind # "rest" /\ Len(received) = ReplySize(first.kind)
    BY <1>0, <2>1, AnswerType
  <2>3. first.room = Room /\ first.good = (damage # "checksum")
        /\ first.kind = IF damage = "packet" THEN "error" ELSE packet.kind
    BY DEF Reply
  <2>4. ParseResponse(packet, received, rv)
    BY <1>1, <2>1, <2>2
  <2> HIDE DEF received, first
  <2>5. /\ rv = IF first.good THEN 0 ELSE -3
        /\ rx' = SubSeq(received, Len(received) + 1, Len(received))
        /\ IF rv = 0 THEN Interpreted(packet, first) ELSE UNCHANGED <<state, bufferSpace>>
    BY <2>2, <2>4 DEF ParseResponse
  <2>6. rx' = <<>> /\ rv # -99
    BY <2>2, <2>5
  <2>7. CASE damage = "none"
    <3>1. garbled' = garbled /\ Interpreted(packet, first) /\ first.kind = packet.kind
      BY <1>1, <2>3, <2>5, <2>7 DEF Suffers
    <3>2. bufferSpace' = IF packet.kind = "space" THEN Room ELSE bufferSpace
      BY <2>3, <3>1 DEF Interpreted
    <3> QED BY <2>6, <3>1, <3>2
  <2>8. CASE damage = "checksum"
    <3>1. ~first.good
      BY ONLY <2>3, <2>8
    <3>2. bufferSpace' = bufferSpace
      <4>1. rv # 0
        BY <2>5, <3>1
      <4> QED BY <2>5, <4>1
    <3>3. garbled' = garbled + 1
      BY <1>1, <2>8 DEF Suffers
    <3> QED BY <2>6, <3>2, <3>3
  <2>9. CASE damage = "packet"
    <3>1. garbled' = garbled + 1 /\ packet.kind \in suffered'
      BY <1>1, <2>9 DEF Suffers
    <3>2. packet.kind # "space" => bufferSpace' = bufferSpace
      BY <2>5 DEF Interpreted
    <3> QED BY <2>6, <3>1, <3>2
  <2> QED BY <2>1, <2>7, <2>8, <2>9 DEF Outcome, Damage
<1> QED
  BY <1>0, <1>1, <1>2, <1>3

-----------------------------------------------------------------------------
(* The driver in step with the replies *)

LEMMA FramedInit ==
  ASSUME Init
  PROVE  Framed
<1>1. PICK n \in 0..MaxStray : /\ rx = [i \in 1..n |-> Rest]
                               /\ suffered = IF n > 0 THEN {"frame"} ELSE {}
  BY DEF Init
<1>2. ~(n > 0) => rx = <<>>
  BY <1>1, Constants
<1> QED
  BY <1>1, <1>2, NoPacketFacts DEF Framed, Init

LEMMA FramedKept ==
  ASSUME Framed, UNCHANGED <<packet, rx, suffered>>,
         at' = "send" <=> at = "send"
  PROVE  Framed'
BY DEF Framed

LEMMA NothingToEat ==
  ASSUME NEW p, PayloadSize(p) \in Nat, NEW b, BeginPacket(p, b), rx = <<>>
  PROVE  rx' = <<>>
<1> DEFINE n == PayloadSize(p)
<1>1. rx' = SubSeq(rx, n + 1, Len(rx)) /\ n \in Nat
  BY DEF BeginPacket
<1> HIDE DEF n
<1> QED
  BY <1>1

LEMMA FramedQuery ==
  ASSUME Framed, UNCHANGED suffered, at' # "send",
         NEW kind \in {"version", "tool", "space"}, NEW b,
         BeginPacket(Query(kind), b)
  PROVE  Framed'
<1>1. packet' = Query(kind) /\ packet'.kind # "command"
  BY QueryType DEF BeginPacket
<1>2. PayloadSize(Query(kind)) \in Nat
  BY QueryType
<1> QED
  BY <1>1, <1>2, NothingToEat DEF Framed

LEMMA FramedStep ==
  ASSUME Typed, Framed, [Next]_vars
  PROVE  Framed'
<1>1. CASE Update
  BY <1>1, FramedKept DEF Update, At, Frame, printerVars
<1>2. CASE FillQueue
  BY <1>2, FramedKept DEF FillQueue, At, Frame, printerVars
<1>3. CASE ProcessQueue
  BY <1>3, FramedQuery DEF ProcessQueue, Frame, printerVars
<1>4. CASE Decide
  BY <1>4, NoPacketFacts DEF Decide, At, Frame, printerVars, Framed
<1>5. CASE SendCommands
  <2>0. packet = NoPacket /\ at = "send" /\ UNCHANGED suffered
    BY <1>5 DEF SendCommands, At, Frame, printerVars
  <2>1. CASE /\ queue # <<>> /\ at' = at
             /\ BeginPacket(Sending(Head(queue)), TRUE)
    <3>1. Head(queue) \in RealCommand
      BY <2>1 DEF Typed, Real
    <3> DEFINE p == Sending(Head(queue))
    <3>2. p.kind = "command" /\ PayloadSize(p) \in Nat /\ packet' = p /\ p # NoPacket
      BY <2>1, <3>1, SendingType, SizeType, NoPacketFacts DEF BeginPacket
    <3> QED BY <2>0, <2>1, <3>2, NothingToEat DEF Framed
  <2>2. CASE at' = "poll" /\ UNCHANGED <<packet, rx>>
    BY <2>0, <2>2, NoPacketFacts DEF Framed
  <2> QED BY <1>5, <2>1, <2>2 DEF SendCommands
<1>6. CASE Poll
  BY <1>6, FramedKept DEF Poll, At, Frame, printerVars
<1>7. CASE SendQueries
  <2>1. at' # "send" /\ UNCHANGED suffered
    BY <1>7 DEF SendQueries, At, Frame, printerVars
  <2>2. \E kind \in {"version", "tool", "space"}, b \in BOOLEAN : BeginPacket(Query(kind), b)
    BY <1>7 DEF SendQueries
  <2> QED BY <2>1, <2>2, FramedQuery
<1>8. CASE Attempt
  <2>1. at' = at
    BY <1>8 DEF Attempt
  <2>2. packet' # NoPacket => packet'.kind = packet.kind
    BY <1>8, AttemptFacts
  <2>3. packet # NoPacket /\ ("frame" \notin suffered' => rx' = <<>>)
    BY <1>8, AttemptFacts
  <2> QED BY <2>1, <2>2, <2>3, NoPacketFacts DEF Framed
<1>9. CASE PortLost
  BY <1>9, FramedKept DEF PortLost, printerVars
<1>10. CASE ClientCommand
  BY <1>10, FramedKept
  DEF ClientCommand, GCodeAppend, GCodeClear, GCodeStartPrint, GCodeStopPrint,
      CommandFrame, printerVars
<1>11. CASE PrinterExecutes
  BY <1>11, FramedKept DEF PrinterExecutes, driverVars
<1>12. CASE UNCHANGED vars
  BY <1>12, FramedKept DEF vars, driverVars, printerVars
<1> QED
  BY <1>1, <1>2, <1>3, <1>4, <1>5, <1>6, <1>7, <1>8, <1>9, <1>10, <1>11, <1>12
  DEF Next, UpdateStep

-----------------------------------------------------------------------------
(* The account of the room *)

LEMMA RoomFacts ==
  ASSUME Typed
  PROVE  /\ Room \in Nat /\ Room <= BufferSize
         /\ bufferSpace \in 0..(Word - 1) /\ garbled \in Nat /\ garbled <= MaxGarbled
         /\ packet \in Actual \cup {NoPacket}
         /\ packet.kind = "command" =>
              /\ packet.command \in RealCommand
              /\ Size(packet.command) \in Nat /\ Size(packet.command) >= 1
<1>1. TypedPacket /\ TypedPrinter
  BY TypedParts
<1>2. Room \in Nat /\ Room <= BufferSize
  BY <1>1, Constants DEF TypedPrinter
<1>3. garbled \in Nat /\ garbled <= MaxGarbled
  BY <1>1, Constants DEF TypedPrinter
<1> QED
  BY <1>1, <1>2, <1>3, SizeType DEF TypedPacket

(* As an int the count is the true one or, for the sake of a sign, less.   *)
LEMMA CountedFacts ==
  ASSUME NEW w \in 0..(Word - 1), Counted(w) >= -MaxGarbled
  PROVE  /\ Counted(w) \in Int /\ Counted(w) <= BufferSize
         /\ AsInt(w) <= Counted(w)
         /\ AsInt(w) >= 0 => w = Counted(w) /\ AsInt(w) = w
BY Constants DEF Counted, AsInt

(* Asking for the room counts one byte off, also below 0. *)
LEMMA CountedOneOff ==
  ASSUME NEW w \in 0..(Word - 1), Counted(w) >= -MaxGarbled
  PROVE  Counted((w + Word - 1) % Word) = Counted(w) - 1
<1>1. (w + Word - 1) % Word = IF w >= 1 THEN w - 1 ELSE w + Word - 1
  BY Subtracted, Constants
<1> QED
  BY <1>1, Constants DEF Counted

LEMMA AccountInit ==
  ASSUME Init
  PROVE  Account
<1>1. Room = BufferSize
  BY LoadEmpty, RoomIsLoad, Constants DEF Init
<1>2. packet = NoPacket /\ packet.kind = "none" /\ at # "send" /\ ~discarded
      /\ bufferSpace = BufferSize /\ garbled = 0
  BY NoPacketFacts DEF Init
<1>3. Owed = 0 /\ Asking = 0 /\ Counted(bufferSpace) = BufferSize
  BY <1>2, Constants DEF Owed, Asking, Counted
<1> QED
  BY <1>1, <1>2, <1>3, Constants DEF Account

(* Steps that leave the count and the packet alone *)
LEMMA AccountKept ==
  ASSUME Typed, Account, UNCHANGED <<bufferSpace, packet, printerVars>>,
         at' = "send" <=> at = "send"
  PROVE  Account'
<1>1. Room' = Room
  BY PrinterKept, TypedParts
<1>2. Owed' = Owed /\ Asking' = Asking /\ Counted(bufferSpace)' = Counted(bufferSpace)
  BY DEF Owed, Asking, Counted, Size
<1> QED
  BY <1>1, <1>2 DEF Account, printerVars

(* A query that is counted (updateBufferSpace) or not *)
LEMMA AccountQuery ==
  ASSUME Typed, Account, packet = NoPacket, UNCHANGED printerVars, at' # "send",
         NEW kind \in {"version", "tool", "space"}, NEW b \in BOOLEAN,
         b = (kind = "space"),
         BeginPacket(Query(kind), b)
  PROVE  Account'
<1> DEFINE p == Query(kind)
<1>0. /\ p.kind = kind /\ p \in Actual
      /\ PayloadSize(p) = IF kind = "tool" THEN 3 ELSE 1
  BY QueryType
<1>1. /\ packet' = p /\ rx' = SubSeq(rx, PayloadSize(p) + 1, Len(rx))
      /\ bufferSpace' = IF b THEN (bufferSpace + Word - PayloadSize(p)) % Word
                             ELSE bufferSpace
  BY DEF BeginPacket
<1> HIDE DEF p
<1>3. Room' = Room
  BY PrinterKept, TypedParts
<1>4. Owed = 0 /\ Asking = 0 /\ Owed' = 0
      /\ Asking' = IF kind = "space" THEN 1 ELSE 0
  BY <1>0, <1>1, NoPacketFacts DEF Owed, Asking
<1>5. packet' # NoPacket /\ packet'.kind # "command"
  BY <1>0, <1>1, NoPacketFacts
<1>6. /\ ~discarded' /\ garbled' = garbled /\ garbled \in Nat /\ garbled <= MaxGarbled
      /\ Room \in Nat /\ bufferSpace \in 0..(Word - 1)
      /\ Counted(bufferSpace) <= Room /\ Counted(bufferSpace) >= -garbled
  <2>1. /\ ~discarded' /\ garbled' = garbled /\ garbled \in Nat /\ garbled <= MaxGarbled
        /\ Room \in Nat /\ bufferSpace \in 0..(Word - 1)
        /\ Counted(bufferSpace) + 0 <= Room /\ Counted(bufferSpace) >= -(garbled + 0)
    BY <1>4, RoomFacts DEF Account, printerVars
  <2>2. Counted(bufferSpace) \in Int
    BY <2>1, Constants DEF Counted
  <2> QED BY <2>1, <2>2
<1>7. Counted(bufferSpace)' = Counted(bufferSpace) - (IF kind = "space" THEN 1 ELSE 0)
  <2>1. Counted(bufferSpace)' = Counted(bufferSpace')
    BY DEF Counted
  <2>2. CASE kind = "space"
    <3>1. bufferSpace' = (bufferSpace + Word - 1) % Word
      BY <1>0, <1>1, <2>2
    <3>2. Counted(bufferSpace) >= -MaxGarbled
      BY <1>6, Constants DEF Counted
    <3> QED BY <1>6, <2>1, <2>2, <3>1, <3>2, CountedOneOff
  <2>3. CASE kind # "space"
    <3>1. bufferSpace' = bufferSpace
      BY <1>1, <2>3
    <3>2. Counted(bufferSpace) \in Int
      BY <1>6, Constants DEF Counted
    <3> QED BY <2>1, <2>3, <3>1, <3>2
  <2> QED BY <2>2, <2>3
<1>8. Counted(bufferSpace) \in Int
  BY <1>6, Constants DEF Counted
<1>9. Counted(bufferSpace)' + Owed' <= Room'
  BY <1>3, <1>4, <1>6, <1>7, <1>8
<1>10. Counted(bufferSpace)' >= -(garbled' + Asking')
  BY <1>4, <1>6, <1>7, <1>8
<1> QED
  BY <1>5, <1>6, <1>9, <1>10 DEF Account

(* A command is sent from the room that is left above the margin. *)
LEMMA AccountCommand ==
  ASSUME Typed, Account, packet = NoPacket, at = "send", at' = "send",
         UNCHANGED printerVars, NEW c \in RealCommand, Fits(c),
         BeginPacket(Sending(c), TRUE)
  PROVE  Account'
<1> DEFINE p == Sending(c)
           z == Size(c)
<1>0. /\ p.kind = "command" /\ p \in Actual /\ PayloadSize(p) = z /\ p.command = c
      /\ z \in Nat /\ z >= 1 /\ z < Word
  BY SendingType, SizeType
<1>1. /\ packet' = p /\ rx' = SubSeq(rx, PayloadSize(p) + 1, Len(rx))
      /\ bufferSpace' = (bufferSpace + Word - PayloadSize(p)) % Word
  BY DEF BeginPacket
<1>2. z <= (bufferSpace + Word - Margin) % Word
  BY DEF Fits
<1>3. Owed' = z /\ Asking' = 0
  BY <1>0, <1>1 DEF Owed, Asking, Size
<1> HIDE DEF p, z
<1>5. Room' = Room
  BY PrinterKept, TypedParts
<1>6. packet' # NoPacket /\ packet'.kind = "command"
  BY <1>0, <1>1, NoPacketFacts
<1>7. /\ ~discarded' /\ garbled' = garbled /\ garbled \in Nat
      /\ Room \in Nat /\ bufferSpace \in 0..(Word - 1)
      /\ bufferSpace \in Margin..BufferSize /\ Owed = 0
      /\ Counted(bufferSpace) + Owed <= Room
  BY RoomFacts, NoPacketFacts DEF Account, printerVars, Owed
<1>8. (bufferSpace + Word - Margin) % Word = bufferSpace - Margin
  BY <1>7, Subtracted, Constants
<1>9. bufferSpace' = bufferSpace - z /\ bufferSpace' \in Margin..BufferSize
  <2>1. z \in 0..Word /\ bufferSpace >= z
    BY <1>0, <1>2, <1>7, <1>8, Constants
  <2>2. (bufferSpace + Word - z) % Word = bufferSpace - z
    BY <1>7, <2>1, Subtracted
  <2>3. bufferSpace' = bufferSpace - z
    BY <1>0, <1>1, <2>2
  <2> QED BY <1>0, <1>2, <1>7, <1>8, <2>3, Constants
<1>10. Counted(bufferSpace) = bufferSpace /\ Counted(bufferSpace)' = bufferSpace'
  BY <1>7, <1>9, Constants DEF Counted
<1>11. Counted(bufferSpace)' + Owed' <= Room'
  BY <1>0, <1>3, <1>5, <1>7, <1>9, <1>10, Constants
<1>12. Counted(bufferSpace)' >= -(garbled' + Asking')
  BY <1>3, <1>7, <1>9, <1>10, Constants
<1> QED
  BY <1>6, <1>7, <1>9, <1>11, <1>12 DEF Account

(* A command that is sent finds room, so the printer takes it. *)
LEMMA CommandTaken ==
  ASSUME Typed, Framed, Account, packet.kind = "command",
         NEW damage \in Outcome, Taken(packet, damage)
  PROVE  /\ discarded' = discarded
         /\ Room' \in {Room, Room - Size(packet.command)}
         /\ bufferSpace \in Margin..BufferSize
<1> DEFINE c == packet.command
           z == Size(c)
<1>1. /\ c \in RealCommand /\ z \in Nat /\ Room \in Nat
      /\ held \in Seq(RealCommand)
  BY RoomFacts DEF Typed, Real
<1>2. /\ bufferSpace \in Margin..BufferSize /\ Counted(bufferSpace) + z <= Room
  BY DEF Framed, Account, Owed
<1>3. Counted(bufferSpace) \in Nat
  BY <1>2, Constants DEF Counted
<1>4. z <= Room
  BY <1>1, <1>2, <1>3
<1>5. CASE damage = "packet"
  <2>1. UNCHANGED <<held, discarded>>
    BY <1>5 DEF Taken
  <2> QED BY <1>2, <2>1 DEF Room, Size
<1>6. CASE damage # "packet"
  <2>1. held' = Append(held, c) /\ discarded' = discarded
    BY <1>4, <1>6 DEF Taken
  <2> HIDE DEF c
  <2>2. Load(held') = Load(held) + Size(c)
    BY <1>1, <2>1, LoadAppend
  <2>3. Room' = BufferSize - Load(held') /\ Room = BufferSize - Load(held)
    BY DEF Room, Load, Sizes, Size
  <2>4. Room' = Room - Size(c)
    BY <1>1, <2>2, <2>3, LoadType, Constants
  <2> QED BY <1>2, <2>1, <2>4 DEF c
<1> QED
  BY <1>5, <1>6

LEMMA AccountAttempt ==
  ASSUME Typed, Framed, Account, RoomKnown', Attempt
  PROVE  Account'
<1>q. "frame" \notin suffered' /\ "space" \notin suffered'
  BY DEF RoomKnown
<1>0. /\ packet \in Actual /\ packet # NoPacket
      /\ packet' = NoPacket /\ packet'.kind = "none" /\ at' = at
  BY <1>q, AttemptFacts, NoPacketFacts DEF Attempt
<1>t. PICK damage \in Outcome : Taken(packet, damage)
  BY AttemptFacts
<1>1. /\ Room \in Nat /\ Room <= BufferSize /\ garbled \in Nat /\ garbled <= MaxGarbled
      /\ bufferSpace \in 0..(Word - 1) /\ ~discarded
      /\ Counted(bufferSpace) + Owed <= Room
      /\ Counted(bufferSpace) >= -(garbled + Asking)
      /\ packet.kind = "command" <=> at = "send"
  BY <1>0, RoomFacts DEF Account, Framed
<1>2. Counted(bufferSpace) \in Int /\ Counted(bufferSpace)' = Counted(bufferSpace')
  BY <1>1, Constants DEF Counted
<1>3. Owed' = 0 /\ Asking' = 0
  BY <1>0 DEF Owed, Asking
<1>4. \/ /\ garbled' = garbled
         /\ bufferSpace' = IF packet.kind = "space" THEN Room ELSE bufferSpace
      \/ garbled' = garbled + 1 /\ bufferSpace' = bufferSpace
  BY <1>q, AttemptFacts
<1>5. Counted(Room) = Room
  BY <1>1, Constants DEF Counted
<1>6. CASE packet.kind = "command"
  <2> DEFINE z == Size(packet.command)
  <2>1. /\ discarded' = discarded /\ Room' \in {Room, Room - z}
        /\ bufferSpace \in Margin..BufferSize
        /\ z \in Nat /\ Owed = z /\ Asking = 0
    BY <1>t, <1>6, CommandTaken, RoomFacts DEF Owed, Asking
  <2> HIDE DEF z
  <2>2. bufferSpace' = bufferSpace /\ (garbled' = garbled \/ garbled' = garbled + 1)
    BY <1>4, <1>6
  <2>3. Counted(bufferSpace)' = Counted(bufferSpace)
    BY <1>2, <2>2
  <2>4. Counted(bufferSpace)' + Owed' <= Room'
    BY <1>1, <1>2, <1>3, <2>1, <2>3
  <2>5. Counted(bufferSpace)' >= -(garbled' + Asking')
    BY <1>1, <1>2, <1>3, <2>1, <2>2, <2>3
  <2> QED BY <1>0, <1>1, <2>1, <2>2, <2>4, <2>5 DEF Account
<1>7. CASE packet.kind # "command"
  <2>1. UNCHANGED <<held, discarded>> /\ Owed = 0
    BY <1>t, <1>7 DEF Taken, Owed
  <2>2. Room' = Room /\ ~discarded'
    BY <1>1, <2>1 DEF Room, Size
  <2>3. at' # "send"
    BY <1>0, <1>1, <1>7
  <2>4. Asking \in {0, 1} /\ (packet.kind # "space" => Asking = 0)
    BY DEF Asking
  <2>5. CASE bufferSpace' = Room /\ garbled' = garbled
    <3>1. Counted(bufferSpace)' = Room
      BY <1>2, <1>5, <2>5
    <3>2. Counted(bufferSpace)' + Owed' <= Room' /\ Counted(bufferSpace)' >= -(garbled' + Asking')
      BY <1>1, <1>3, <2>2, <2>5, <3>1
    <3> QED BY <2>2, <2>3, <3>2 DEF Account
  <2>6. CASE /\ bufferSpace' = bufferSpace
             /\ \/ garbled' = garbled /\ Asking = 0
                \/ garbled' = garbled + 1
    <3>1. Counted(bufferSpace)' = Counted(bufferSpace)
      BY <1>2, <2>6
    <3>2. Counted(bufferSpace)' + Owed' <= Room'
      BY <1>1, <1>2, <1>3, <2>1, <2>2, <3>1
    <3>3. Counted(bufferSpace)' >= -(garbled' + Asking')
      BY <1>1, <1>2, <1>3, <2>4, <2>6, <3>1
    <3> QED BY <2>2, <2>3, <3>2, <3>3 DEF Account
  <2> QED BY <1>4, <2>4, <2>5, <2>6
<1> QED
  BY <1>6, <1>7

LEMMA AccountStep ==
  ASSUME Typed, Framed, Account, RoomKnown', [Next]_vars
  PROVE  Account'
<1>1. CASE Update
  BY <1>1, AccountKept DEF Update, At, Frame
<1>2. CASE FillQueue
  BY <1>2, AccountKept DEF FillQueue, At, Frame
<1>3. CASE ProcessQueue
  <2>1. BeginPacket(Query("space"), TRUE) /\ at' # "send" /\ packet = NoPacket
        /\ UNCHANGED printerVars
    BY <1>3 DEF ProcessQueue, At, Frame
  <2> QED BY <2>1, AccountQuery
<1>4. CASE Decide
  <2>0. /\ UNCHANGED <<bufferSpace, packet, printerVars>> /\ packet = NoPacket
        /\ at = "decide" /\ at' = IF queue # <<>> /\ AsInt(bufferSpace) > RefillAbove
                                  THEN "send" ELSE "poll"
    BY <1>4 DEF Decide, At, Frame
  <2>1. CASE at' = "poll"
    BY <2>0, <2>1, AccountKept
  <2>2. CASE AsInt(bufferSpace) > RefillAbove
    <3>1. /\ Counted(bufferSpace) <= Room /\ Counted(bufferSpace) >= -garbled
          /\ Asking = 0 /\ Owed = 0 /\ garbled \in Nat /\ garbled <= MaxGarbled
          /\ Room \in Nat /\ Room <= BufferSize /\ bufferSpace \in 0..(Word - 1)
      <4>1. Asking = 0 /\ Owed = 0
        BY <2>0, NoPacketFacts DEF Asking, Owed
      <4>2. /\ Counted(bufferSpace) + 0 <= Room /\ Counted(bufferSpace) >= -(garbled + 0)
            /\ garbled \in Nat /\ garbled <= MaxGarbled
            /\ Room \in Nat /\ Room <= BufferSize /\ bufferSpace \in 0..(Word - 1)
        BY <4>1, RoomFacts DEF Account
      <4>3. Counted(bufferSpace) \in Int
        BY <4>2, Constants DEF Counted
      <4> QED BY <4>1, <4>2, <4>3
    <3>2. Counted(bufferSpace) >= -MaxGarbled
      BY <3>1, Constants DEF Counted
    <3>3. AsInt(bufferSpace) <= Counted(bufferSpace) /\ AsInt(bufferSpace) \in Int
          /\ (AsInt(bufferSpace) >= 0 => bufferSpace = AsInt(bufferSpace))
      BY <3>1, <3>2, CountedFacts, Constants DEF AsInt
    <3>4. bufferSpace \in Margin..BufferSize
      BY <2>2, <3>1, <3>3, CountedFacts, <3>2, Constants
    <3>5. Room' = Room
      BY <2>0, PrinterKept, TypedParts
    <3>6. Owed' = Owed /\ Asking' = Asking /\ Counted(bufferSpace)' = Counted(bufferSpace)
      BY <2>0 DEF Owed, Asking, Counted, Size
    <3>7. packet.kind # "command"
      BY <2>0, NoPacketFacts
    <3> QED BY <2>0, <3>4, <3>5, <3>6, <3>7 DEF Account, printerVars
  <2> QED BY <2>0, <2>1, <2>2
<1>5. CASE SendCommands
  <2>0. packet = NoPacket /\ at = "send" /\ UNCHANGED printerVars
    BY <1>5 DEF SendCommands, At, Frame
  <2>1. CASE /\ queue # <<>> /\ Fits(Head(queue)) /\ at' = at
             /\ BeginPacket(Sending(Head(queue)), TRUE)
    <3>1. Head(queue) \in RealCommand
      BY <2>1 DEF Typed, Real
    <3> QED BY <2>0, <2>1, <3>1, AccountCommand
  <2>2. CASE at' = "poll" /\ UNCHANGED <<bufferSpace, packet>>
    <3>1. Room' = Room
      BY <2>0, PrinterKept, TypedParts
    <3>2. Owed' = Owed /\ Asking' = Asking /\ Counted(bufferSpace)' = Counted(bufferSpace)
      BY <2>2 DEF Owed, Asking, Counted, Size
    <3>3. packet.kind # "command"
      BY <2>0, NoPacketFacts
    <3> QED BY <2>0, <2>2, <3>1, <3>2, <3>3 DEF Account, printerVars
  <2> QED BY <1>5, <2>1, <2>2 DEF SendCommands
<1>6. CASE Poll
  BY <1>6, AccountKept DEF Poll, At, Frame
<1>7. CASE SendQueries
  <2>0. packet = NoPacket /\ at = "query" /\ at' # "send" /\ UNCHANGED printerVars
    BY <1>7 DEF SendQueries, At, Frame
  <2>1. CASE \E kind \in {"version", "tool"} : BeginPacket(Query(kind), FALSE)
    <3>1. PICK kind \in {"version", "tool"} : BeginPacket(Query(kind), FALSE)
      BY <2>1
    <3>2. FALSE = (kind = "space") /\ kind \in {"version", "tool", "space"}
      OBVIOUS
    <3> QED BY <2>0, <3>1, <3>2, AccountQuery
  <2>2. CASE BeginPacket(Query("space"), TRUE)
    BY <2>0, <2>2, AccountQuery
  <2> QED BY <1>7, <2>1, <2>2 DEF SendQueries
<1>8. CASE Attempt
  BY <1>8, AccountAttempt
<1>9. CASE PortLost
  BY <1>9, AccountKept DEF PortLost
<1>10. CASE ClientCommand
  BY <1>10, AccountKept
  DEF ClientCommand, GCodeAppend, GCodeClear, GCodeStartPrint, GCodeStopPrint, CommandFrame
<1>11. CASE PrinterExecutes
  <2>1. /\ held # <<>> /\ held' = Tail(held) /\ held \in Seq(RealCommand)
        /\ UNCHANGED <<bufferSpace, packet, at, discarded, garbled>>
    BY <1>11 DEF PrinterExecutes, driverVars, Typed, Real
  <2>2. Load(held) = Size(Head(held)) + Load(held')
    BY <2>1, LoadTail
  <2>3. held' \in Seq(RealCommand) /\ Head(held) \in RealCommand
    BY <2>1
  <2>4. Load(held) \in Nat /\ Load(held') \in Nat /\ Size(Head(held)) \in Nat
    BY <2>1, <2>3, LoadType, SizeType
  <2>5. Room' = BufferSize - Load(held') /\ Room = BufferSize - Load(held)
    BY DEF Room, Load, Sizes, Size
  <2>6. Room' >= Room /\ Room' \in Int /\ Room \in Int
    BY <2>2, <2>4, <2>5, Constants
  <2>7. Owed' = Owed /\ Asking' = Asking /\ Counted(bufferSpace)' = Counted(bufferSpace)
    BY <2>1 DEF Owed, Asking, Counted, Size
  <2>8. Owed \in Int /\ Counted(bufferSpace) \in Int
    BY RoomFacts, Constants DEF Owed, Counted
  <2>9. Counted(bufferSpace)' + Owed' <= Room'
    BY <2>6, <2>7, <2>8 DEF Account
  <2> QED BY <2>1, <2>7, <2>9 DEF Account
<1>12. CASE UNCHANGED vars
  BY <1>12, AccountKept DEF vars, driverVars
<1> QED
  BY <1>1, <1>2, <1>3, <1>4, <1>5, <1>6, <1>7, <1>8, <1>9, <1>10, <1>11, <1>12
  DEF Next, UpdateStep

LEMMA BooksInit == Init => Books
BY FramedInit, AccountInit DEF Books

LEMMA BooksStep ==
  ASSUME Typed, Books, [Next]_vars
  PROVE  Books'
<1>1. Framed'
  BY FramedStep DEF Books
<1>2. RoomKnown' => RoomKnown
  BY SufferedGrows DEF RoomKnown
<1>3. ASSUME RoomKnown'
      PROVE  Account'
  BY <1>2, <1>3, AccountStep DEF Books
<1> QED
  BY <1>1, <1>3 DEF Books

LEMMA AccountedAlways == Spec => []Accounted
<1>1. Init => Accounted
  BY TypedInit, BooksInit DEF Accounted
<1>2. Accounted /\ [Next]_vars => Accounted'
  BY TypedStep, BooksStep DEF Accounted
<1> QED
  BY <1>1, <1>2, PTL DEF Spec

(* As long as the driver knows the room, what it counts down is never more *)
(* than the printer has, whatever else is damaged: no "Action buffer       *)
(* overflow".                                                              *)
THEOREM NeverOverflows == Spec => []NoOverflow
<1>1. ASSUME Accounted, RoomKnown
      PROVE  ~discarded /\ (packet = NoPacket => AsInt(bufferSpace) <= Room)
  <2>1. Typed /\ Account
    BY <1>1 DEF Accounted, Books
  <2>2. ASSUME packet = NoPacket
        PROVE  AsInt(bufferSpace) <= Room
    <3>1. Asking = 0 /\ Owed = 0
      BY <2>2, NoPacketFacts DEF Asking, Owed
    <3>2. /\ Counted(bufferSpace) + 0 <= Room /\ Counted(bufferSpace) >= -(garbled + 0)
          /\ garbled \in Nat /\ garbled <= MaxGarbled
          /\ Room \in Nat /\ bufferSpace \in 0..(Word - 1)
      BY <2>1, <3>1, RoomFacts DEF Account
    <3>3. Counted(bufferSpace) \in Int /\ AsInt(bufferSpace) \in Int
      BY <3>2, Constants DEF Counted, AsInt
    <3>4. Counted(bufferSpace) >= -MaxGarbled
      BY <3>2, <3>3, Constants
    <3>5. AsInt(bufferSpace) <= Counted(bufferSpace)
      BY <3>2, <3>4, CountedFacts
    <3> QED BY <3>2, <3>3, <3>5
  <2> QED BY <2>1, <2>2 DEF Account
<1>2. Accounted => NoOverflow
  BY <1>1 DEF NoOverflow
<1> QED
  BY <1>2, AccountedAlways, PTL

-----------------------------------------------------------------------------
(* The order of the commands *)

AnyCommand == RealCommand \cup {NoCommand}

LEMMA CommandFacts ==
  /\ NoCommand \in AnyCommand /\ RealCommand \subseteq AnyCommand
  /\ \A c \in AnyCommand : c.line \in 0..MaxLines /\ c.part \in Nat
  /\ \A c \in RealCommand : c.line \in 1..MaxLines
<1>1. 0 \in 0..MaxLines /\ 0 \in Nat
  BY Constants
<1>2. NoCommand.line = 0 /\ NoCommand.part = 0
  BY DEF NoCommand
<1>3. \A c \in RealCommand : c.line \in 1..MaxLines /\ c.part \in Nat
  BY DEF RealCommand, Command
<1>4. \A n \in 1..MaxLines : n \in 0..MaxLines
  BY Constants
<1> QED
  BY <1>1, <1>2, <1>3, <1>4 DEF AnyCommand

LEMMA LastOfType ==
  ASSUME NEW c \in AnyCommand, NEW q \in Seq(RealCommand)
  PROVE  LastOf(c, q) \in AnyCommand
<1>1. ASSUME q # <<>>
      PROVE  q[Len(q)] \in RealCommand
  BY <1>1
<1> QED
  BY <1>1 DEF LastOf, AnyCommand

LEMMA ConcatFacts ==
  ASSUME NEW S, NEW s \in Seq(S), NEW t \in Seq(S)
  PROVE  /\ s \o t \in Seq(S) /\ Len(s \o t) = Len(s) + Len(t)
         /\ \A i \in 1..Len(s) : (s \o t)[i] = s[i]
         /\ \A i \in (Len(s) + 1)..(Len(s) + Len(t)) : (s \o t)[i] = t[i - Len(s)]
OBVIOUS

(* What the commands of the next line add to a chain *)
LEMMA ExtendChain ==
  ASSUME NEW c \in AnyCommand, NEW q \in Seq(RealCommand), NEW m \in Nat,
         m + 1 \in 1..MaxLines,
         Chain(c, q), Ended(LastOf(c, q), m)
  PROVE  /\ Chain(c, q \o CommandsOf(m + 1))
         /\ Ended(LastOf(c, q \o CommandsOf(m + 1)), m + 1)
<1> DEFINE d == LastOf(c, q)
           e == CommandsOf(m + 1)
           k == Len(PacketsOf[m + 1])
           r == q \o e
<1>1. /\ PacketsOf[m + 1] \in Seq(1..Largest) /\ k \in Nat
      /\ e \in Seq(RealCommand) /\ Len(e) = k
      /\ \A p \in 1..k : e[p].line = m + 1 /\ e[p].part = p
  <2>1. /\ PacketsOf[m + 1] \in Seq(1..Largest) /\ k \in Nat
        /\ e \in Seq(RealCommand) /\ Len(e) = k
        /\ \A p \in 1..k : e[p] = [line |-> m + 1, part |-> p]
    BY CommandsOfFacts
  <2> HIDE DEF e, k
  <2> QED BY <2>1
<1>2. /\ d.line \in Nat /\ d.line <= m
      /\ d = NoCommand \/ d.part = Len(PacketsOf[d.line]) \/ d.line <= givenUp
      /\ \A n \in (d.line + 1)..m : PacketsOf[n] = <<>> \/ n <= givenUp
  <2>1. d \in AnyCommand
    BY LastOfType
  <2> QED
    BY <2>1, CommandFacts, Constants DEF Ended
<1>3. CASE k = 0
  <2>1. e = <<>>
    <3> HIDE DEF e, k
    <3> QED BY <1>1, <1>3
  <2>2. PacketsOf[m + 1] = <<>>
    <3> DEFINE s == PacketsOf[m + 1]
    <3> HIDE DEF s
    <3>1. s \in Seq(1..Largest) /\ Len(s) = 0
      BY <1>1, <1>3 DEF s
    <3> QED BY <3>1 DEF s
  <2>3. r = q
    BY <2>1
  <2>4. Ended(d, m + 1)
    <3>1. \A n \in (d.line + 1)..(m + 1) : n = m + 1 \/ n \in (d.line + 1)..m
      BY <1>2
    <3> HIDE DEF d
    <3> QED BY <1>2, <2>2, <3>1 DEF Ended
  <2> QED BY <2>3, <2>4
<1>4. CASE k >= 1
  <2> DEFINE L == Len(q)
  <2>0. L \in Nat
    OBVIOUS
  <2>1. /\ r \in Seq(RealCommand) /\ Len(r) = L + k
        /\ \A i \in 1..L : r[i] = q[i]
        /\ \A i \in (L + 1)..(L + k) : r[i] = e[i - L]
    <3> HIDE DEF e, k
    <3>1. e \in Seq(RealCommand) /\ Len(e) = k
      BY <1>1
    <3> QED BY <3>1, ConcatFacts
  <2> HIDE DEF r, e, k
  <2>2. \A i \in 1..(L + k) : Follows(Before(c, r, i), r[i])
    <3> SUFFICES ASSUME NEW i \in 1..(L + k)
                 PROVE  Follows(Before(c, r, i), r[i])
      OBVIOUS
    <3>1. CASE i <= L
      <4>1. i \in 1..L /\ r[i] = q[i]
        BY <2>0, <2>1, <3>1
      <4>2. Before(c, r, i) = Before(c, q, i)
        <5>1. CASE i = 1
          BY <5>1 DEF Before
        <5>2. CASE i # 1
          <6>1. i - 1 \in 1..L
            BY <2>0, <4>1, <5>2
          <6> QED BY <2>1, <5>2, <6>1 DEF Before
        <5> QED BY <5>1, <5>2
      <4> QED BY <4>1, <4>2 DEF Chain
    <3>2. CASE i = L + 1
      <4>0. i \in (L + 1)..(L + k) /\ i - L = 1 /\ 1 \in 1..k
        BY <1>1, <1>4, <2>0, <3>2
      <4>1. r[i] = e[1] /\ e[1].line = m + 1 /\ e[1].part = 1
        BY <1>1, <2>1, <4>0
      <4>2. Before(c, r, i) = d
        <5>1. CASE L = 0
          <6>1. q = <<>> /\ i = 1
            BY <3>2, <5>1
          <6> QED BY <6>1 DEF Before, LastOf
        <5>2. CASE L # 0
          <6>1. q # <<>> /\ i # 1 /\ i - 1 = L /\ L \in 1..L
            BY <2>0, <3>2, <5>2
          <6>2. r[i - 1] = q[L]
            BY <2>1, <6>1
          <6> QED BY <6>1, <6>2 DEF Before, LastOf
        <5> QED BY <5>1, <5>2
      <4> HIDE DEF d
      <4>3. m + 1 > d.line /\ (m + 1) - 1 = m
        BY <1>2
      <4> QED BY <1>2, <4>1, <4>2, <4>3 DEF Follows
    <3>3. CASE i > L + 1
      <4>1. /\ i - L \in 1..k /\ (i - 1) - L \in 1..k /\ i - 1 \in (L + 1)..(L + k)
            /\ i \in (L + 1)..(L + k) /\ i # 1
            /\ i - L = ((i - 1) - L) + 1
        BY <1>1, <2>0, <3>3
      <4>2. r[i] = e[i - L] /\ r[i - 1] = e[(i - 1) - L]
        BY <2>1, <4>1
      <4>3. /\ r[i].line = m + 1 /\ r[i].part = i - L
            /\ r[i - 1].line = m + 1 /\ r[i - 1].part = (i - 1) - L
        BY <1>1, <4>1, <4>2
      <4>4. Before(c, r, i) = r[i - 1]
        BY <4>1 DEF Before
      <4> QED BY <4>1, <4>3, <4>4 DEF Follows
    <3> QED BY <2>0, <3>1, <3>2, <3>3
  <2>3. Chain(c, r)
    BY <2>1, <2>2 DEF Chain
  <2>4. Ended(LastOf(c, r), m + 1)
    <3>1. L + k \in (L + 1)..(L + k) /\ (L + k) - L = k /\ k \in 1..k /\ L + k # 0
      BY <1>1, <1>4, <2>0
    <3>2. r # <<>> /\ r[Len(r)] = e[k]
      BY <2>1, <3>1
    <3>3. LastOf(c, r) = e[k] /\ e[k].line = m + 1 /\ e[k].part = k
      BY <1>1, <3>1, <3>2 DEF LastOf
    <3>4. (m + 1 + 1)..(m + 1) = {} /\ m + 1 <= m + 1
      OBVIOUS
    <3> QED BY <3>3, <3>4 DEF Ended, k
  <2> QED BY <2>3, <2>4 DEF r, e
<1> QED
  BY <1>1, <1>3, <1>4

LEMMA ConvertedNext ==
  ASSUME NEW lines \in Seq(1..MaxLines), NEW j \in 0..(Len(lines) - 1)
  PROVE  Converted(SubSeq(lines, 1, j + 1)) =
           Converted(SubSeq(lines, 1, j)) \o CommandsOf(lines[j + 1])
<1> DEFINE C(n) == [i \in 1..Len(SubSeq(lines, 1, n)) |-> CommandsOf(SubSeq(lines, 1, n)[i])]
           D(n) == [i \in 1..n |-> CommandsOf(lines[i])]
<1>0. j \in Nat /\ j + 1 \in 1..Len(lines)
  OBVIOUS
<1>1. \A i \in 1..Len(lines) : CommandsOf(lines[i]) \in Seq(RealCommand)
  <2>1. \A i \in 1..Len(lines) : lines[i] \in 1..MaxLines
    BY ElementOfSeq
  <2> QED BY <2>1, CommandsOfFacts
<1>2. \A n \in 0..Len(lines) : C(n) = D(n)
  <2> SUFFICES ASSUME NEW n \in 0..Len(lines) PROVE C(n) = D(n)
    OBVIOUS
  <2>1. Len(SubSeq(lines, 1, n)) = n /\ \A i \in 1..n : SubSeq(lines, 1, n)[i] = lines[i]
    OBVIOUS
  <2> QED BY <2>1
<1>3. D(j) \in Seq(Seq(RealCommand)) /\ Len(D(j)) = j
  <2>1. \A i \in 1..j : CommandsOf(lines[i]) \in Seq(RealCommand)
    BY <1>0, <1>1
  <2> QED BY <1>0, <2>1
<1>4. D(j + 1) = Append(D(j), CommandsOf(lines[j + 1]))
  BY <1>0, <1>3
<1>5. Converted(SubSeq(lines, 1, j)) = SX!FlattenSeq(D(j))
      /\ Converted(SubSeq(lines, 1, j + 1)) = SX!FlattenSeq(D(j + 1))
  <2>1. j \in 0..Len(lines) /\ j + 1 \in 0..Len(lines)
    BY <1>0
  <2>2. C(j) = D(j) /\ C(j + 1) = D(j + 1)
    BY <1>2, <2>1
  <2> QED BY <2>2 DEF Converted
<1> DEFINE before == D(j)
           next   == CommandsOf(lines[j + 1])
<1>6. next \in Seq(RealCommand) /\ before \in Seq(Seq(RealCommand))
  BY <1>0, <1>1, <1>3
<1>7. D(j + 1) = Append(before, next)
  BY <1>4
<1> HIDE DEF before, next
<1>8. SX!FlattenSeq(Append(before, next)) = SX!FlattenSeq(before) \o next
  BY <1>6, FlattenAppend
<1> QED
  BY <1>5, <1>7, <1>8 DEF before, next

LEMMA ConvertedEmpty == Converted(<<>>) = <<>>
<1>1. [i \in 1..Len(<<>>) |-> CommandsOf(<<>>[i])] = <<>>
  OBVIOUS
<1> QED
  BY <1>1, FlattenEmpty DEF Converted

LEMMA InitialType ==
  ASSUME NEW S, NEW s \in Seq(S), NEW n \in 0..Len(s)
  PROVE  SubSeq(s, 1, n) \in Seq(S)
OBVIOUS

(* What the commands of some lines add: one line after the other *)
LEMMA ExtendLines ==
  ASSUME NEW c \in AnyCommand, NEW q \in Seq(RealCommand), NEW m \in Nat, NEW top \in Nat,
         NEW lines \in Seq(1..MaxLines), m + Len(lines) <= top,
         \A i \in 1..Len(lines) : lines[i] = m + i,
         Chain(c, q), Ended(LastOf(c, q), m),
         \A i \in 1..Len(q) : q[i].line <= top,
         NEW n \in 0..Len(lines)
  PROVE  LET r == q \o Converted(SubSeq(lines, 1, n))
         IN  /\ Chain(c, r) /\ Ended(LastOf(c, r), m + n)
             /\ \A i \in 1..Len(r) : r[i].line <= top
<1> DEFINE N == Len(lines)
           r(j) == q \o Converted(SubSeq(lines, 1, j))
           Good(j) == /\ r(j) \in Seq(RealCommand)
                      /\ Chain(c, r(j)) /\ Ended(LastOf(c, r(j)), m + j)
                      /\ \A i \in 1..Len(r(j)) : r(j)[i].line <= top
           P == {j \in 0..N : Good(j)}
<1>0. N \in Nat /\ \A j \in 0..N : SubSeq(lines, 1, j) \in Seq(1..MaxLines)
  <2>1. N \in Nat
    OBVIOUS
  <2>2. ASSUME NEW j \in 0..N
        PROVE  SubSeq(lines, 1, j) \in Seq(1..MaxLines)
    BY InitialType
  <2> QED BY <2>1, <2>2
<1>1. 0 \in P
  <2>1. SubSeq(lines, 1, 0) = <<>>
    BY SubSeqEmpty
  <2>2. r(0) = q
    <3>1. q \o <<>> = q
      BY ConcatEmptySeq
    <3>2. Converted(SubSeq(lines, 1, 0)) = <<>>
      BY <2>1, ConvertedEmpty
    <3> QED BY <3>1, <3>2
  <2>3. Good(0)
    <3> HIDE DEF r
    <3>1. m + 0 = m
      OBVIOUS
    <3> QED BY <2>2, <3>1
  <2> HIDE DEF Good
  <2> QED BY <1>0, <2>3
<1>2. ASSUME NEW j \in Nat, j < N, j \in P
      PROVE  j + 1 \in P
  <2> DEFINE d == Converted(SubSeq(lines, 1, j))
             e == CommandsOf(lines[j + 1])
  <2>1. Good(j) /\ j \in 0..(N - 1) /\ j + 1 \in 1..N /\ j + 1 \in 0..N /\ j \in 0..N
    <3> HIDE DEF Good
    <3>1. Good(j)
      BY <1>2
    <3> QED BY <1>0, <1>2, <3>1
  <2>2. lines[j + 1] = (m + j) + 1 /\ lines[j + 1] \in 1..MaxLines /\ m + j \in Nat
    <3> HIDE DEF Good, d, e, P
    <3>1. j + 1 \in 1..Len(lines)
      BY <2>1
    <3>2. lines[j + 1] = m + (j + 1) /\ lines[j + 1] \in 1..MaxLines
      BY <3>1, ElementOfSeq
    <3> QED BY <1>2, <3>2
  <2>3. Converted(SubSeq(lines, 1, j + 1)) = d \o e
    BY <2>1, ConvertedNext
  <2>4. /\ d \in Seq(RealCommand) /\ e \in Seq(RealCommand)
        /\ \A i \in 1..Len(e) : e[i].line = lines[j + 1]
    <3>1. d \in Seq(RealCommand)
      BY <1>0, <2>1, ConvertedType
    <3>2. /\ e \in Seq(RealCommand) /\ Len(e) = Len(PacketsOf[lines[j + 1]])
          /\ \A p \in 1..Len(PacketsOf[lines[j + 1]]) : e[p] = [line |-> lines[j + 1], part |-> p]
      BY <2>2, CommandsOfFacts
    <3> DEFINE k == Len(PacketsOf[lines[j + 1]])
               l == lines[j + 1]
    <3>3. /\ e \in Seq(RealCommand) /\ Len(e) = k
          /\ \A p \in 1..k : e[p] = [line |-> l, part |-> p]
      BY <3>2
    <3> HIDE DEF d, e, k, l
    <3>4. \A i \in 1..Len(e) : e[i].line = l
      BY ONLY <3>3
    <3> QED BY ONLY <3>1, <3>3, <3>4 DEF l
  <2>5. /\ Chain(c, r(j) \o CommandsOf((m + j) + 1))
        /\ Ended(LastOf(c, r(j) \o CommandsOf((m + j) + 1)), (m + j) + 1)
    <3>1. /\ r(j) \in Seq(RealCommand) /\ Chain(c, r(j)) /\ Ended(LastOf(c, r(j)), m + j)
      BY <2>1
    <3> HIDE DEF r
    <3> QED BY <2>2, <3>1, ExtendChain
  <2>6. r(j + 1) = r(j) \o e /\ e = CommandsOf((m + j) + 1)
    <3>1. e = CommandsOf((m + j) + 1) /\ r(j + 1) = q \o (d \o e) /\ r(j) \o e = (q \o d) \o e
      BY <2>2, <2>3
    <3> HIDE DEF d, e, r
    <3>0. d \in Seq(RealCommand) /\ e \in Seq(RealCommand)
      BY <2>4
    <3>2. q \o (d \o e) = (q \o d) \o e
      BY ONLY <3>0, q \in Seq(RealCommand)
    <3> QED BY ONLY <3>1, <3>2
  <2>7. lines[j + 1] \in Nat /\ lines[j + 1] <= top
    BY <1>0, <2>1, <2>2
  <2>8. /\ r(j) \in Seq(RealCommand)
        /\ \A i \in 1..Len(r(j)) : r(j)[i].line <= top
    BY <2>1
  <2> DEFINE s == r(j)
             t == r(j + 1)
             l == lines[j + 1]
  <2> HIDE DEF e, d
  <2>4a. \A i \in 1..Len(e) : e[i].line = l
    BY <2>4
  <2>9. t = s \o e /\ s \in Seq(RealCommand) /\ e \in Seq(RealCommand)
        /\ \A i \in 1..Len(s) : s[i].line <= top
    BY <2>4, <2>6, <2>8
  <2>10. Chain(c, t) /\ Ended(LastOf(c, t), m + (j + 1))
    <3>1. (m + j) + 1 = m + (j + 1)
      BY <2>2
    <3>2. t = r(j) \o CommandsOf((m + j) + 1)
      BY <2>6
    <3> HIDE DEF t, r
    <3> QED BY <2>5, <3>1, <3>2
  <2> HIDE DEF s, t, r, l
  <2>11. /\ t \in Seq(RealCommand) /\ Len(t) = Len(s) + Len(e)
         /\ \A i \in 1..Len(s) : t[i] = s[i]
         /\ \A i \in (Len(s) + 1)..(Len(s) + Len(e)) : t[i] = e[i - Len(s)]
    BY <2>9, ConcatFacts
  <2>12. ASSUME NEW i \in 1..Len(t)
         PROVE  t[i].line <= top
    <3>0. Len(s) \in Nat /\ Len(e) \in Nat
      BY <2>9
    <3>1. CASE i <= Len(s)
      BY <2>9, <2>11, <3>0, <3>1
    <3>2. CASE i > Len(s)
      <4> DEFINE x == i - Len(s)
      <4>1. i \in (Len(s) + 1)..(Len(s) + Len(e)) /\ x \in 1..Len(e)
        BY <2>11, <3>0, <3>2
      <4>2. t[i] = e[x]
        BY <2>11, <4>1
      <4> HIDE DEF x
      <4>3. e[x].line = l
        BY ONLY <2>4a, <4>1
      <4> QED BY <2>7, <4>2, <4>3 DEF l
    <3> QED BY <2>11, <3>0, <3>1, <3>2
  <2>13. Good(j + 1)
    BY <2>10, <2>11, <2>12 DEF t
  <2> HIDE DEF Good
  <2> QED BY <2>1, <2>13
<1>3. n \in P
  <2> HIDE DEF P
  <2>1. \A j \in 0..N : j \in P
    BY <1>0, <1>1, <1>2, NatSetInduction
  <2> QED BY <2>1
<1> QED
  BY <1>3

LEMMA OrderedFacts ==
  ASSUME Typed
  PROVE  /\ queue \in Seq(RealCommand) /\ gcode \in Seq(1..MaxLines)
         /\ appended \in Nat /\ appended <= MaxLines /\ givenUp \in Nat
         /\ last \in AnyCommand /\ Sent \in AnyCommand
         /\ last.line \in Nat /\ Sent.line \in Nat
<1>1. TypedPacket /\ TypedLines /\ TypedPrinter
  BY TypedParts
<1>2. last \in AnyCommand /\ Sent \in AnyCommand
  BY <1>1 DEF TypedPrinter, TypedPacket, Sent, AnyCommand
<1>3. \A n \in 0..MaxLines : n \in Nat /\ n <= MaxLines
  BY Constants
<1>4. last.line \in Nat /\ Sent.line \in Nat
  BY <1>2, <1>3, CommandFacts
<1> QED
  BY <1>1, <1>2, <1>3, <1>4 DEF TypedLines

LEMMA OrderedInit ==
  ASSUME Init
  PROVE  Ordered
<1>1. gcode = <<>> /\ queue = <<>> /\ packet = NoPacket /\ last = NoCommand /\ appended = 0
  BY DEF Init
<1>2. Sent = NoCommand /\ NoCommand.line = 0 /\ packet.kind # "command"
  BY <1>1, NoPacketFacts DEF Sent, NoCommand
<1>3. Len(gcode) = 0 /\ Len(queue) = 0
  BY <1>1
<1>4. LastOf(Sent, queue) = NoCommand
  BY <1>1, <1>2 DEF LastOf
<1>5. Ended(NoCommand, 0)
  <2>1. (0 + 1)..0 = {}
    OBVIOUS
  <2> QED BY <1>2, <2>1 DEF Ended
<1>6. appended - Len(gcode) = 0 /\ Len(gcode) <= appended /\ 1..Len(gcode) = {}
      /\ 1..Len(queue) = {} /\ last.line <= appended /\ Sent.line <= appended
  <2>1. last.line = 0 /\ Sent.line = 0 /\ appended = 0
    BY <1>1, <1>2
  <2>2. 1..Len(gcode) = {} /\ 1..Len(queue) = {}
    BY <1>3
  <2>3. appended - Len(gcode) = 0 /\ Len(gcode) <= appended
    BY <1>3, <2>1
  <2> QED BY <2>1, <2>2, <2>3
<1>7. Chain(Sent, queue)
  BY <1>6 DEF Chain
<1> QED
  BY <1>2, <1>4, <1>5, <1>6, <1>7 DEF Ordered

LEMMA OrderedKept ==
  ASSUME Ordered, UNCHANGED <<gcode, queue, last, appended, givenUp>>,
         Sent' = Sent, packet'.kind # "command"
  PROVE  Ordered'
<1>1. Chain(Sent, queue)' <=> Chain(Sent, queue)
  BY DEF Chain, Follows, Before
<1>2. Ended(LastOf(Sent, queue), appended - Len(gcode))' <=>
      Ended(LastOf(Sent, queue), appended - Len(gcode))
  BY DEF Ended, LastOf
<1> QED
  BY <1>1, <1>2 DEF Ordered

(* Steps in which no packet is begun or answered *)
LEMMA OrderedSame ==
  ASSUME Ordered, UNCHANGED <<gcode, queue, last, appended, givenUp, packet>>,
         suffered \subseteq suffered'
  PROVE  Ordered'
<1>1. Chain(Sent, queue)' <=> Chain(Sent, queue)
  BY DEF Chain, Follows, Before, Sent
<1>2. Ended(LastOf(Sent, queue), appended - Len(gcode))' <=>
      Ended(LastOf(Sent, queue), appended - Len(gcode))
  BY DEF Ended, LastOf, Sent
<1>3. MaySend(packet.command) => MaySend(packet.command)'
  BY DEF MaySend, Follows
<1>4. Sent' = Sent
  BY DEF Sent
<1> QED
  BY <1>1, <1>2, <1>3, <1>4 DEF Ordered

LEMMA NotSending ==
  ASSUME packet = NoPacket
  PROVE  Sent = last /\ packet.kind # "command"
BY NoPacketFacts DEF Sent

LEMMA OrderedFill ==
  ASSUME Typed, Ordered, FillQueue
  PROVE  Ordered'
<1>0. /\ packet = NoPacket /\ packet' = NoPacket
      /\ UNCHANGED <<last, appended, givenUp, suffered>>
  BY DEF FillQueue, At, Frame, printerVars
<1>1. CASE UNCHANGED <<gcode, queue>>
  BY <1>0, <1>1, OrderedSame
<1>2. CASE \E n \in 1..Smaller(CvtLines, Len(gcode)) :
             /\ queue' = queue \o Converted(SubSeq(gcode, 1, n))
             /\ gcode' = SubSeq(gcode, n + 1, Len(gcode))
  <2>1. PICK n \in 1..Smaller(CvtLines, Len(gcode)) :
             /\ queue' = queue \o Converted(SubSeq(gcode, 1, n))
             /\ gcode' = SubSeq(gcode, n + 1, Len(gcode))
    BY <1>2
  <2> DEFINE m == appended - Len(gcode)
  <2>2. /\ gcode \in Seq(1..MaxLines) /\ queue \in Seq(RealCommand) /\ Sent \in AnyCommand
        /\ appended \in Nat
    BY OrderedFacts
  <2>3. n \in 1..Len(gcode) /\ n \in 0..Len(gcode) /\ Len(gcode) \in Nat
    BY <2>2, SizeAssumption DEF Smaller
  <2>4. /\ m \in Nat /\ m + Len(gcode) = appended
        /\ \A i \in 1..Len(gcode) : gcode[i] = m + i
    BY <2>2, <2>3 DEF Ordered
  <2>5. /\ Chain(Sent, queue) /\ Ended(LastOf(Sent, queue), m)
        /\ \A i \in 1..Len(queue) : queue[i].line <= appended
    BY DEF Ordered
  <2> HIDE DEF m
  <2>6. /\ Chain(Sent, queue') /\ Ended(LastOf(Sent, queue'), m + n)
        /\ \A i \in 1..Len(queue') : queue'[i].line <= appended
    <3> DEFINE c == Sent
               q == queue
               g == gcode
               top == appended
    <3>1. /\ c \in AnyCommand /\ q \in Seq(RealCommand) /\ m \in Nat /\ top \in Nat
          /\ g \in Seq(1..MaxLines) /\ m + Len(g) <= top
          /\ \A i \in 1..Len(g) : g[i] = m + i
          /\ Chain(c, q) /\ Ended(LastOf(c, q), m)
          /\ \A i \in 1..Len(q) : q[i].line <= top
          /\ n \in 0..Len(g)
      BY <2>2, <2>3, <2>4, <2>5
    <3>2. queue' = q \o Converted(SubSeq(g, 1, n))
      BY <2>1
    <3> HIDE DEF c, q, g, top
    <3> QED BY <3>1, <3>2, ExtendLines DEF c, top
  <2>7. /\ Len(gcode') = Len(gcode) - n
        /\ \A i \in 1..Len(gcode') : gcode'[i] = gcode[i + n]
    BY <2>1, <2>2, <2>3
  <2>8. appended - Len(gcode') = m + n /\ Len(gcode') <= appended
    <3> DEFINE a == Len(gcode)
               b == Len(gcode')
    <3>1. a \in Nat /\ b = a - n /\ n \in 1..a /\ m \in Nat /\ m + a = appended
      BY <2>3, <2>4, <2>7
    <3> HIDE DEF a, b
    <3>2. appended - b = m + n /\ b <= appended
      BY ONLY <3>1
    <3> QED BY <3>2 DEF b
  <2>9. \A i \in 1..Len(gcode') : gcode'[i] = appended - Len(gcode') + i
    <3> SUFFICES ASSUME NEW i \in 1..Len(gcode')
                 PROVE  gcode'[i] = appended - Len(gcode') + i
      OBVIOUS
    <3>1. i + n \in 1..Len(gcode) /\ i \in Nat
      BY <2>3, <2>7
    <3>2. gcode'[i] = m + (i + n)
      BY <2>4, <2>7, <3>1
    <3> QED BY <2>3, <2>4, <2>8, <3>1, <3>2
  <2>10. Sent' = last /\ Sent = last /\ packet'.kind # "command"
    BY <1>0, NotSending, NoPacketFacts DEF Sent
  <2>11. Chain(Sent, queue)' /\ Ended(LastOf(Sent, queue), appended - Len(gcode))'
    <3>1. Chain(Sent, queue)' <=> Chain(Sent, queue')
      BY <1>0, <2>10 DEF Chain, Follows, Before
    <3>2. Ended(LastOf(Sent, queue), appended - Len(gcode))'
            <=> Ended(LastOf(Sent, queue'), appended - Len(gcode'))
      BY <1>0, <2>10 DEF Ended, LastOf
    <3> QED BY <2>6, <2>8, <3>1, <3>2
  <2> QED
    BY <1>0, <2>6, <2>8, <2>9, <2>10, <2>11 DEF Ordered
<1> QED
  BY <1>1, <1>2 DEF FillQueue

LEMMA OrderedSend ==
  ASSUME Typed, Ordered, packet = NoPacket, queue # <<>>,
         packet' = Sending(Head(queue)), queue' = Tail(queue),
         UNCHANGED <<gcode, last, appended, givenUp>>
  PROVE  Ordered'
<1> DEFINE c == Head(queue)
           t == Tail(queue)
<1>1. queue \in Seq(RealCommand) /\ Sent = last /\ Len(queue) \in Nat /\ Len(queue) >= 1
  BY OrderedFacts, NotSending
<1>2. /\ c = queue[1] /\ c \in RealCommand /\ t \in Seq(RealCommand)
      /\ Len(t) = Len(queue) - 1
      /\ \A i \in 1..Len(t) : t[i] = queue[i + 1]
  BY <1>1
<1>3. packet' = Sending(c) /\ queue' = t
  OBVIOUS
<1> HIDE DEF c, t
<1>4. packet'.kind = "command" /\ packet'.command = c /\ Sent' = c
  BY <1>2, <1>3, SendingType DEF Sent
<1>5. Follows(last, c)
  <2>1. 1 \in 1..Len(queue)
    BY <1>1
  <2> QED BY <1>1, <1>2, <2>1 DEF Ordered, Chain, Before
<1>6. Chain(c, t)
  <2> SUFFICES ASSUME NEW i \in 1..Len(t)
               PROVE  Follows(Before(c, t, i), t[i])
    BY DEF Chain
  <2>1. i + 1 \in 1..Len(queue) /\ i + 1 # 1 /\ (i + 1) - 1 = i
    BY <1>1, <1>2
  <2>2. Follows(Before(Sent, queue, i + 1), queue[i + 1])
    BY <2>1 DEF Ordered, Chain
  <2>3. Before(Sent, queue, i + 1) = queue[i]
    BY <2>1 DEF Before
  <2>4. Before(c, t, i) = queue[i]
    <3>1. CASE i = 1
      BY <1>2, <3>1 DEF Before
    <3>2. CASE i # 1
      <4>1. i - 1 \in 1..Len(t) /\ (i - 1) + 1 = i
        BY <1>1, <1>2, <3>2
      <4>2. t[i - 1] = queue[(i - 1) + 1]
        BY <1>2, <4>1
      <4> QED BY <3>2, <4>1, <4>2 DEF Before
    <3> QED BY <3>1, <3>2
  <2> QED BY <1>2, <2>2, <2>3, <2>4
<1>7. LastOf(c, t) = LastOf(Sent, queue)
  <2>1. LastOf(Sent, queue) = queue[Len(queue)]
    BY DEF LastOf
  <2>2. CASE t = <<>>
    <3>1. Len(queue) = 1
      BY <1>1, <1>2, <2>2
    <3> QED BY <1>2, <2>1, <2>2, <3>1 DEF LastOf
  <2>3. CASE t # <<>>
    <3>1. Len(t) \in 1..Len(t) /\ Len(t) + 1 = Len(queue)
      BY <1>1, <1>2, <2>3
    <3>2. t[Len(t)] = queue[Len(queue)]
      BY <1>2, <3>1
    <3> QED BY <2>1, <2>3, <3>2 DEF LastOf
  <2> QED BY <2>2, <2>3
<1>8. c.line <= appended /\ \A i \in 1..Len(t) : t[i].line <= appended
  <2>1. 1 \in 1..Len(queue) /\ \A i \in 1..Len(t) : i + 1 \in 1..Len(queue)
    BY <1>1, <1>2
  <2> QED BY <1>2, <2>1 DEF Ordered
<1>9. Chain(Sent, queue)' /\ MaySend(packet.command)'
  <2>1. Chain(Sent, queue)' <=> Chain(c, t)
    BY <1>3, <1>4 DEF Chain, Follows, Before
  <2>2. MaySend(packet.command)'
    BY <1>4, <1>5 DEF MaySend, Follows
  <2> QED BY <1>6, <2>1, <2>2
<1>10. Ended(LastOf(Sent, queue), appended - Len(gcode))'
  <2>1. LastOf(Sent, queue)' = LastOf(Sent, queue)
    BY <1>3, <1>4, <1>7 DEF LastOf
  <2>2. Ended(LastOf(Sent, queue), appended - Len(gcode))
    BY DEF Ordered
  <2> QED BY <2>1, <2>2 DEF Ended
<1>11. /\ Len(gcode)' <= appended' /\ last'.line <= appended' /\ Sent'.line <= appended'
       /\ \A i \in 1..Len(gcode') : gcode'[i] = appended' - Len(gcode') + i
       /\ \A i \in 1..Len(queue') : queue'[i].line <= appended'
  BY <1>3, <1>4, <1>8 DEF Ordered
<1> QED
  BY <1>9, <1>10, <1>11 DEF Ordered

(* The command on its way becomes the last one sent; it may be tried again *)
(* by a driver that is out of step.                                        *)
LEMMA OrderedAttempt ==
  ASSUME Typed, Books, Ordered, Attempt
  PROVE  Ordered'
<1>0. Framed /\ UNCHANGED <<gcode, queue, appended, givenUp>>
  BY DEF Books, Attempt
<1>1. last' = Sent
  <2>1. PICK damage \in Outcome : Taken(packet, damage)
    BY <1>0, AttemptFacts
  <2> QED BY <2>1 DEF Taken, Sent
<1>4. Sent' = Sent
  <2>1. CASE packet' = NoPacket
    BY <1>1, <2>1, NoPacketFacts DEF Sent
  <2>2. CASE packet'.kind = packet.kind /\ packet'.command = packet.command
    BY <1>1, <2>2 DEF Sent
  <2> QED BY <1>0, <2>1, <2>2, AttemptFacts
<1>5. packet'.kind = "command" => MaySend(packet.command)'
  <2>1. ASSUME packet'.kind = "command"
        PROVE  packet'.command = Sent' /\ "frame" \in suffered'
    BY <1>0, <2>1, AttemptFacts, NoPacketFacts DEF Sent
  <2> QED BY <1>1, <1>4, <2>1 DEF MaySend
<1>6. Chain(Sent, queue)' <=> Chain(Sent, queue)
  BY <1>0, <1>4 DEF Chain, Follows, Before
<1>7. Ended(LastOf(Sent, queue), appended - Len(gcode))' <=>
      Ended(LastOf(Sent, queue), appended - Len(gcode))
  BY <1>0, <1>4 DEF Ended, LastOf
<1>8. last'.line <= appended'
  BY <1>0, <1>1 DEF Ordered
<1> QED
  BY <1>0, <1>4, <1>5, <1>6, <1>7, <1>8 DEF Ordered

(* A clear or a stop gives up all that has not been sent. *)
LEMMA OrderedGivenUp ==
  ASSUME Typed, Ordered, packet = NoPacket, NEW k \in Nat,
         UNCHANGED <<packet, last>>, queue' = <<>>, givenUp' = appended,
         gcode' = NewLines(k), appended' = appended + k
  PROVE  Ordered'
<1>1. /\ appended \in Nat /\ last.line \in Nat /\ last.line <= appended
      /\ Sent' = last /\ packet'.kind # "command"
  BY OrderedFacts, NoPacketFacts DEF Ordered, Sent
<1>2. /\ Len(gcode') = k /\ \A i \in 1..k : gcode'[i] = appended + i
  BY DEF NewLines
<1>3. appended' - Len(gcode') = appended /\ Len(gcode') <= appended' /\ last.line <= appended'
  BY <1>1, <1>2
<1>4. Chain(Sent, queue)' /\ \A i \in 1..Len(queue') : queue'[i].line <= appended'
  <2>1. 1..Len(queue') = {}
    OBVIOUS
  <2> QED BY <2>1 DEF Chain
<1>5. Ended(LastOf(Sent, queue), appended - Len(gcode))'
  <2>1. LastOf(Sent, queue)' = last
    BY <1>1 DEF LastOf
  <2>2. \A n \in (last.line + 1)..appended : n <= appended
    BY <1>1
  <2> QED BY <1>1, <1>3, <2>1, <2>2 DEF Ended
<1>6. \A i \in 1..Len(gcode') : gcode'[i] = appended' - Len(gcode') + i
  BY <1>2, <1>3
<1> QED
  BY <1>1, <1>3, <1>4, <1>5, <1>6 DEF Ordered

LEMMA OrderedClient ==
  ASSUME Typed, Ordered, ClientCommand
  PROVE  Ordered'
<1>0. packet = NoPacket /\ UNCHANGED <<packet, last, suffered>>
  BY DEF ClientCommand, GCodeAppend, GCodeClear, GCodeStartPrint, GCodeStopPrint,
         CommandFrame, At, printerVars
<1>1. /\ appended \in Nat /\ gcode \in Seq(1..MaxLines) /\ Len(gcode) \in Nat
      /\ last.line \in Nat /\ Sent.line \in Nat
  BY OrderedFacts
<1>2. ASSUME NEW k \in 0..MaxChunk, GCodeAppend(k)
      PROVE  Ordered'
  <2>0. /\ gcode' = gcode \o NewLines(k) /\ appended' = appended + k
        /\ UNCHANGED <<queue, givenUp>> /\ k \in Nat
    BY <1>2, Constants DEF GCodeAppend
  <2> DEFINE new == NewLines(k)
             old == gcode
             n   == Len(old)
             d   == appended - n
  <2>1. /\ new \in Seq(Nat) /\ Len(new) = k /\ \A i \in 1..k : new[i] = appended + i
    BY <1>1, <2>0 DEF NewLines
  <2>2. old \in Seq(Nat) /\ n \in Nat
    <3>1. \A i \in 1..Len(gcode) : gcode[i] \in 1..MaxLines
      BY <1>1, ElementOfSeq
    <3>2. \A i \in 1..Len(gcode) : gcode[i] \in Nat
      BY <3>1, Constants
    <3> QED BY <1>1, <3>2
  <2>3. gcode' = old \o new
    BY <2>0
  <2>4. \A i \in 1..n : old[i] = d + i
    BY DEF Ordered
  <2>5. n <= appended
    BY DEF Ordered
  <2> HIDE DEF new, old
  <2>6. /\ Len(gcode') = n + k
        /\ \A i \in 1..n : gcode'[i] = old[i]
        /\ \A i \in (n + 1)..(n + k) : gcode'[i] = new[i - n]
    BY <2>1, <2>2, <2>3, ConcatFacts
  <2> HIDE DEF n
  <2>7. /\ appended' - Len(gcode') = appended - n /\ Len(gcode') <= appended'
        /\ last.line <= appended' /\ Sent.line <= appended'
    <3>1. last.line <= appended /\ Sent.line <= appended
      BY DEF Ordered
    <3> QED BY <1>1, <2>0, <2>2, <2>5, <2>6, <3>1
  <2>8. \A i \in 1..Len(gcode') : gcode'[i] = (appended - n) + i
    <3> SUFFICES ASSUME NEW i \in 1..(n + k)
                 PROVE  gcode'[i] = (appended - n) + i
      BY <2>6
    <3>0. i <= n \/ i > n
      BY <2>0, <2>2
    <3>1. CASE i <= n
      BY <2>0, <2>2, <2>4, <2>6, <3>1
    <3>2. CASE i > n
      <4> DEFINE x == i - n
      <4>1. i \in (n + 1)..(n + k) /\ x \in 1..k
        BY <2>0, <2>2, <3>2
      <4>2. gcode'[i] = new[x]
        BY <2>6, <4>1
      <4> HIDE DEF x
      <4>3. gcode'[i] = appended + x
        BY <2>1, <4>1, <4>2
      <4>4. i \in Int /\ x = i - n
        BY <2>0, <2>2 DEF x
      <4>5. appended + x = (appended - n) + i
        BY <1>1, <2>2, <4>4
      <4> QED BY <4>3, <4>5
    <3> QED BY <3>0, <3>1, <3>2
  <2>9. Sent' = Sent /\ packet'.kind # "command"
    BY <1>0, NoPacketFacts DEF Sent
  <2>10. Chain(Sent, queue)' /\ Ended(LastOf(Sent, queue), appended - Len(gcode))'
    <3>1. Chain(Sent, queue)' <=> Chain(Sent, queue)
      BY <2>0, <2>9 DEF Chain, Follows, Before
    <3>2. appended' - Len(gcode') = appended - Len(gcode)
      BY <2>7 DEF n, old
    <3>3. Ended(LastOf(Sent, queue), appended - Len(gcode))' <=>
          Ended(LastOf(Sent, queue), appended - Len(gcode))
      BY <2>0, <2>9, <3>2 DEF Ended, LastOf
    <3> QED BY <3>1, <3>3 DEF Ordered
  <2>11. \A i \in 1..Len(queue') : queue'[i].line <= appended'
    <3> SUFFICES ASSUME NEW i \in 1..Len(queue)
                 PROVE  queue[i].line <= appended'
      BY <2>0
    <3>1. queue[i].line <= appended
      BY DEF Ordered
    <3>2. queue[i] \in RealCommand
      BY OrderedFacts, ElementOfSeq
    <3>3. queue[i].line \in 1..MaxLines
      BY <3>2, CommandFacts
    <3> DEFINE l == queue[i].line
    <3>4. l \in Nat /\ l <= appended
      BY <3>1, <3>3
    <3> HIDE DEF l
    <3>5. l <= appended'
      BY <1>1, <2>0, <3>4
    <3> QED BY <3>5 DEF l
  <2>12. Len(gcode)' <= appended' /\ last'.line <= appended' /\ Sent'.line <= appended'
         /\ \A i \in 1..Len(gcode') : gcode'[i] = appended' - Len(gcode') + i
    BY <1>0, <2>7, <2>8, <2>9
  <2> QED
    BY <2>9, <2>10, <2>11, <2>12 DEF Ordered
<1>3. CASE GCodeClear
  <2>1. /\ queue' = <<>> /\ gcode' = <<>> /\ givenUp' = appended /\ appended' = appended
    BY <1>3 DEF GCodeClear
  <2>2. NewLines(0) = <<>> /\ appended + 0 = appended
    BY <1>1 DEF NewLines
  <2> QED BY <1>0, <2>1, <2>2, OrderedGivenUp
<1>4. CASE GCodeStartPrint
  BY <1>0, <1>4, OrderedSame DEF GCodeStartPrint
<1>5. ASSUME NEW k \in 0..MaxChunk, GCodeStopPrint(k)
      PROVE  Ordered'
  <2>1. /\ queue' = <<>> /\ gcode' = NewLines(k) /\ givenUp' = appended
        /\ appended' = appended + k /\ k \in Nat
    BY <1>5, Constants DEF GCodeStopPrint
  <2> QED BY <1>0, <2>1, OrderedGivenUp
<1> QED
  BY <1>2, <1>3, <1>4, <1>5 DEF ClientCommand

LEMMA OrderedStep ==
  ASSUME Typed, Books, Ordered, [Next]_vars
  PROVE  Ordered'
<1>1. CASE Update
  BY <1>1, OrderedSame DEF Update, At, Frame, printerVars
<1>2. CASE FillQueue
  BY <1>2, OrderedFill
<1>3. CASE ProcessQueue
  <2>1. /\ packet = NoPacket /\ packet' = Query("space")
        /\ UNCHANGED <<gcode, queue, last, appended, givenUp>>
    BY <1>3 DEF ProcessQueue, At, Frame, printerVars, BeginPacket
  <2>2. packet'.kind # "command" /\ Sent' = Sent
    BY <2>1, QueryType, NoPacketFacts DEF Sent
  <2> QED BY <2>1, <2>2, OrderedKept
<1>4. CASE Decide
  BY <1>4, OrderedSame DEF Decide, At, Frame, printerVars
<1>5. CASE SendCommands
  <2>0. packet = NoPacket /\ UNCHANGED <<gcode, last, appended, givenUp, suffered>>
    BY <1>5 DEF SendCommands, At, Frame, printerVars
  <2>1. CASE queue # <<>> /\ packet' = Sending(Head(queue)) /\ queue' = Tail(queue)
    BY <2>0, <2>1, OrderedSend
  <2>2. CASE UNCHANGED <<queue, packet>>
    BY <2>0, <2>2, OrderedSame
  <2> QED BY <1>5, <2>1, <2>2 DEF SendCommands, BeginPacket
<1>6. CASE Poll
  BY <1>6, OrderedSame DEF Poll, At, Frame, printerVars
<1>7. CASE SendQueries
  <2>1. /\ packet = NoPacket
        /\ UNCHANGED <<gcode, queue, last, appended, givenUp>>
    BY <1>7 DEF SendQueries, At, Frame, printerVars
  <2>2. PICK kind \in {"version", "tool", "space"} : packet' = Query(kind)
    BY <1>7 DEF SendQueries, BeginPacket
  <2>3. packet'.kind # "command" /\ Sent' = Sent
    BY <2>1, <2>2, QueryType, NoPacketFacts DEF Sent
  <2> QED BY <2>1, <2>3, OrderedKept
<1>8. CASE Attempt
  BY <1>8, OrderedAttempt
<1>9. CASE PortLost
  BY <1>9, OrderedSame DEF PortLost, printerVars
<1>10. CASE ClientCommand
  BY <1>10, OrderedClient
<1>11. CASE PrinterExecutes
  BY <1>11, OrderedSame DEF PrinterExecutes, driverVars
<1>12. CASE UNCHANGED vars
  BY <1>12, OrderedSame DEF vars, driverVars, printerVars
<1> QED
  BY <1>1, <1>2, <1>3, <1>4, <1>5, <1>6, <1>7, <1>8, <1>9, <1>10, <1>11, <1>12
  DEF Next, UpdateStep

LEMMA DrainedStep ==
  ASSUME Typed, Drained, [Next]_vars
  PROVE  Drained'
<1>0. queue \in Seq(RealCommand) /\ QueueMin \in Nat \ {0} /\ QueueFill \in Nat \ {0}
  BY OrderedFacts, SizeAssumption
<1>1. CASE Update
  <2>1. UNCHANGED queue /\ (at' = "processQueue" => ~(Len(queue) < QueueMin)) /\ at' # "decide"
    BY <1>1 DEF Update
  <2>2. ~(Len(queue) < QueueMin) => queue # <<>>
    BY <1>0
  <2> QED BY <2>1, <2>2 DEF Drained
<1>2. CASE FillQueue
  <2>1. CASE at' = at
    BY <1>2, <2>1 DEF FillQueue, At, Drained
  <2>2. CASE UNCHANGED <<gcode, queue>> /\ ~(gcode # <<>> /\ Len(queue) < QueueFill)
    BY <1>0, <2>2 DEF Drained
  <2> QED BY <1>2, <2>1, <2>2 DEF FillQueue
<1>3. CASE ProcessQueue
  BY <1>3 DEF ProcessQueue, At, Drained
<1>4. CASE Decide
  BY <1>4 DEF Decide, Drained
<1>5. CASE SendCommands
  BY <1>5 DEF SendCommands, At, Drained
<1>6. CASE Poll
  BY <1>6 DEF Poll, Drained
<1>7. CASE SendQueries
  BY <1>7 DEF SendQueries, At, Drained
<1>8. CASE Attempt
  BY <1>8 DEF Attempt, Drained
<1>9. CASE PortLost
  BY <1>9 DEF PortLost, Drained
<1>10. CASE ClientCommand
  BY <1>10
  DEF ClientCommand, GCodeAppend, GCodeClear, GCodeStartPrint, GCodeStopPrint,
      CommandFrame, At, Drained
<1>11. CASE PrinterExecutes
  BY <1>11 DEF PrinterExecutes, driverVars, Drained
<1>12. CASE UNCHANGED vars
  BY <1>12 DEF vars, driverVars, Drained
<1> QED
  BY <1>1, <1>2, <1>3, <1>4, <1>5, <1>6, <1>7, <1>8, <1>9, <1>10, <1>11, <1>12
  DEF Next, UpdateStep

(* The books of the driver, of its queue and of the printer agree in every *)
(* reachable state.                                                        *)
THEOREM Invariance == Spec => []Inductive
<1>1. Init => Inductive
  <2> SUFFICES ASSUME Init PROVE Inductive
    OBVIOUS
  <2>1. Drained
    BY DEF Init, Drained
  <2> QED
    BY <2>1, TypedInit, BooksInit, OrderedInit DEF Inductive, Accounted
<1>2. Inductive /\ [Next]_vars => Inductive'
  BY TypedStep, BooksStep, OrderedStep, DrainedStep DEF Inductive, Accounted
<1> QED
  BY <1>1, <1>2, PTL DEF Spec

(* Whatever is damaged, the commands are sent in the order of the lines,   *)
(* without but those that a clear or a stop took away; and none is sent    *)
(* twice before the driver is out of step with the replies.                *)
THEOREM OnceAndInOrder == Spec => EveryCommandOnce
<1> DEFINE Told == (Attempt /\ packet.kind = "command") =>
                      \/ Follows(last, packet.command)
                      \/ packet.command = last /\ "frame" \in suffered
<1>1. Inductive => Told
  BY DEF Inductive, Ordered, MaySend
<1>2. EveryCommandOnce <=> [][Told]_vars
  BY DEF EveryCommandOnce
<1> HIDE DEF Told
<1>3. Inductive => [Told]_vars
  BY <1>1
<1> QED
  BY <1>2, <1>3, Invariance, PTL

(* The driver calls itself idle after a print only when no line and no     *)
(* command is left, and nothing in the printer's action buffer if it knows *)
(* the room there.                                                         *)
THEOREM IdleWhenDone == Spec => IdleMeansDone
<1> DEFINE Told == (Decide /\ state' # state) =>
                      gcode = <<>> /\ queue = <<>> /\ (RoomKnown => held = <<>>)
<1>1. Inductive => Told
  <2> SUFFICES ASSUME Inductive, Decide, state' # state
               PROVE  gcode = <<>> /\ queue = <<>> /\ (RoomKnown => held = <<>>)
    OBVIOUS
  <2>1. /\ packet = NoPacket /\ at = "decide" /\ queue = <<>>
        /\ AsInt(bufferSpace) >= BufferSize
    BY DEF Decide, At
  <2>2. gcode = <<>>
    BY <2>1 DEF Inductive, Drained
  <2>3. ASSUME RoomKnown
        PROVE  held = <<>>
    <3>1. Typed /\ Account
      BY <2>3 DEF Inductive, Accounted, Books
    <3>2. Asking = 0 /\ Owed = 0
      BY <2>1, NoPacketFacts DEF Asking, Owed
    <3>3. /\ Counted(bufferSpace) + 0 <= Room /\ Counted(bufferSpace) >= -(garbled + 0)
          /\ garbled \in Nat /\ garbled <= MaxGarbled /\ bufferSpace \in 0..(Word - 1)
          /\ Room \in Nat /\ Room <= BufferSize
      BY <3>1, <3>2, RoomFacts DEF Account
    <3>4. Counted(bufferSpace) \in Int /\ AsInt(bufferSpace) \in Int
      BY <3>3, Constants DEF Counted, AsInt
    <3>5. Counted(bufferSpace) >= -MaxGarbled
      BY <3>3, <3>4, Constants
    <3>6. AsInt(bufferSpace) <= Counted(bufferSpace)
      BY <3>3, <3>5, CountedFacts
    <3>7. Room = BufferSize
      BY <2>1, <3>3, <3>4, <3>6, Constants
    <3>8. held \in Seq(RealCommand) /\ Load(held) \in Nat
      BY <3>1, LoadType DEF Typed, Real
    <3>9. Load(held) = 0
      BY <3>7, <3>8, RoomIsLoad, Constants
    <3> QED BY <3>8, <3>9, LoadZero
  <2> QED BY <2>1, <2>2, <2>3
<1>2. IdleMeansDone <=> [][Told]_vars
  BY DEF IdleMeansDone
<1> HIDE DEF Told
<1>3. Inductive => [Told]_vars
  BY <1>1
<1> QED
  BY <1>2, <1>3, Invariance, PTL
=============================================================================
