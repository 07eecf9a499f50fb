--------------------------- MODULE MakerbotDriver ---------------------------
(***************************************************************************)
(* The driver for Makerbots (src/src/drivers/MakerbotDriver.cpp on top of  *)
(* AbstractDriver.cpp) and the printer it talks to.                        *)
(*                                                                         *)
(* Lines of gcode are converted to commands, which wait in a queue until   *)
(* the printer has room for them in its action buffer.  The driver asks    *)
(* for that room, then counts it down itself in an unsigned number while   *)
(* it sends, one packet at a time, each with a reply to wait for.  Nothing *)
(* in a reply says which packet it belongs to.                             *)
(*                                                                         *)
(* update() blocks, so the clients' commands come between two updates; the *)
(* printer works through its buffer all the time.  `at' is where update()  *)
(* is, and a packet whose reply is still to be read is in `packet'.        *)
(*                                                                         *)
(* What is received is a sequence of bytes, since the driver can get out   *)
(* of step with it: the first byte of a reply (0xD5) stands for the reply, *)
(* the others are "rest".  So are the bytes of a reply whose frame is      *)
(* damaged: its first byte or its length is another, or it has not all     *)
(* arrived when it is read.  Progress is as in MarlinDriver and left out.  *)
(*                                                                         *)
(* Definitions named Mut... are deliberate mistakes; no specification uses *)
(* them.  Each shows a bug that one of the properties would catch.         *)
(***************************************************************************)
EXTENDS Sums

CONSTANTS
  PacketsOf,    \* line n converts to commands of the sizes PacketsOf[n]
  BufferSize,   \* PRINTER_BUFFER_SIZE
  RefillAbove,  \* the room above which processQueue() sends: 480
  Margin,       \* the room processQueue() leaves: 5
  QueueMin,     \* QUEUE_MIN_SIZE
  QueueFill,    \* QUEUE_FILL_SIZE
  CvtLines,     \* GCODE_CVT_LINES
  ToolQueries,  \* the packets of updateTemperatures(): 4
  Retries,      \* the attempts of sendPacket(): 5
  Word,         \* 2^32: bufferSpace_ is counted modulo this
  MaxLines,     \* bound: lines appended in a behaviour
  MaxChunk,     \* bound: lines in one append or in the end code of a stop
  MaxGarbled,   \* bound: packets and replies that are damaged on the way
  MaxStray,     \* bound: bytes in the serial buffer when the server starts
  MaxUnread     \* bound: bytes in the serial buffer when a reply is read

ASSUME SizeAssumption ==
  /\ BufferSize \in Nat /\ Margin \in Nat /\ Retries \in Nat \ {0}
  /\ RefillAbove \in Margin..(BufferSize - 1)
  /\ QueueMin \in Nat \ {0} /\ QueueFill \in Nat \ {0} /\ CvtLines \in Nat \ {0}
  /\ ToolQueries \in Nat \ {0}
ASSUME BoundAssumption ==
  /\ MaxLines \in Nat /\ MaxChunk \in Nat /\ MaxGarbled \in Nat /\ MaxStray \in Nat
  /\ MaxUnread \in Nat
(* A command fits into the room that is left when sending begins.          *)
ASSUME PacketAssumption ==
  PacketsOf \in [1..MaxLines -> Seq(1..(RefillAbove + 1 - Margin))]
(* The word is wide: what damaged replies make the room seem to lack does  *)
(* not wrap around to a large positive number.                             *)
ASSUME WordAssumption == Word \in Nat /\ Word > 2 * (BufferSize + MaxGarbled)

VARIABLES
  state,        \* state_
  gcode,        \* the lines in gcodeBuffer_
  queue,        \* queue_: commands
  bufferSpace,  \* bufferSpace_
  validResponseReceived,
  at,           \* where update() is
  queries,      \* queries update() still has to send
  packet,       \* the packet being sent, and the attempts left
  rx,           \* bytes received and not yet read
  held,         \* the printer's action buffer
  exited,       \* the server has exited
  (* histories and counters of the model *)
  appended,     \* lines appended since the start
  givenUp,      \* lines appended before the last clear or stop
  last,         \* the command that was sent last
  discarded,    \* the printer has discarded a command for want of room
  suffered,     \* what has been damaged so far, see Damage
  garbled       \* what has been used of MaxGarbled

driverVars == <<state, gcode, queue, bufferSpace, validResponseReceived, at, queries, packet>>
printerVars == <<held, last, discarded, suffered, garbled>>
vars == <<driverVars, rx, printerVars, exited, appended, givenUp>>

-----------------------------------------------------------------------------
Offline  == {"disconnected", "connecting"}
Printing == {"printing", "stopping"}
State    == Offline \cup {"idle", "buffering"} \cup Printing

Command == [line : 1..MaxLines, part : Nat \ {0}]
NoCommand == [line |-> 0, part |-> 0]

Size(c) == PacketsOf[c.line][c.part]

CommandsOf(n) == [p \in 1..Len(PacketsOf[n]) |-> [line |-> n, part |-> p]]

(* gpx_convert() and the parser: what a few lines become.  Comments and    *)
(* lines that only change the converter's state become nothing.            *)
Converted(lines) == SX!FlattenSeq([i \in 1..Len(lines) |-> CommandsOf(lines[i])])

(* bufferSpace_ as requestBufferSpace() returns it, as an int *)
AsInt(word) == IF word >= Word \div 2 THEN word - Word ELSE word

Smaller(a, b) == IF a <= b THEN a ELSE b

(* The packets: "version" and "tool" are queries that take no room, "space" *)
(* asks for the room and is counted as if it took some.                     *)
Kind == {"version", "tool", "space", "command"}
NoPacket == [kind |-> "none", command |-> NoCommand, retriesLeft |-> 0]
Query(kind) == [kind |-> kind, command |-> NoCommand, retriesLeft |-> Retries]
Sending(c) == [kind |-> "command", command |-> c, retriesLeft |-> Retries]

PayloadSize(p) ==
  CASE p.kind = "tool" -> 3
    [] p.kind = "command" -> Size(p.command)
    [] OTHER -> 1

(* Start byte, length, response code, data and checksum *)
ReplySize(kind) ==
  CASE kind \in {"command", "error"} -> 4
    [] kind = "space" -> 8
    [] OTHER -> 6

Byte == [kind : Kind \cup {"error", "rest"}, room : 0..BufferSize, good : BOOLEAN]
Rest == [kind |-> "rest", room |-> 0, good |-> FALSE]

(* On the way a packet may be damaged, the checksum or the data of its     *)
(* reply, or the reply's frame.                                            *)
Damage == {"packet", "checksum", "frame"}

BytesOf(reply) == <<reply>> \o [i \in 1..(ReplySize(reply.kind) - 1) |-> Rest]

-----------------------------------------------------------------------------
(* The printer's action buffer *)
Room == BufferSize - SumSeq([i \in 1..Len(held) |-> Size(held[i])])

(* openConnection() has opened the port and, if the state is connecting,   *)
(* set its speed.  Bytes of an earlier time may be in the serial buffer.   *)
Init ==
  /\ state \in Offline
  /\ gcode = <<>> /\ queue = <<>>
  /\ bufferSpace = BufferSize
  /\ validResponseReceived = FALSE
  /\ at = "server" /\ queries = 0 /\ packet = NoPacket
  /\ \E n \in 0..MaxStray : /\ rx = [i \in 1..n |-> Rest]
                            /\ suffered = IF n > 0 THEN {"frame"} ELSE {}
  /\ held = <<>>
  /\ exited = FALSE
  /\ appended = 0 /\ givenUp = 0 /\ last = NoCommand
  /\ discarded = FALSE /\ garbled = 0

-----------------------------------------------------------------------------
(* sendPacket(), up to the first attempt.  Of the unexpected bytes in the  *)
(* serial buffer it eats as many as the payload is long.                   *)
MutBeginPacketSigned(p, updateBufferSpace) ==
  /\ packet' = p
  /\ rx' = SubSeq(rx, PayloadSize(p) + 1, Len(rx))
  /\ bufferSpace' = IF updateBufferSpace THEN bufferSpace - PayloadSize(p) ELSE bufferSpace

MutBeginPacket(p, updateBufferSpace) ==
  /\ packet' = p
  /\ rx' = SubSeq(rx, PayloadSize(p) + 1, Len(rx))
  /\ bufferSpace' = IF p.kind = "command" THEN bufferSpace
                    ELSE (bufferSpace + Word - PayloadSize(p)) % Word

BeginPacket(p, updateBufferSpace) ==
  /\ packet' = p
  /\ rx' = SubSeq(rx, PayloadSize(p) + 1, Len(rx))
  /\ bufferSpace' = IF updateBufferSpace
                    THEN (bufferSpace + Word - PayloadSize(p)) % Word
                    ELSE bufferSpace

(* The printer takes a packet, unless it was damaged on the way; a command *)
(* for which it has no room it discards.                                   *)
Taken(p, damage) ==
  /\ last' = IF p.kind = "command" THEN p.command ELSE last
  /\ IF p.kind = "command" /\ damage # "packet"
     THEN IF Size(p.command) <= Room
          THEN held' = Append(held, p.command) /\ UNCHANGED discarded
          ELSE discarded' = TRUE /\ UNCHANGED held
     ELSE UNCHANGED <<held, discarded>>

(* It answers: a damaged packet with an error code (0x83).                 *)
Answer(p, damage) ==
  IF damage = "frame" THEN [i \in 1..ReplySize(p.kind) |-> Rest]
  ELSE BytesOf([kind |-> IF damage = "packet" THEN "error" ELSE p.kind,
                room |-> Room, good |-> damage # "checksum"])

(* Of a damaged packet it matters which it was. *)
Suffers(p, damage) ==
  IF damage = "none" THEN UNCHANGED <<suffered, garbled>>
  ELSE /\ garbled < MaxGarbled
       /\ garbled' = garbled + 1
       /\ suffered' = suffered \cup {IF damage = "packet" THEN p.kind ELSE damage}

(* The end of parseResponse(): it takes a reply for that to the command it *)
(* has sent, and an error code for success.  In a reply to something else  *)
(* the room is read from beyond the data, and may be anything.             *)
Interpreted(p, reply) ==
  /\ state' = IF p.kind = "tool" /\ state = "connecting" THEN "idle" ELSE state
  /\ IF p.kind # "space" THEN UNCHANGED bufferSpace
     ELSE IF reply.kind = "space" THEN bufferSpace' = reply.room
     ELSE bufferSpace' \in 0..(Word - 1)

(* parseResponse() with the value that it returns.  A byte that is not the *)
(* first of a reply is not expected (-99), unless it happens to have that  *)
(* value.  Then a length follows.  With a length of 0, or nothing behind   *)
(* it, all seems well.  Otherwise at least one byte of data and a checksum *)
(* are read, however many bytes there should be; that they match is        *)
(* unlikely, but part of the data was not written by anybody.              *)
ParseResponse(p, received, rv) ==
  LET first   == Head(received)
      Read(n) == rx' = SubSeq(received, n + 1, Len(received))
      Ignored == UNCHANGED <<state, bufferSpace>>
      Checked == IF rv = 0 THEN Interpreted(p, first) ELSE Ignored
  IN  \/ /\ first.kind # "rest"
         /\ rv = IF first.good THEN 0 ELSE -3
         /\ Read(ReplySize(first.kind))
         /\ Checked
      \/ first.kind = "rest" /\ rv = -99 /\ Read(1) /\ Ignored
      \/ first.kind = "rest" /\ rv = 0 /\ Read(2) /\ Ignored
      \/ /\ first.kind = "rest"
         /\ rv \in {0, -3}
         /\ \E n \in 4..Len(received) : Read(n)
         /\ Checked

MutSecondTry(p, rv) ==
  IF rv # 0 /\ p.retriesLeft > 1
  THEN [p EXCEPT !.retriesLeft = @ - 1] ELSE NoPacket

(* An unexpected byte makes it try again, a wrong checksum does not: the   *)
(* printer has probably received the packet.                               *)
SecondTry(p, rv) ==
  IF rv \notin {0, -3} /\ p.retriesLeft > 1
  THEN [p EXCEPT !.retriesLeft = @ - 1] ELSE NoPacket

(* One turn of the loop of sendPacket() *)
Attempt ==
  /\ ~exited
  /\ packet # NoPacket
  /\ \E damage \in Damage \cup {"none"}, rv \in {0, -3, -99} :
       LET received == rx \o Answer(packet, damage)
       IN  /\ Len(received) <= MaxUnread
           /\ Suffers(packet, damage)
           /\ Taken(packet, damage)
           /\ ParseResponse(packet, received, rv)
           /\ packet' = SecondTry(packet, rv)
           /\ validResponseReceived' = (validResponseReceived \/ rv = 0)
  /\ UNCHANGED <<gcode, queue, at, queries, exited, appended, givenUp>>

(* The port is gone, or no reply arrives in time: readByteDirect() returns *)
(* -2 for both, and handleReadError() lets the server exit.                *)
PortLost ==
  /\ ~exited
  /\ packet # NoPacket
  /\ exited' = TRUE
  /\ state' = "disconnected"
  /\ UNCHANGED <<gcode, queue, bufferSpace, validResponseReceived, at, queries, packet,
                 rx, printerVars, appended, givenUp>>

-----------------------------------------------------------------------------
(* update() *)

At(place) == ~exited /\ packet = NoPacket /\ at = place

Frame == UNCHANGED <<validResponseReceived, printerVars, exited, appended, givenUp>>

Update ==
  /\ At("server")
  /\ at' = IF state \notin Printing THEN "poll"
           ELSE IF Len(queue) < QueueMin THEN "fill" ELSE "processQueue"
  /\ Frame
  /\ UNCHANGED <<state, gcode, queue, bufferSpace, queries, packet, rx>>

(* One turn of the loop that fills the queue.  getNextLine() returns fewer *)
(* lines than it is asked for where a bucket of the buffer ends.           *)
MutFillQueue ==
  /\ At("fill")
  /\ \/ gcode = <<>> /\ UNCHANGED <<gcode, queue>>
     \/ \E n \in 1..Smaller(CvtLines, Len(gcode)) :
          /\ queue' = queue \o Converted(SubSeq(gcode, 1, n))
          /\ gcode' = SubSeq(gcode, n + 1, Len(gcode))
  /\ at' = "processQueue"
  /\ Frame
  /\ UNCHANGED <<state, bufferSpace, queries, packet, rx>>

FillQueue ==
  /\ At("fill")
  /\ IF gcode # <<>> /\ Len(queue) < QueueFill
     THEN /\ \E n \in 1..Smaller(CvtLines, Len(gcode)) :
               /\ queue' = queue \o Converted(SubSeq(gcode, 1, n))
               /\ gcode' = SubSeq(gcode, n + 1, Len(gcode))
          /\ UNCHANGED at
     ELSE at' = "processQueue" /\ UNCHANGED <<gcode, queue>>
  /\ Frame
  /\ UNCHANGED <<state, bufferSpace, queries, packet, rx>>

(* processQueue() asks for the room ... *)
ProcessQueue ==
  /\ At("processQueue")
  /\ BeginPacket(Query("space"), TRUE)
  /\ at' = "decide"
  /\ Frame
  /\ UNCHANGED <<state, gcode, queue, queries>>

(* ... and, with the answer, sends, waits, or ends the print. *)
MutDecide ==
  /\ At("decide")
  /\ at' = IF queue # <<>> /\ AsInt(bufferSpace) > RefillAbove THEN "send" ELSE "poll"
  /\ state' = IF queue = <<>> /\ AsInt(bufferSpace) > BufferSize THEN "idle" ELSE state
  /\ Frame
  /\ UNCHANGED <<gcode, queue, bufferSpace, queries, packet, rx>>

Decide ==
  /\ At("decide")
  /\ at' = IF queue # <<>> /\ AsInt(bufferSpace) > RefillAbove THEN "send" ELSE "poll"
  /\ state' = IF queue = <<>> /\ AsInt(bufferSpace) >= BufferSize THEN "idle" ELSE state
  /\ Frame
  /\ UNCHANGED <<gcode, queue, bufferSpace, queries, packet, rx>>

Fits(c) == Size(c) <= (bufferSpace + Word - Margin) % Word

SendCommands ==
  /\ At("send")
  /\ IF queue # <<>> /\ Fits(Head(queue))
     THEN /\ BeginPacket(Sending(Head(queue)), TRUE)
          /\ queue' = Tail(queue)
          /\ UNCHANGED at
     ELSE at' = "poll" /\ UNCHANGED <<queue, bufferSpace, packet, rx>>
  /\ Frame
  /\ UNCHANGED <<state, gcode, queries>>

(* Every 30th update() asks for the version, until a reply was understood, *)
(* for the temperatures and for the room.                                  *)
Poll ==
  /\ At("poll")
  /\ \/ at' = "server" /\ UNCHANGED queries
     \/ /\ at' = "query"
        /\ queries' = ToolQueries + (IF validResponseReceived THEN 0 ELSE 1)
  /\ Frame
  /\ UNCHANGED <<state, gcode, queue, bufferSpace, packet, rx>>

SendQueries ==
  /\ At("query")
  /\ IF queries > 0
     THEN /\ BeginPacket(Query(IF queries > ToolQueries THEN "version" ELSE "tool"), FALSE)
          /\ queries' = queries - 1
          /\ UNCHANGED at
     ELSE /\ BeginPacket(Query("space"), TRUE)
          /\ at' = "server"
          /\ UNCHANGED queries
  /\ Frame
  /\ UNCHANGED <<state, gcode, queue>>

-----------------------------------------------------------------------------
(* The clients' commands, between two updates.  heatup() has no effect, as *)
(* sendCode() is empty; fullStop() clears the queue and does not send the  *)
(* commands to clear the printer's buffer and to abort.                    *)
NewLines(k) == [i \in 1..k |-> appended + i]

CommandFrame ==
  UNCHANGED <<bufferSpace, validResponseReceived, at, queries, packet, rx, printerVars, exited>>

GCodeAppend(k) ==
  /\ At("server")
  /\ appended + k <= MaxLines
  /\ gcode' = gcode \o NewLines(k)
  /\ state' = IF state = "idle" THEN "buffering" ELSE state
  /\ appended' = appended + k
  /\ CommandFrame
  /\ UNCHANGED <<queue, givenUp>>

GCodeClear ==
  /\ At("server")
  /\ gcode' = <<>> /\ queue' = <<>>
  /\ state' = IF state \in {"buffering"} \cup Printing THEN "idle" ELSE state
  /\ givenUp' = appended
  /\ CommandFrame
  /\ UNCHANGED appended

GCodeStartPrint ==
  /\ At("server")
  /\ state' = IF state \in Offline THEN state ELSE "printing"
  /\ CommandFrame
  /\ UNCHANGED <<gcode, queue, appended, givenUp>>

GCodeStopPrint(k) ==
  /\ At("server")
  /\ appended + k <= MaxLines
  /\ gcode' = NewLines(k) /\ queue' = <<>>
  /\ state' = IF state \in Offline THEN state ELSE "stopping"
  /\ appended' = appended + k
  /\ givenUp' = appended
  /\ CommandFrame

ClientCommand ==
  \/ \E k \in 0..MaxChunk : GCodeAppend(k)
  \/ GCodeClear
  \/ GCodeStartPrint
  \/ \E k \in 0..MaxChunk : GCodeStopPrint(k)

(* The printer executes the next command of its buffer. *)
PrinterExecutes ==
  /\ held # <<>>
  /\ held' = Tail(held)
  /\ UNCHANGED <<driverVars, rx, last, discarded, suffered, garbled, exited, appended, givenUp>>

-----------------------------------------------------------------------------
UpdateStep ==
  \/ Update \/ FillQueue \/ ProcessQueue \/ Decide \/ SendCommands
  \/ Poll \/ SendQueries \/ Attempt

Next == UpdateStep \/ PortLost \/ ClientCommand \/ PrinterExecutes

Spec == Init /\ [][Next]_vars

(* The server's loop calls update() 30 times a second; the printer works   *)
(* on what it holds.                                                       *)
FairSpec == Spec /\ WF_vars(UpdateStep) /\ WF_vars(PrinterExecutes)
-----------------------------------------------------------------------------
(* Properties *)

(* The members of the driver have their types; the printer's action buffer *)
(* never holds more than it has room for.                                  *)
TypeOK ==
  /\ state \in State
  /\ gcode \in Seq(1..MaxLines)
  /\ queue \in Seq(Command)
  /\ bufferSpace \in 0..(Word - 1)
  /\ validResponseReceived \in BOOLEAN
  /\ at \in {"server", "fill", "processQueue", "decide", "send", "poll", "query"}
  /\ queries \in 0..(ToolQueries + 1)
  /\ packet \in [kind : Kind, command : Command \cup {NoCommand}, retriesLeft : 1..Retries]
                  \cup {NoPacket}
  /\ rx \in Seq(Byte)
  /\ held \in Seq(Command) /\ Room \in 0..BufferSize
  /\ exited \in BOOLEAN
  /\ appended \in 0..MaxLines /\ givenUp \in 0..MaxLines
  /\ last \in Command \cup {NoCommand}
  /\ discarded \in BOOLEAN
  /\ suffered \subseteq {"checksum", "frame"} \cup Kind /\ garbled \in 0..MaxGarbled

(* The room is known to the driver as long as it is in step with the       *)
(* replies and no request for the room was damaged, which the printer      *)
(* answers by an error code that has no room in it.                        *)
RoomKnown == suffered \cap {"frame", "space"} = {}

(* The room the driver counts down is then never more than there is,       *)
(* through lost commands, wrong checksums and the wrap-around of the       *)
(* unsigned count, so that the printer never discards a command ("Action   *)
(* buffer overflow").                                                      *)
NoOverflow ==
  RoomKnown => ~discarded /\ (packet = NoPacket => AsInt(bufferSpace) <= Room)

(* Whatever is damaged, the commands are sent in their order and none is   *)
(* left out but those of lines that a clear or a stop took away; and none  *)
(* is sent twice by sendPacket() before the driver has got out of step     *)
(* with the replies.                                                       *)
Follows(c, d) ==
  \/ d.line = c.line /\ d.part = c.part + 1
  \/ /\ d.part = 1 /\ d.line > c.line
     /\ \A n \in (c.line + 1)..(d.line - 1) : PacketsOf[n] = <<>> \/ n <= givenUp
     /\ \/ c = NoCommand
        \/ c.part = Len(PacketsOf[c.line])
        \/ c.line <= givenUp

EveryCommandOnce ==
  [][ (Attempt /\ packet.kind = "command") =>
        \/ Follows(last, packet.command)
        \/ packet.command = last /\ "frame" \in suffered ]_vars

(* The driver ends a print by itself only when all is done: no line in the *)
(* buffer, no command in the queue and, if it knows the printer's room,    *)
(* none waiting in the printer.                                            *)
IdleMeansDone ==
  [][ (Decide /\ state' # state) =>
        gcode = <<>> /\ queue = <<>> /\ (RoomKnown => held = <<>>) ]_vars

(* Every print ends, or the server exits, if the driver stays in step.     *)
PrintEnds ==
  state \in Printing ~> (state \notin Printing \/ exited \/ "frame" \in suffered)

-----------------------------------------------------------------------------
(* What the comments say, and the code does not do                         *)

(* sendPacket(), comments: "check for unexpected bytes in the serial read  *)
(* buffer and eat them" and "do not retry if the _response_ crc was        *)
(* invalid, packet has probably been received": a command that the printer *)
(* has been sent is not sent again.                                        *)
NoCommandTwice ==
  [][ (Attempt /\ packet.kind = "command") => packet.command # last ]_vars
=============================================================================
