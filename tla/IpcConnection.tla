---------------------------- MODULE IpcConnection ----------------------------
(***************************************************************************)
(* One connection between a front end and the server, byte by byte:        *)
(* communicator.c and the commands of ipc_shared.c on one side, Client.cpp *)
(* with the same parser on the other.                                      *)
(*                                                                         *)
(* A command is a code and a list of arguments, written to the socket as   *)
(* one run of bytes.  The socket keeps no boundaries: a read returns some  *)
(* of what is there.  The client sends a request, waits for some time for  *)
(* a reply and looks at the first one it reads; a text of gcode is split   *)
(* into packets that end at a line break, each of them a request.          *)
(*                                                                         *)
(* What the handlers do is in CommandServer.tla; here they only reply.     *)
(* The socket is taken to hold a whole request.  Definitions named Mut...  *)
(* are deliberate mistakes that no specification uses.                     *)
(***************************************************************************)
EXTENDS Integers, Sequences, SequencesExt

CONSTANTS
  MaxPacketSize, \* bytes of gcode in a request, MAX_PACKET_SIZE
  Requests,      \* the requests sent besides packets of gcode
  Texts,         \* the texts of gcode given to comm_sendGCodeData()
  MaxCalls       \* bound: calls of comm_*() in a behaviour

Byte == 0..255

IPC_CMDQ_GET_STATE    == 25
IPC_CMDQ_GCODE_APPEND == 19
IPC_CMDQ_APPEND_FILE  == 20
IPC_CMDQ_STOPPRINT    == 22
LineBreak             == 10

FirstChunkBit == 1
LastChunkBit  == 2

(* A code and a number of arguments have 16 bits, a length has 32. *)
Word16      == 65536
IsLength(n) == n \div Word16 < Word16

Command ==
  {cmd \in [code : 0..Word16 - 1, args : Seq(Seq(Byte))] :
     /\ Len(cmd.args) < Word16
     /\ \A i \in 1..Len(cmd.args) : IsLength(Len(cmd.args[i]))}

ASSUME PacketAssumption ==
  MaxPacketSize \in Nat \ {0} /\ IsLength(MaxPacketSize) /\ MaxCalls \in Nat

ASSUME InputAssumption == Requests \subseteq Command /\ Texts \subseteq Seq(Byte)

VARIABLES
  (* the client *)
  calling,   \* a comm_*() call is running
  awaiting,  \* it has sent a request and polls for the reply
  rest,      \* gcode the call has still to send
  packetNum, \* packets it has sent
  rv,        \* what it will return; between calls, what it has returned
  expected,  \* arguments of the reply it expects
  (* the socket *)
  toServer,  \* bytes
  toClient,  \* replies
  (* the server *)
  buffer,    \* Client::buffer_
  replying,  \* replies the running handler has still to send
  (* histories *)
  calls,     \* calls so far
  text,      \* the gcode given to the call; <<>> for other calls
  sent,      \* the requests that were sent
  ran,       \* the commands that were run
  answered,  \* the requests whose replies the call has looked at
  astray     \* a reply was given up, or a request not answered once

clientVars == <<calling, awaiting, rest, packetNum, rv, expected, calls, text, sent, answered>>
serverVars == <<buffer, replying, ran>>
vars == <<clientVars, serverVars, toServer, toClient, astray>>

-----------------------------------------------------------------------------
(* Commands as bytes: store_ns(), store_nl(), ipc_cmd_set() and            *)
(* ipc_cmd_add_arg(), in network order.                                    *)

Short(n) == <<n \div 256, n % 256>>
Long(n)  == Short(n \div Word16) \o Short(n % Word16)

Encoded(cmd) ==
  Short(cmd.code) \o Short(Len(cmd.args))
    \o FlattenSeq([i \in 1..Len(cmd.args) |-> Long(Len(cmd.args[i])) \o cmd.args[i]])

(* The number at an offset, read_ns() and read_nl() *)
ShortAt(b, p) == b[p + 1] * 256 + b[p + 2]
LongAt(b, p)  == ShortAt(b, p) * Word16 + ShortAt(b, p + 2)

(* Where the argument ends that begins at an offset, and where the first k *)
(* arguments end; 0 if the buffer ends before.                             *)
NextEnd(b, e) ==
  IF e = 0 \/ Len(b) < e + 4 THEN 0
  ELSE LET n == e + 4 + LongAt(b, e)
       IN  IF Len(b) < n THEN 0 ELSE n

ArgEnd(b, k) ==
  LET end[i \in 0..k] == IF i = 0 THEN 4 ELSE NextEnd(b, end[i - 1])
  IN  end[k]

(* ipc_cmd_is_complete(): the length of the command, 0 if it is not all    *)
(* there.                                                                  *)
CommandLength(b) == IF Len(b) < 4 THEN 0 ELSE ArgEnd(b, ShortAt(b, 2))

(* ipc_cmd_get() and ipc_cmd_get_arg() for all arguments *)
Decoded(b) ==
  [code |-> ShortAt(b, 0),
   args |-> [i \in 1..ShortAt(b, 2) |->
               SubSeq(b, ArgEnd(b, i - 1) + 5, ArgEnd(b, i))]]

(* ipc_cmd_remove() *)
Removed(b) == SubSeq(b, CommandLength(b) + 1, Len(b))

-----------------------------------------------------------------------------
Init ==
  /\ calling = FALSE /\ awaiting = FALSE
  /\ rest = <<>> /\ packetNum = 0 /\ rv = -1 /\ expected = 0
  /\ toServer = <<>> /\ toClient = <<>>
  /\ buffer = <<>> /\ replying = <<>>
  /\ calls = 0 /\ text = <<>> /\ sent = <<>> /\ ran = <<>> /\ answered = <<>> /\ astray = FALSE

-----------------------------------------------------------------------------
(* The client *)

(* sendAndReceiveDataWithFd(), first half *)
SendRequest(cmd) ==
  /\ toServer' = toServer \o Encoded(cmd)
  /\ sent' = Append(sent, cmd)
  /\ awaiting' = TRUE

(* Every comm_*() request but gcode; comm_getState() and the like expect   *)
(* an argument in the reply.                                               *)
CallRequest ==
  /\ ~calling
  /\ calls < MaxCalls
  /\ calls' = calls + 1
  /\ calling' = TRUE
  /\ \E cmd \in Requests :
       /\ SendRequest(cmd)
       /\ expected' = IF cmd.code = IPC_CMDQ_GET_STATE THEN 1 ELSE 0
  /\ text' = <<>> /\ rest' = <<>> /\ packetNum' = 0 /\ rv' = 0 /\ answered' = <<>>
  /\ UNCHANGED <<serverVars, toClient, astray>>

(* comm_sendGCodeData(); an empty text is done at once *)
CallSendGCode ==
  /\ ~calling
  /\ calls < MaxCalls
  /\ calls' = calls + 1
  /\ text' \in Texts
  /\ calling' = (text' # <<>>)
  /\ rest' = text'
  /\ packetNum' = 0 /\ rv' = 0 /\ expected' = 0 /\ answered' = <<>>
  /\ UNCHANGED <<awaiting, sent, serverVars, toServer, toClient, astray>>

(* A packet is all that is left, or ends at the last line break that is    *)
(* within its size; 0 if a line is too long.                               *)
MutPacketLength(s) == IF Len(s) <= MaxPacketSize THEN Len(s) ELSE MaxPacketSize

PacketLength(s) ==
  IF Len(s) <= MaxPacketSize THEN Len(s)
  ELSE LET breaks == {n \in 1..MaxPacketSize : s[n] = LineBreak}
       IN  CHOOSE n \in breaks \cup {0} : \A m \in breaks : m <= n

Chunk(s, n) ==
  [code |-> IPC_CMDQ_GCODE_APPEND,
   args |-> << SubSeq(s, 1, n),
               Short((IF packetNum = 0 THEN FirstChunkBit ELSE 0)
                       + (IF n = Len(s) THEN LastChunkBit ELSE 0)) >>]

MutSendPacket ==
  LET n == PacketLength(rest)
  IN  /\ calling /\ ~awaiting
      /\ n > 0
      /\ SendRequest(Chunk(rest, n))
      /\ rest' = SubSeq(rest, n + 1, Len(rest))
      /\ packetNum' = packetNum + 1
      /\ UNCHANGED <<calling, rv, expected, calls, text, answered, serverVars, toClient, astray>>

SendPacket ==
  LET n == PacketLength(rest)
  IN  /\ calling /\ ~awaiting
      /\ \/ /\ n > 0
            /\ SendRequest(Chunk(rest, n))
            /\ rest' = SubSeq(rest, n + 1, Len(rest))
            /\ packetNum' = packetNum + 1
            /\ UNCHANGED <<calling, rv>>
         \/ /\ n = 0
            /\ rv' = -1
            /\ calling' = FALSE
            /\ UNCHANGED <<awaiting, rest, packetNum, toServer, sent>>
      /\ UNCHANGED <<expected, calls, text, answered, serverVars, toClient, astray>>

MutContinue(result) ==
  /\ rv' = IF result < 0 THEN result ELSE rv
  /\ calling' = (rv' # -1 /\ rest # <<>>)
  /\ UNCHANGED <<awaiting, rest, packetNum, expected, calls, text, sent>>

(* The call ends at -1 or when there is nothing more to send.  After -2,   *)
(* -3 and -4 comm_sendGCodeData() goes on with the next packet.            *)
Continue(result) ==
  /\ rv' = IF result < 0 THEN result ELSE rv
  /\ calling' = (rv' # -1 /\ rest # <<>>)
  /\ awaiting' = FALSE
  /\ UNCHANGED <<rest, packetNum, expected, calls, text, sent>>

(* handleBasicResponse() *)
BasicResponse(reply) ==
  CASE reply.answer = "ok" -> IF reply.args = expected THEN 0 ELSE -1
    [] reply.answer = "error" -> -1
    [] reply.answer = "gcode_add_failed" -> -2
    [] reply.answer = "trx_cancelled" -> -3
    [] reply.answer = "retry_later" -> -4

(* sendAndReceiveDataWithFd(), second half.  The one read returns all      *)
(* that is there, and the call looks at the first reply in it.             *)
ReceiveReply ==
  /\ awaiting
  /\ toClient # <<>>
  /\ toClient' = <<>>
  /\ answered' = Append(answered, Head(toClient).to)
  /\ Continue(BasicResponse(Head(toClient)))
  /\ UNCHANGED <<serverVars, toServer, astray>>

(* IPC_WAIT_TIMEOUT has passed. *)
NoReply ==
  /\ awaiting
  /\ toClient = <<>>
  /\ astray' = TRUE
  /\ Continue(-1)
  /\ UNCHANGED <<answered, serverVars, toServer, toClient>>

ClientStep == CallRequest \/ CallSendGCode \/ SendPacket \/ ReceiveReply \/ NoReply

-----------------------------------------------------------------------------
(* The server.  Client::runCommands() runs every complete command before   *)
(* the next read, which returns some of the bytes that are there.          *)

ReadData ==
  /\ replying = <<>>
  /\ CommandLength(buffer) = 0
  /\ \E n \in 1..Len(toServer) :
       /\ buffer' = buffer \o SubSeq(toServer, 1, n)
       /\ toServer' = SubSeq(toServer, n + 1, Len(toServer))
  /\ UNCHANGED <<clientVars, toClient, replying, ran, astray>>

Reply(answer, args) == [answer |-> answer, args |-> args, to |-> Len(ran) + 1]

LastChunk(cmd) == ShortAt(cmd.args[2], 0) >= LastChunkBit

(* What the handlers of CommandHandler.cpp send *)
GCodeReplies(cmd) ==
  {told \o <<Reply(answer, IF answer = "ok" THEN 0 ELSE 1)>> :
     told \in {<<>>, <<Reply("trx_cancelled", 1)>>},
     answer \in {"ok"} \cup (IF LastChunk(cmd) THEN {"gcode_add_failed"} ELSE {})}

Replies(cmd) ==
  CASE cmd.code = IPC_CMDQ_GCODE_APPEND -> GCodeReplies(cmd)
    [] cmd.code = IPC_CMDQ_APPEND_FILE ->
         {<<Reply("ok", 0)>>, <<Reply("error", 1)>>, <<Reply("retry_later", 1)>>}
    [] cmd.code = IPC_CMDQ_GET_STATE -> {<<Reply("ok", 1)>>}
    [] OTHER -> {<<Reply("ok", 0)>>}

MutRunCommand ==
  /\ replying = <<>>
  /\ CommandLength(buffer) > 0
  /\ replying' \in Replies(Decoded(buffer))
  /\ ran' = Append(ran, Decoded(buffer))
  /\ buffer' = <<>>
  /\ astray' = (astray \/ Len(replying') > 1)
  /\ UNCHANGED <<clientVars, toServer, toClient>>

MutRunCommandAgain ==
  /\ replying = <<>>
  /\ CommandLength(buffer) > 0
  /\ replying' \in Replies(Decoded(buffer))
  /\ ran' = Append(ran, Decoded(buffer))
  /\ buffer' \in {buffer, Removed(buffer)}
  /\ astray' = (astray \/ Len(replying') > 1)
  /\ UNCHANGED <<clientVars, toServer, toClient>>

RunCommand ==
  /\ replying = <<>>
  /\ CommandLength(buffer) > 0
  /\ replying' \in Replies(Decoded(buffer))
  /\ ran' = Append(ran, Decoded(buffer))
  /\ buffer' = Removed(buffer)
  /\ astray' = (astray \/ Len(replying') > 1)
  /\ UNCHANGED <<clientVars, toServer, toClient>>

(* A handler's call of sendReply() or sendData() *)
SendReply ==
  /\ replying # <<>>
  /\ toClient' = Append(toClient, Head(replying))
  /\ replying' = Tail(replying)
  /\ UNCHANGED <<clientVars, toServer, buffer, ran, astray>>

ServerStep == ReadData \/ RunCommand \/ SendReply

-----------------------------------------------------------------------------
Next == ClientStep \/ ServerStep

Spec == Init /\ [][Next]_vars

(* The loop visits every client; a poll ends with data or its timeout. *)
FairSpec ==
  Spec /\ WF_vars(ServerStep) /\ WF_vars(SendPacket \/ ReceiveReply \/ NoReply)
-----------------------------------------------------------------------------
(* Properties *)

Answer == {"ok", "error", "gcode_add_failed", "trx_cancelled", "retry_later"}
AReply == [answer : Answer, args : Nat, to : Nat \ {0}]

TypeOK ==
  /\ calling \in BOOLEAN /\ awaiting \in BOOLEAN /\ astray \in BOOLEAN
  /\ awaiting => calling
  /\ calls \in 0..MaxCalls /\ packetNum \in Nat
  /\ rv \in -4..0 /\ expected \in {0, 1}
  /\ \A bytes \in {text, rest, toServer, buffer} : bytes \in Seq(Byte)
  /\ toClient \in Seq(AReply) /\ replying \in Seq(AReply)
  /\ \A cmds \in {sent, ran} : cmds \in Seq(Command)
  /\ answered \in Seq(Nat)

(* However the reads of the server cut the stream, and whatever requests a *)
(* client that stopped waiting has sent behind each other, the commands    *)
(* that are run, with all their arguments, are those that were sent: none  *)
(* twice, none made up, and none left when everything is read.             *)
RunsWhatIsSent ==
  /\ IsPrefix(ran, sent)
  /\ (toServer = <<>> /\ CommandLength(buffer) = 0) => ran = sent

(* The packets of the running or last call of comm_sendGCodeData(): they   *)
(* make up the text from its beginning, each of them within the size,      *)
(* ending at a line break unless it is the last; the first and no other is *)
(* marked as first, and one is marked as last if and only if the text is   *)
(* complete.  A result other than -1 means that all of it was sent.        *)
Packets == SubSeq(sent, Len(sent) - packetNum + 1, Len(sent))

TextInPackets ==
  LET bytes == FlattenSeq([i \in 1..packetNum |-> Packets[i].args[1]])
      bits(i) == ShortAt(Packets[i].args[2], 0)
  IN  /\ text = bytes \o rest
      /\ \A i \in 1..packetNum :
           /\ Len(Packets[i].args[1]) \in 1..MaxPacketSize
           /\ bits(i) % 2 = FirstChunkBit <=> i = 1
           /\ bits(i) >= LastChunkBit <=> i = packetNum /\ bytes = text
           /\ bits(i) < LastChunkBit => Last(Packets[i].args[1]) = LineBreak
      /\ ~calling /\ rv # -1 => rest = <<>>

(* As long as no reply has been given up and every request is answered     *)
(* once, a reply is for the request that waits for it.                     *)
AnswersInStep ==
  ~astray =>
    /\ \A i \in 1..Len(toClient) : awaiting /\ toClient[i].to = Len(sent)
    /\ \A i \in 1..Len(answered) :
         answered[i] = Len(sent) - (Len(answered) - i) - (IF awaiting THEN 1 ELSE 0)

(* A call comes back: comm_sendGCodeData() gets through its text or gives  *)
(* up, and the others are answered or time out.                            *)
CallReturns == calling ~> ~calling

(* handleBasicResponse(), comment: "returns 0 on success, -1 on error, -2  *)
(* if appending gcode failed, -3 if transaction was cancelled, -4 on       *)
(* retryable error": a call that returned 0 has seen the answers to its    *)
(* own requests.                                                           *)
ZeroMeansAnswered ==
  ~calling /\ rv = 0 =>
    \A i \in 1..Len(answered) : answered[i] = Len(sent) - Len(answered) + i
=============================================================================
