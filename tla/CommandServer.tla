---------------------------- MODULE CommandServer ----------------------------
(***************************************************************************)
(* The server's side of the command socket: the client loop of Server.cpp, *)
(* Client.cpp and the handlers of CommandHandler.cpp.                      *)
(*                                                                         *)
(* Every client has a connection, and on the server a Client object with a *)
(* transaction: the chunks of gcode it has sent since one that was marked  *)
(* as first.  A chunk marked as last hands them, as one text, to the       *)
(* driver's buffer.  A clear or a stop by one client marks the             *)
(* transactions of all others as cancelled.                                *)
(*                                                                         *)
(* The server is one thread and runs one request after the other; requests *)
(* of the clients interleave, and a client may go away at any time.  A     *)
(* request is in the model once its last byte has arrived: before that     *)
(* ipc_cmd_is_complete() keeps the loop from looking at it.                *)
(*                                                                         *)
(* Definitions named Mut... are deliberate mistakes; no specification uses *)
(* them.  Each shows a bug that one of the properties would catch.         *)
(***************************************************************************)
EXTENDS Integers, Sequences

CONSTANTS
  Client,       \* the programs that talk to the server
  MaxJobs,      \* bound: texts a client sends in a behaviour
  MaxChunks,    \* bound: chunks of a text
  MaxRequests,  \* bound: requests of a client in a behaviour
  MaxPending,   \* bound: requests of a client that have not been run
  Others        \* the requests that are sent besides append, file and stop

ASSUME BoundAssumption ==
  MaxJobs \in Nat /\ MaxChunks \in Nat \ {0} /\ MaxRequests \in Nat /\ MaxPending \in Nat

VARIABLES
  (* the clients *)
  link,      \* a client's connection, see Link
  job,       \* the number of the text a client sent last
  chunk,     \* chunks of it that are sent; 0 if it is complete
  sent,      \* requests a client has sent
  (* the sockets and the server *)
  requests,  \* a client's requests that have not been run
  trx,       \* the Client objects' transactions
  gcode,     \* chunks the driver's buffer has accepted since it was cleared
  (* histories *)
  ran,       \* requests of a client that have been run
  replies,   \* what the server sent in reply to the request it ran last
  stopped    \* <<client, job>> of texts cut off by a clear or stop

clientVars == <<link, job, chunk, sent>>
vars == <<clientVars, requests, trx, gcode, ran, replies, stopped>>

-----------------------------------------------------------------------------
(* A connection that the server has not yet accepted is "waiting"; one     *)
(* that the client has closed, and the server not noticed, is "closed".    *)
Link == {"none", "waiting", "open", "closed"}

Connected == {"waiting", "open"}

(* A piece of a text; a file or an end code is a text of one piece. *)
Text == [client : Client, job : Nat, chunk : Nat, last : BOOLEAN]

(* The requests, by what their handler does.  "ask" stands for test and    *)
(* the getters, "wrong" for a request without an argument that its handler *)
(* insists on, "unknown" for a code without a handler.                     *)
Op == {"append", "file", "clear", "start", "stop", "heatup", "ask",
       "wrong", "wrongFile", "unknown"}

Request == [op : Op, text : Text, first : BOOLEAN, last : BOOLEAN]

Answer == {"ok", "error", "gcode_add_failed", "retry_later", "trx_cancelled"}

Transaction == [buffer : Seq(Text), active : BOOLEAN, cancelled : BOOLEAN]

MutFreshTransaction == [buffer |-> <<>>, active |-> FALSE]

FreshTransaction == [buffer |-> <<>>, active |-> FALSE, cancelled |-> FALSE]

ASSUME OthersAssumption == Others \subseteq Op \ {"append", "file", "stop"}

-----------------------------------------------------------------------------
Init ==
  /\ link = [c \in Client |-> "none"]
  /\ job = [c \in Client |-> 0]
  /\ chunk = [c \in Client |-> 0]
  /\ sent = [c \in Client |-> 0]
  /\ requests = [c \in Client |-> <<>>]
  /\ trx = [c \in Client |-> FreshTransaction]
  /\ gcode = <<>>
  /\ ran = [c \in Client |-> 0]
  /\ replies = <<>>
  /\ stopped = {}

-----------------------------------------------------------------------------
(* The clients.  comm_sendGCodeData() sends the chunks of a text in order; *)
(* it may stop short, and the next text begins with a first chunk again    *)
(* (IpcConnection.tla has when and why).  The other requests may come at   *)
(* any time.                                                               *)

Send(c, op, text) ==
  /\ link[c] \in Connected
  /\ sent[c] < MaxRequests
  /\ Len(requests[c]) < MaxPending
  /\ sent' = [sent EXCEPT ![c] = @ + 1]
  /\ requests' = [requests EXCEPT ![c] =
       Append(@, [op |-> op, text |-> text,
                  first |-> text.chunk = 1, last |-> text.last])]
  /\ UNCHANGED <<link, trx, gcode, ran, replies, stopped>>

TextOf(c, j, k, last) == [client |-> c, job |-> j, chunk |-> k, last |-> last]

BeginText(c) ==
  /\ job[c] < MaxJobs
  /\ \E last \in BOOLEAN :
       /\ Send(c, "append", TextOf(c, job[c] + 1, 1, last))
       /\ chunk' = [chunk EXCEPT ![c] = IF last THEN 0 ELSE 1]
  /\ job' = [job EXCEPT ![c] = @ + 1]

ContinueText(c) ==
  /\ chunk[c] \in 1..(MaxChunks - 1)
  /\ \E last \in BOOLEAN :
       /\ Send(c, "append", TextOf(c, job[c], chunk[c] + 1, last))
       /\ chunk' = [chunk EXCEPT ![c] = IF last THEN 0 ELSE @ + 1]
  /\ UNCHANGED job

(* A file, or a stop with its end code *)
SendWhole(c) ==
  /\ job[c] < MaxJobs
  /\ \E op \in {"file", "stop"} :
       Send(c, op, TextOf(c, job[c] + 1, 1, TRUE))
  /\ job' = [job EXCEPT ![c] = @ + 1]
  /\ chunk' = [chunk EXCEPT ![c] = 0]

SendOther(c) ==
  /\ \E op \in Others :
       Send(c, op, TextOf(c, 0, 0, TRUE))
  /\ UNCHANGED <<job, chunk>>

Connect(c) ==
  /\ link[c] = "none"
  /\ sent[c] < MaxRequests
  /\ link' = [link EXCEPT ![c] = "waiting"]
  /\ chunk' = [chunk EXCEPT ![c] = 0]
  /\ UNCHANGED <<job, sent, requests, trx, gcode, ran, replies, stopped>>

(* A client closes its connection or dies; what it has sent stays. *)
Close(c) ==
  /\ link[c] = "open"
  /\ link' = [link EXCEPT ![c] = "closed"]
  /\ UNCHANGED <<job, chunk, sent, requests, trx, gcode, ran, replies, stopped>>

ClientStep(c) ==
  \/ BeginText(c) \/ ContinueText(c) \/ SendWhole(c) \/ SendOther(c)
  \/ Connect(c) \/ Close(c)

-----------------------------------------------------------------------------
(* The handlers of CommandHandler.cpp.  Each is given the request at the   *)
(* head of the client's buffer; runCommands() removes it afterwards.       *)

Accepted == {c \in Client : link[c] \in {"open", "closed"}}

Reply(answers) == replies' = answers

(* Server::cancelAllTransactions(), leaving out the client that asks *)
CancelAllTransactions(c) ==
  /\ trx' = [d \in Client |-> IF d \in Accepted \ {c}
                              THEN [trx[d] EXCEPT !.cancelled = TRUE] ELSE trx[d]]
  /\ stopped' = stopped \cup
       {<<d, trx[d].buffer[1].job>> : d \in {e \in Accepted \ {c} : trx[e].active}}

HndGcodeClear(c) ==
  /\ CancelAllTransactions(c)
  /\ gcode' = <<>>
  /\ Reply(<<"ok">>)

(* The transaction when a chunk has arrived *)
MutCollected(t, r) == [t EXCEPT !.buffer = Append(@, r.text), !.active = @ \/ r.first]

Collected(t, r) ==
  [t EXCEPT !.buffer = Append(IF r.first THEN <<>> ELSE @, r.text),
            !.active = @ \/ r.first]

(* If the transaction is cancelled the client is told so; the chunk is     *)
(* taken all the same.  The driver may refuse the text (GCodeBuffer.tla    *)
(* has the reasons), which then leaves its buffer as it was.               *)
MutHndGcodeAppend(c, r) ==
  LET t == Collected(trx[c], r)
  IN  /\ Reply(<<"ok">>)
      /\ trx' = [trx EXCEPT ![c] =
           IF r.last THEN [t EXCEPT !.buffer = <<>>, !.active = FALSE] ELSE t]
      /\ \E fits \in BOOLEAN : gcode' = IF r.last /\ fits THEN gcode \o t.buffer ELSE gcode
      /\ UNCHANGED stopped

HndGcodeAppend(c, r) ==
  LET t    == Collected(trx[c], r)
      told == IF t.cancelled THEN <<"trx_cancelled">> ELSE <<>>
  IN  /\ \/ /\ ~r.last
            /\ trx' = [trx EXCEPT ![c] = t]
            /\ UNCHANGED gcode
            /\ Reply(Append(told, "ok"))
         \/ /\ r.last
            /\ trx' = [trx EXCEPT ![c] = [t EXCEPT !.buffer = <<>>, !.active = FALSE]]
            /\ \/ gcode' = gcode \o t.buffer /\ Reply(Append(told, "ok"))
               \/ UNCHANGED gcode /\ Reply(Append(told, "gcode_add_failed"))
      /\ UNCHANGED stopped

(* The file can not be read, or its text is given to the driver, whose     *)
(* answer is ignored.                                                      *)
HndGcodeAppendFile(c, r) ==
  /\ \/ trx[c].active /\ Reply(<<"retry_later">>) /\ UNCHANGED gcode
     \/ ~trx[c].active /\ Reply(<<"error">>) /\ UNCHANGED gcode
     \/ ~trx[c].active /\ Reply(<<"ok">>) /\ gcode' \in {gcode, Append(gcode, r.text)}
  /\ UNCHANGED <<trx, stopped>>

(* The driver replaces its buffer by the end code, or by nothing if it is  *)
(* refused.                                                                *)
HndGcodeStopPrint(c, r) ==
  /\ CancelAllTransactions(c)
  /\ gcode' \in {<<>>, <<r.text>>}
  /\ Reply(<<"ok">>)

(* hnd_gcodeStartPrint(), hnd_heatup(), hnd_test() and the getters: what   *)
(* they do to the driver is in MarlinDriver.tla.                           *)
HndOther == Reply(<<"ok">>) /\ UNCHANGED <<trx, gcode, stopped>>

(* A missing argument.  hnd_gcodeAppendFile() does not return after its    *)
(* complaint and goes on without a file name.                              *)
HndMissingArgument(c, r) ==
  /\ Reply(IF r.op = "wrong" THEN <<"error">>
              ELSE IF trx[c].active THEN <<"error", "retry_later">>
              ELSE <<"error", "error">>)
  /\ UNCHANGED <<trx, gcode, stopped>>

(* runCommand() finds no handler: nothing is sent. *)
NoHandler == Reply(<<>>) /\ UNCHANGED <<trx, gcode, stopped>>

RunCommand(c, r) ==
  \/ r.op = "append" /\ HndGcodeAppend(c, r)
  \/ r.op = "file" /\ HndGcodeAppendFile(c, r)
  \/ r.op = "clear" /\ HndGcodeClear(c)
  \/ r.op = "stop" /\ HndGcodeStopPrint(c, r)
  \/ r.op \in {"start", "heatup", "ask"} /\ HndOther
  \/ r.op \in {"wrong", "wrongFile"} /\ HndMissingArgument(c, r)
  \/ r.op = "unknown" /\ NoHandler

-----------------------------------------------------------------------------
(* The server's loop *)

Accept(c) ==
  /\ link[c] = "waiting"
  /\ link' = [link EXCEPT ![c] = "open"]
  /\ trx' = [trx EXCEPT ![c] = FreshTransaction]
  /\ UNCHANGED <<job, chunk, sent, requests, gcode, ran, replies, stopped>>

(* Client::runCommands() runs all requests that have arrived, which may be *)
(* one only; so a step per request allows what the loop does.              *)
RunCommands(c) ==
  /\ c \in Accepted
  /\ requests[c] # <<>>
  /\ RunCommand(c, Head(requests[c]))
  /\ requests' = [requests EXCEPT ![c] = Tail(@)]
  /\ ran' = [ran EXCEPT ![c] = @ + 1]
  /\ UNCHANGED clientVars

(* The loop closes a connection and deletes the Client object when it has  *)
(* read to the end, and has run what it had read by then.                  *)
MutHangUp(c) ==
  /\ link[c] = "closed"
  /\ link' = [link EXCEPT ![c] = "none"]
  /\ requests' = [requests EXCEPT ![c] = <<>>]
  /\ UNCHANGED <<job, chunk, sent, trx, gcode, ran, replies, stopped>>

HangUp(c) ==
  /\ link[c] = "closed"
  /\ requests[c] = <<>>
  /\ link' = [link EXCEPT ![c] = "none"]
  /\ UNCHANGED <<job, chunk, sent, requests, trx, gcode, ran, replies, stopped>>

ServerStep(c) == Accept(c) \/ RunCommands(c) \/ HangUp(c)

-----------------------------------------------------------------------------
Next == \E c \in Client : ClientStep(c) \/ ServerStep(c)

Spec == Init /\ [][Next]_vars

(* Every turn of the server's loop visits every client.  Clients may do    *)
(* nothing.                                                                *)
FairSpec == Spec /\ \A c \in Client : WF_vars(ServerStep(c))
-----------------------------------------------------------------------------
(* Properties *)

TypeOK ==
  /\ link \in [Client -> Link]
  /\ job \in [Client -> 0..MaxJobs]
  /\ chunk \in [Client -> 0..MaxChunks]
  /\ sent \in [Client -> 0..MaxRequests]
  /\ requests \in [Client -> Seq(Request)]
  /\ trx \in [Client -> Transaction]
  /\ gcode \in Seq(Text)
  /\ ran \in [Client -> Nat]
  /\ replies \in Seq(Answer)
  /\ stopped \subseteq Client \X Nat

(* A text in the driver's buffer begins with its first chunk, ends with    *)
(* its last and is in one piece, however the chunks of several clients     *)
(* interleave, and whatever a client that broke off, closed or reconnected *)
(* had sent before.                                                        *)
Continues(piece, next) ==
  /\ next.client = piece.client /\ next.job = piece.job
  /\ next.chunk = piece.chunk + 1

TextsInOnePiece ==
  \A i \in 1..Len(gcode) :
    /\ gcode[i].chunk > 1 => i > 1 /\ Continues(gcode[i - 1], gcode[i])
    /\ ~gcode[i].last => i < Len(gcode) /\ Continues(gcode[i], gcode[i + 1])

(* hnd_gcodeAppend() says "ok" to the last chunk of a text if and only if  *)
(* all of the text's chunks are in the driver's buffer then.               *)
ChunksOf(r) == 
  [k \in 1..r.text.chunk |->
     TextOf(r.text.client, r.text.job, k, k = r.text.chunk)]

OkMeansAppended ==
  [][ \A c \in Client :
        (RunCommands(c) /\ Head(requests[c]).op = "append" /\ Head(requests[c]).last) =>
          (replies'[Len(replies')] = "ok"
             <=> gcode' = gcode \o ChunksOf(Head(requests[c]))) ]_vars

(* Every request is run, also if the client closes the connection as soon  *)
(* as it has sent it, or sent it before the server accepted it.            *)
EveryRequestRuns ==
  \A c \in Client : \A n \in 1..MaxRequests : sent[c] = n ~> ran[c] >= n

(* hnd_gcodeStopPrint(), comment: "make sure no other gcode transfers      *)
(* continue after sending stop gcode".                                     *)
NoTransferContinues ==
  \A i \in 1..Len(gcode) : <<gcode[i].client, gcode[i].job>> \notin stopped
=============================================================================
