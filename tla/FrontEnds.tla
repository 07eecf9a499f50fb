----------------------------- MODULE FrontEnds -----------------------------
(***************************************************************************)
(* The programs in front of the servers: the command line client (main()   *)
(* in fe_cmdline.c, the actions of actions.c) and programs that use the    *)
(* Lua module (fe_lua.c).  Both go through communicator.c, which has one   *)
(* socket per process; every printer has a server of its own.              *)
(*                                                                         *)
(* An invocation of the command line client, and a call of a Lua function, *)
(* is here a "call": a list of requests, sent one after the other, each    *)
(* after the answer to the one before or after waiting in vain.  A text of *)
(* gcode is one request: IpcConnection.tla has its packets, and            *)
(* CommandServer.tla what becomes of the chunks.  Output is that of JSON   *)
(* mode.  Left out is the self-test behind -g trxtest.  Requests of a      *)
(* client that has stopped waiting, or closed its connection, are run all  *)
(* the same.  Servers come and go.                                         *)
(*                                                                         *)
(* Definitions named Mut... are deliberate mistakes; no specification uses *)
(* them.  Each shows a bug that one of the properties would catch.         *)
(***************************************************************************)
EXTENDS Integers, Sequences, FiniteSets, SequencesExt

CONSTANTS
  Dev,         \* the names of printers, in /dev and in the sockets' names
  DefaultDev,  \* IPC_DEFAULT_DEVICE_ID
  CmdLine,     \* users of the command line client
  Lua,         \* processes that use the Lua module
  Invocations, \* the command lines: sequences of options
  LuaCalls,    \* the functions that Lua programs call
  MaxCalls,    \* bound: calls of all processes together
  MaxStarts    \* bound: starts of a printer's server

Process == CmdLine \cup Lua

(* An option of the command line, by what it sets *)
None   == "none"
Action == {None, "help", "temperature", "test", "progress", "state", "supported",
           "heatup", "file", "relative", "code", "stdin", "stop",
           "unknown", "missing", "invalid_get"}
Option == [action : Action, device : Dev \cup {None}, force : BOOLEAN]

ASSUME DeviceAssumption == DefaultDev \in Dev /\ None \notin Dev
ASSUME ProcessAssumption == CmdLine \cap Lua = {}
LuaAction == {"temperature", "progress", "state", "heatup", "stop", "clear", "start",
              "code", "file"}

ASSUME InputAssumption == Invocations \subseteq Seq(Option) /\ LuaCalls \subseteq LuaAction
ASSUME BoundAssumption == MaxCalls \in Nat /\ MaxStarts \in Nat

VARIABLES
  (* a process *)
  call,      \* the call it is in, or was in last
  socket,    \* socketFd, as [dev, server, conn]; Closed
  calls,     \* how many calls it has begun
  replies,   \* answers that are in its socket
  (* the servers *)
  server,    \* a printer's server: 0, or which of its servers it is
  starts,    \* how many it has had
  queue,     \* requests a server has to run
  trx,       \* the Client object of a process's connection
  gcode,     \* the texts in a driver's buffer
  (* histories *)
  done,      \* requests of the call that were run and answered by OK
  print,     \* what the call's start found in the buffer, see PrintNote
  left       \* the printer of a call that was left with its socket open

procVars   == <<call, socket, calls, replies>>
serverVars == <<server, starts, queue, trx, gcode>>
histories  == <<done, print, left>>
vars == <<procVars, serverVars, histories>>

-----------------------------------------------------------------------------
Closed == [dev |-> None, server |-> 0, conn |-> 0]

Req == {"clear", "append", "file", "start", "stop", "heatup", "get", "test"}

(* A text, never empty, is known by the call that sends it.  junk: the one *)
(* act_sendGcodeFromStdin() reads is not ended by a nul byte, and what     *)
(* follows it in memory may be sent too.                                   *)
Text == [from : Process, call : Nat, junk : BOOLEAN]

Entry == [from : Process, conn : Nat, number : Nat, req : Req, junk : BOOLEAN]

(* "open": main() or the Lua function is about to open the socket *)
Phase == {"idle", "open", "send", "wait"}

Status == {"OK", "ERR"}

-----------------------------------------------------------------------------
(* The command line: parseOptions() and the choice of a device in main()   *)

NeedsDevice(action) ==
  action \in {"temperature", "test", "progress", "state", "heatup",
              "file", "relative", "code", "stdin", "stop"}

Errors == {"unknown", "missing", "invalid_get"}

(* What was given last counts, of the actions and of the devices. *)
LastGiven(values) ==
  LET given == {i \in 1..Len(values) : values[i] # None}
  IN  IF given = {} THEN None ELSE values[Max(given)]

Parse(options) ==
  [action   |-> LastGiven([i \in 1..Len(options) |-> options[i].action]),
   device   |-> LastGiven([i \in 1..Len(options) |-> options[i].device]),
   force    |-> \E i \in 1..Len(options) : options[i].force,
   required |-> \E i \in 1..Len(options) : NeedsDevice(options[i].action)]

(* The device given, the only one plugged in, or with -F the default; None *)
(* if there is no choice.                                                  *)
ChosenDevice(parsed, plugged) ==
  IF parsed.device # None \/ ~parsed.required THEN parsed.device
  ELSE IF Cardinality(plugged) = 1 THEN CHOOSE d \in plugged : TRUE
  ELSE IF plugged = {} /\ parsed.force THEN DefaultDev
  ELSE None

-----------------------------------------------------------------------------
(* The requests of a call *)

MutScript(action) ==
  CASE action = "temperature" -> [i \in 1..5 |-> "get"]
    [] action = "test" -> <<"test", "test">>
    [] action \in {"progress", "state"} -> <<"get">>
    [] action = "heatup" -> <<"heatup">>
    [] action = "stop" -> <<"stop">>
    [] action = "file" -> <<"file", "start">>
    [] action \in {"code", "stdin"} -> <<"append", "start">>
    [] OTHER -> <<>>

(* act_...(): what an action of the command line client asks for *)
Script(action) ==
  CASE action = "temperature" -> [i \in 1..5 |-> "get"]
    [] action = "test" -> <<"test", "test">>
    [] action \in {"progress", "state"} -> <<"get">>
    [] action = "heatup" -> <<"heatup">>
    [] action = "stop" -> <<"stop">>
    [] action = "file" -> <<"clear", "file", "start">>
    [] action \in {"code", "stdin"} -> <<"clear", "append", "start">>
    [] OTHER -> <<>>

(* l_...(): a function of the Lua module *)
LuaScript(action) ==
  CASE action = "temperature" -> [i \in 1..5 |-> "get"]
    [] action \in {"progress", "state"} -> <<"get">>
    [] action = "heatup" -> <<"heatup">>
    [] action = "stop" -> <<"stop">>
    [] action = "clear" -> <<"clear">>
    [] action = "start" -> <<"start">>
    [] action = "code" -> <<"append">>
    [] action = "file" -> <<"file">>

(* Getting the temperatures and the test go on after a failure in the      *)
(* command line client; everything else ends with it.                      *)
EndsAtFailure(p) == p \in Lua \/ call[p].action \notin {"temperature", "test"}

Failures(results) == Cardinality({i \in 1..Len(results) : results[i] < 0})

(* What the command line client prints in JSON mode, and its exit status,  *)
(* after requests with these results: an error for each that failed; the   *)
(* temperatures are printed all the same, and the test is fine if its      *)
(* second half was.                                                        *)
MutExit(results) == IF results # <<>> /\ Last(results) < 0 THEN 1 ELSE 0

Exit(results) == IF Failures(results) > 0 THEN 1 ELSE 0

Printed(action, results) ==
  [i \in 1..Failures(results) |-> "ERR"]
    \o (IF \/ Failures(results) = 0
           \/ action = "temperature"
           \/ action = "test" /\ Last(results) >= 0
        THEN <<"OK">> ELSE <<>>)

(* The status of the Lua module's results: true is 0, nil 1, false 2       *)
LuaStatus(result) == IF result = -1 THEN 1 ELSE IF result < -1 THEN 2 ELSE 0

-----------------------------------------------------------------------------
Called(phase, action, dev) ==
  [phase |-> phase, action |-> action, dev |-> dev, results |-> <<>>,
   printed |-> <<>>, exit |-> 0]

Ended(action, printed, exit) ==
  [phase |-> "idle", action |-> action, dev |-> None, results |-> <<>>,
   printed |-> printed, exit |-> exit]

Init ==
  /\ call = [p \in Process |-> Ended(None, <<>>, 1)]
  /\ socket = [p \in Process |-> Closed]
  /\ calls = [p \in Process |-> 0]
  /\ replies = [p \in Process |-> <<>>]
  /\ server = [d \in Dev |-> 0]
  /\ starts = [d \in Dev |-> 0]
  /\ queue = [d \in Dev |-> {}]
  /\ trx = [p \in Process |-> "waiting"]
  /\ gcode = [d \in Dev |-> <<>>]
  /\ done = [p \in Process |-> <<>>]
  /\ print = [p \in Process |-> [alone |-> FALSE, found |-> <<>>]]
  /\ left = [p \in Process |-> None]

-----------------------------------------------------------------------------
(* What a call has done matters no longer. *)
Forget(p) ==
  /\ done' = [done EXCEPT ![p] = <<>>]
  /\ print' = [print EXCEPT ![p] = [alone |-> FALSE, found |-> <<>>]]

(* A call begins. *)
Begin(p) ==
  /\ call[p].phase = "idle"
  /\ FoldFunction(+, 0, calls) < MaxCalls
  /\ calls' = [calls EXCEPT ![p] = @ + 1]
  /\ UNCHANGED <<socket, replies, left, serverVars>>
  /\ Forget(p)

MutInvoked(parsed, plugged) ==
  LET device == ChosenDevice(parsed, plugged)
  IN  CASE parsed.action \in Errors -> Ended(parsed.action, <<"ERR">>, 2)
        [] parsed.action = "supported" -> Ended(parsed.action, <<"OK">>, 5)
        [] parsed.action \in {None, "help"} -> Ended(parsed.action, <<"OK">>, 0)
        [] NeedsDevice(parsed.action) -> Called("open", parsed.action, device)

(* main(), up to the opening of the socket in handleAction(), with the      *)
(* printers that are in /dev just now                                      *)
Invoked(parsed, plugged) ==
  LET device == ChosenDevice(parsed, plugged)
  IN  CASE parsed.action \in Errors -> Ended(parsed.action, <<"ERR">>, 2)
        [] parsed.action \notin Errors /\ parsed.required /\ device = None ->
             Ended(parsed.action, <<"ERR">>, 1)
        [] parsed.action = "supported" /\ (parsed.required => device # None) ->
             Ended(parsed.action, <<"OK">>, 5)
        [] parsed.action \in {None, "help"} /\ (parsed.required => device # None) ->
             Ended(parsed.action, <<"OK">>, 0)
        [] OTHER -> Called("open", parsed.action, device)

Invoke(p) ==
  /\ p \in CmdLine
  /\ Begin(p)
  /\ \E options \in Invocations, plugged \in SUBSET Dev :
       call' = [call EXCEPT ![p] = Invoked(Parse(options), plugged)]

(* A Lua program calls a function of one of its printers: initContext()    *)
(* takes the socket as it is if it is open.                                *)
LuaCall(p) ==
  /\ p \in Lua
  /\ Begin(p)
  /\ \E action \in LuaCalls, d \in Dev :
       call' = [call EXCEPT ![p] =
         Called(IF socket[p] = Closed THEN "open" ELSE "send", action, d)]

(* The function is left between initContext() and comm_closeSocket(): an   *)
(* argument is missing, or luaL_check...() raises an error over it.        *)
LuaAbort(p) ==
  /\ p \in Lua
  /\ call[p].phase = "send"
  /\ call[p].action \in {"code", "file", "stop", "heatup"}
  /\ call' = [call EXCEPT ![p] = Ended(@.action, <<>>, 1)]
  /\ left' = [left EXCEPT ![p] = socket[p].dev]
  /\ UNCHANGED <<socket, calls, replies, serverVars>>
  /\ Forget(p)

-----------------------------------------------------------------------------
(* The socket: comm_openSocket(), comm_closeSocket() *)

Alive(p) == socket[p] # Closed /\ server[socket[p].dev] = socket[p].server

(* No one listens: the call is over. *)
OpenFails(p) ==
  /\ call[p].phase = "open"
  /\ server[call[p].dev] = 0
  /\ call' = [call EXCEPT ![p] =
       Ended(@.action, IF p \in CmdLine THEN <<"ERR">> ELSE <<>>, 1)]
  /\ UNCHANGED <<socket, calls, replies, serverVars, histories>>

Open(p) ==
  /\ call[p].phase = "open"
  /\ server[call[p].dev] # 0
  /\ IF call[p].action = "relative"  \* complained about twice
     THEN /\ call' = [call EXCEPT ![p] = Ended("relative", <<"ERR", "ERR">>, 1)]
          /\ UNCHANGED <<socket, trx>>
     ELSE /\ call' = [call EXCEPT ![p].phase = "send"]
          /\ socket' = [socket EXCEPT ![p] =
               [dev |-> call[p].dev, server |-> server[call[p].dev], conn |-> calls[p]]]
          /\ trx' = [trx EXCEPT ![p] = "waiting"]
  /\ UNCHANGED <<calls, replies, server, starts, queue, gcode, histories>>

MutClose(p) == replies' = [replies EXCEPT ![p] = <<>>] /\ UNCHANGED <<socket, left>>

Close(p) ==
  /\ socket' = [socket EXCEPT ![p] = Closed]
  /\ replies' = [replies EXCEPT ![p] = <<>>]
  /\ left' = [left EXCEPT ![p] = None]

-----------------------------------------------------------------------------
(* The requests: sendAndReceiveDataWithFd() and the actions around it *)

ScriptOf(p) == IF p \in Lua THEN LuaScript(call[p].action) ELSE Script(call[p].action)

(* A request has its result: the next one, or the end of the call. *)
Result(p, result) ==
  LET results == Append(call[p].results, result)
  IN  IF Len(results) = Len(ScriptOf(p)) \/ (result < 0 /\ EndsAtFailure(p))
      THEN /\ call' = [call EXCEPT ![p] =
                IF p \in Lua THEN Ended(@.action, <<>>, LuaStatus(result))
                ELSE Ended(@.action, Printed(@.action, results), Exit(results))]
           /\ Close(p)
           /\ IF call'[p].exit = 0 THEN UNCHANGED <<done, print>> ELSE Forget(p)
      ELSE /\ call' = [call EXCEPT ![p].results = results, ![p].phase = "send"]
           /\ replies' = [replies EXCEPT ![p] = <<>>]
           /\ UNCHANGED <<socket, histories>>

Send(p) ==
  /\ call[p].phase = "send"
  /\ Alive(p)
  /\ \E junk \in (IF call[p].action = "stdin" THEN BOOLEAN ELSE {FALSE}) :
       queue' = [queue EXCEPT ![socket[p].dev] = @ \cup
         {[from |-> p, conn |-> socket[p].conn, number |-> Len(call[p].results) + 1,
           req |-> ScriptOf(p)[Len(call[p].results) + 1], junk |-> junk]}]
  /\ call' = [call EXCEPT ![p].phase = "wait"]
  /\ UNCHANGED <<socket, calls, replies, server, starts, trx, gcode, histories>>

(* The server is gone, or a line of the text is longer than a packet. *)
SendFails(p) ==
  /\ call[p].phase = "send"
  /\ ~Alive(p) \/ ScriptOf(p)[Len(call[p].results) + 1] = "append"
  /\ Result(p, -1)
  /\ UNCHANGED <<calls, serverVars>>

(* The one read returns all that is there; the first answer counts. *)
Receive(p) ==
  /\ call[p].phase = "wait"
  /\ replies[p] # <<>>
  /\ Result(p, Head(replies[p]))
  /\ UNCHANGED <<calls, serverVars>>

MutNoReply(p) ==
  /\ call[p].phase = "wait"
  /\ replies[p] = <<>>
  /\ ~Alive(p)
  /\ Result(p, -1)
  /\ UNCHANGED <<calls, serverVars>>

(* IPC_WAIT_TIMEOUT has passed, or the server has gone. *)
NoReply(p) ==
  /\ call[p].phase = "wait"
  /\ replies[p] = <<>>
  /\ Result(p, -1)
  /\ UNCHANGED <<calls, serverVars>>

Step(p) == OpenFails(p) \/ Open(p) \/ Send(p) \/ SendFails(p) \/ Receive(p) \/ NoReply(p)

ProcessStep(p) == Invoke(p) \/ LuaCall(p) \/ LuaAbort(p) \/ Step(p)

-----------------------------------------------------------------------------
(* The servers, with the handlers of CommandHandler.cpp *)

Accept(p) ==
  /\ Alive(p)
  /\ trx[p] = "waiting"
  /\ trx' = [trx EXCEPT ![p] = "open"]
  /\ UNCHANGED <<procVars, server, starts, queue, gcode, histories>>

(* The request is of the connection that its process has now. *)
Live(e) == socket[e.from].conn = e.conn /\ Alive(e.from)

(* A clear or a stop cancels what other clients of the server are sending. *)
CancelAllTransactions(d, e) ==
  trx' = [p \in Process |->
            IF /\ p # e.from \/ ~Live(e)
               /\ Alive(p) /\ socket[p].dev = d /\ trx[p] # "waiting"
            THEN "cancelled" ELSE trx[p]]

TextOf(e) == [from |-> e.from, call |-> e.conn, junk |-> e.junk]

(* The answer to a request, and the buffer after it.  A cancelled client   *)
(* is told so, and its text is taken all the same; a file's text may be    *)
(* refused without a word.                                                 *)
Handled(d, e, answer, after) ==
  LET appended == Append(gcode[d], TextOf(e))
  IN  CASE e.req = "clear" -> answer = 0 /\ after = <<>>
        [] e.req = "stop" -> answer = 0 /\ after \in {<<>>, <<TextOf(e)>>}
        [] e.req = "append" ->
             IF Live(e) /\ trx[e.from] = "cancelled"
             THEN answer = -3 /\ after \in {gcode[d], appended}
             ELSE \/ answer = 0 /\ after = appended
                  \/ answer = -2 /\ after = gcode[d]
        [] e.req = "file" ->
             \/ answer = 0 /\ after \in {gcode[d], appended}
             \/ answer = -1 /\ after = gcode[d]
        [] OTHER -> answer = 0 /\ after = gcode[d]

(* What the history keeps of a process when request e is run at d          *)
PrintNote(p, d, e) ==
  LET own == e.from = p /\ Live(e)
  IN  CASE own /\ e.number = 1 -> [alone |-> TRUE, found |-> <<>>]
        [] own /\ e.req = "start" -> [print[p] EXCEPT !.found = gcode[d]]
        [] ~own /\ socket[p].dev = d /\ "start" \notin Range(done[p]) ->
             [print[p] EXCEPT !.alone = FALSE]
        [] OTHER -> print[p]

Serve(d) ==
  \E e \in queue[d], answer \in -3..0, after \in
      {gcode[d], <<>>} \cup UNION {{<<TextOf(f)>>, Append(gcode[d], TextOf(f))} : f \in queue[d]} :
    /\ server[d] # 0
    /\ \A f \in queue[d] : f.from = e.from /\ f.conn = e.conn => e.number <= f.number
    /\ Live(e) => trx[e.from] # "waiting"
    /\ Handled(d, e, answer, after)
    /\ gcode' = [gcode EXCEPT ![d] = after]
    /\ queue' = [queue EXCEPT ![d] = @ \ {e}]
    /\ IF e.req \in {"clear", "stop"} THEN CancelAllTransactions(d, e) ELSE UNCHANGED trx
    /\ IF Live(e)
       THEN /\ replies' = [replies EXCEPT ![e.from] = Append(@, answer)]
            /\ done' = [done EXCEPT ![e.from] = IF answer = 0 THEN Append(@, e.req) ELSE @]
       ELSE UNCHANGED <<replies, done>>
    /\ print' = [p \in Process |-> PrintNote(p, d, e)]
    /\ UNCHANGED <<call, socket, calls, server, starts, left>>

StartServer(d) ==
  /\ server[d] = 0
  /\ starts[d] < MaxStarts
  /\ starts' = [starts EXCEPT ![d] = @ + 1]
  /\ server' = [server EXCEPT ![d] = starts[d] + 1]
  /\ UNCHANGED <<procVars, queue, trx, gcode, histories>>

StopServer(d) ==
  /\ server[d] # 0
  /\ server' = [server EXCEPT ![d] = 0]
  /\ queue' = [queue EXCEPT ![d] = {}]
  /\ gcode' = [gcode EXCEPT ![d] = <<>>]
  /\ UNCHANGED <<procVars, starts, trx, histories>>

ServerStep(d) == Serve(d) \/ StartServer(d) \/ StopServer(d)

-----------------------------------------------------------------------------
Next ==
  \/ \E p \in Process : ProcessStep(p) \/ Accept(p)
  \/ \E d \in Dev : ServerStep(d)

Spec == Init /\ [][Next]_vars

(* A process goes on: connect() and send() return, and a poll ends with    *)
(* data or its timeout.  Servers may do nothing.                           *)
FairSpec == Spec /\ \A p \in Process : WF_vars(Step(p))
-----------------------------------------------------------------------------
(* Properties *)

Call == [phase : Phase, action : Action \cup LuaAction, dev : Dev \cup {None},
         results : Seq(-4..0), printed : Seq(Status), exit : {0, 1, 2, 5}]

TypeOK ==
  /\ call \in [Process -> Call]
  /\ \A p \in Process : call[p].phase # "idle" => call[p].dev \in Dev
  /\ \A p \in Process : call[p].phase \in {"send", "wait"} => socket[p] # Closed
  /\ socket \in [Process -> [dev : Dev \cup {None}, server : Nat, conn : Nat]]
  /\ calls \in [Process -> Nat]
  /\ replies \in [Process -> Seq(-4..0)]
  /\ server \in [Dev -> 0..MaxStarts] /\ starts \in [Dev -> 0..MaxStarts]
  /\ queue \in [Dev -> SUBSET Entry]
  /\ trx \in [Process -> {"waiting", "open", "cancelled"}]
  /\ gcode \in [Dev -> Seq(Text)]
  /\ done \in [Process -> Seq(Req)]
  /\ print \in [Process -> [alone : BOOLEAN, found : Seq(Text)]]
  /\ left \in [Process -> Dev \cup {None}]

(* Exit status 0, or true from a Lua function, tells the truth: each       *)
(* request of the call has been run, once and in order, by the server of   *)
(* one connection, and answered by OK; and the client has said OK and      *)
(* nothing else.  Timeouts, late answers and servers that stop or start in *)
(* between make no difference.                                             *)
ZeroMeansDone ==
  \A p \in Process :
    (call[p].phase = "idle" /\ call[p].exit = 0) =>
      /\ done[p] = ScriptOf(p)
      /\ p \in CmdLine => call[p].printed = <<"OK">>

(* A print is three requests.  If the client reports success and no other  *)
(* client's request, nor a late one of an earlier call, was run between    *)
(* the first and the last of them, then what was started is the text and   *)
(* nothing else: nothing is left over from a call that failed half way.  A *)
(* file may be missing, since hnd_gcodeAppendFile() ignores the driver's   *)
(* answer, and text from stdin may end in junk.                            *)
Own(p, junk) == [from |-> p, call |-> calls[p], junk |-> junk]

PrintsItsText ==
  \A p \in CmdLine :
    (call[p].phase = "idle" /\ call[p].exit = 0 /\ print[p].alone) =>
      CASE call[p].action = "code"  -> print[p].found = <<Own(p, FALSE)>>
        [] call[p].action = "file"  -> print[p].found \in {<<>>, <<Own(p, FALSE)>>}
        [] call[p].action = "stdin" -> print[p].found \in {<<Own(p, j)>> : j \in BOOLEAN}
        [] OTHER -> TRUE

(* A request goes to the printer it is meant for, or, in a Lua program, to *)
(* the one whose function was left by an error before: the module has one  *)
(* socket for all its printers, and takes it to be the right one if it is  *)
(* open.                                                                   *)
OwnPrinter ==
  \A p \in Process :
    /\ call[p].phase \in {"send", "wait"} => socket[p].dev \in {call[p].dev, left[p]}
    /\ call[p].phase = "idle" => socket[p].dev = left[p]

(* Every call comes to its end.                                            *)
CallsEnd == \A p \in Process : call[p].phase # "idle" ~> call[p].phase = "idle"
=============================================================================
