-------------------------- MODULE FrontEndsProofs --------------------------
(***************************************************************************)
(* For any number of printers, users and Lua programs, any command lines,  *)
(* and servers that come and go as they like: types; a request goes to the *)
(* printer it is meant for, unless an error has left the Lua module's      *)
(* socket open; a call that reports success has had all its requests run;  *)
(* and a print has started the text it was given.                          *)
(***************************************************************************)
EXTENDS FrontEnds, FiniteSetTheorems, SequenceTheorems, TLAPS

(* Only what a call's record looks like matters, not what is in it. *)
IsCall(c) ==
  c = [phase |-> c.phase, action |-> c.action, dev |-> c.dev,
       results |-> c.results, printed |-> c.printed, exit |-> c.exit]

Shape ==
  /\ call = [p \in Process |-> call[p]]
  /\ socket = [p \in Process |-> socket[p]]
  /\ left = [p \in Process |-> left[p]]
  /\ \A p \in Process : IsCall(call[p]) /\ call[p].phase \in Phase

(* Where the socket of a process leads, by the phase of its call.  While   *)
(* no request is on its way it is the one that was left open, or closed.   *)
Leads(c, s, l) ==
  /\ c.phase \in {"send", "wait"} => s.dev \in {c.dev, l}
  /\ c.phase \in {"idle", "open"} => s.dev = l

(* The inductive invariant *)
Invariant == Shape /\ \A p \in Process : Leads(call[p], socket[p], left[p])

-----------------------------------------------------------------------------
LEMMA CalledFacts ==
  ASSUME NEW phase \in Phase, NEW action, NEW dev
  PROVE  /\ IsCall(Called(phase, action, dev))
         /\ Called(phase, action, dev).phase = phase
         /\ Called(phase, action, dev).dev = dev
  BY DEF Called, IsCall

LEMMA EndedFacts ==
  ASSUME NEW action, NEW printed, NEW exit
  PROVE  IsCall(Ended(action, printed, exit)) /\ Ended(action, printed, exit).phase = "idle"
  BY DEF Ended, Called, IsCall

LEMMA InvokedFacts ==
  ASSUME NEW parsed, NEW plugged
  PROVE  LET c == Invoked(parsed, plugged)
         IN  IsCall(c) /\ c.phase \in {"idle", "open"}
<1>1. "open" \in Phase
  BY DEF Phase
<1> QED BY <1>1, CalledFacts, EndedFacts DEF Invoked

(* A step of p that gives it the call c, the socket s and the printer l.   *)
LEMMA OneProcess ==
  ASSUME Invariant, NEW p \in Process, NEW c, NEW s, NEW l,
         IsCall(c), c.phase \in Phase, Leads(c, s, l),
         call' = [call EXCEPT ![p] = c],
         socket' = [socket EXCEPT ![p] = s],
         left' = [left EXCEPT ![p] = l]
  PROVE  Invariant'
<1>1. \A q \in Process :
        /\ call'[q] = IF q = p THEN c ELSE call[q]
        /\ socket'[q] = IF q = p THEN s ELSE socket[q]
        /\ left'[q] = IF q = p THEN l ELSE left[q]
  BY DEF Invariant, Shape
<1>2. /\ call' = [q \in Process |-> call'[q]]
      /\ socket' = [q \in Process |-> socket'[q]]
      /\ left' = [q \in Process |-> left'[q]]
  BY DEF Invariant, Shape
<1>3. \A q \in Process : IsCall(call'[q]) /\ call'[q].phase \in Phase
  BY <1>1 DEF Invariant, Shape
<1>4. \A q \in Process : Leads(call'[q], socket'[q], left'[q])
  BY <1>1 DEF Invariant
<1> QED BY <1>2, <1>3, <1>4 DEF Invariant, Shape, IsCall, Leads, Phase

(* A step of p that changes its call only *)
LEMMA OnlyCall ==
  ASSUME Invariant, NEW p \in Process, NEW c,
         IsCall(c), c.phase \in Phase, Leads(c, socket[p], left[p]),
         call' = [call EXCEPT ![p] = c],
         socket' = socket, left' = left
  PROVE  Invariant'
<1> DEFINE s == socket[p]  l == left[p]
<1>1. socket' = [socket EXCEPT ![p] = s] /\ left' = [left EXCEPT ![p] = l]
  BY DEF Invariant, Shape
<1>2. Leads(c, s, l)
  OBVIOUS
<1> HIDE DEF s, l
<1> QED BY <1>1, <1>2, OneProcess

(* A step of a server *)
LEMMA Frame ==
  ASSUME Invariant, UNCHANGED <<call, socket, left>>
  PROVE  Invariant'
  BY DEF Invariant, Shape, IsCall, Leads

(* Replacing the phase of a call, or its results *)
LEMMA PhaseReplaced ==
  ASSUME NEW c, IsCall(c), NEW phase
  PROVE  LET moved == [c EXCEPT !.phase = phase]
         IN  IsCall(moved) /\ moved.phase = phase /\ moved.dev = c.dev
  BY DEF IsCall

LEMMA ResultsReplaced ==
  ASSUME NEW c, IsCall(c), NEW results
  PROVE  LET moved == [c EXCEPT !.results = results]
         IN  IsCall(moved) /\ moved.phase = c.phase /\ moved.dev = c.dev
  BY DEF IsCall
-----------------------------------------------------------------------------
LEMMA InitInvariant == Init => Invariant
<1> SUFFICES ASSUME Init PROVE Invariant
  OBVIOUS
<1>1. \A p \in Process :
        call[p] = Ended(None, <<>>, 1) /\ socket[p] = Closed /\ left[p] = None
  BY DEF Init
<1>2. Shape
  BY <1>1, EndedFacts DEF Init, Shape, Phase
<1> QED BY <1>1, <1>2, EndedFacts DEF Invariant, Leads, Closed

LEMMA InvokeInvariant ==
  ASSUME Invariant, NEW p \in Process, Invoke(p)
  PROVE  Invariant'
<1>1. call[p].phase = "idle" /\ socket' = socket /\ left' = left
  BY DEF Invoke, Begin
<1>2. PICK options \in Invocations, plugged \in SUBSET Dev :
        call' = [call EXCEPT ![p] = Invoked(Parse(options), plugged)]
  BY DEF Invoke
<1> DEFINE c == Invoked(Parse(options), plugged)
<1>3. IsCall(c) /\ c.phase \in {"idle", "open"}
  BY InvokedFacts
<1>4. Leads(c, socket[p], left[p])
  BY <1>1, <1>3 DEF Invariant, Leads
<1>5. c.phase \in Phase
  BY <1>3 DEF Phase
<1> HIDE DEF c
<1> QED BY <1>1, <1>2, <1>3, <1>4, <1>5, OnlyCall DEF c

LEMMA LuaCallInvariant ==
  ASSUME Invariant, NEW p \in Process, LuaCall(p)
  PROVE  Invariant'
<1>1. call[p].phase = "idle" /\ socket' = socket /\ left' = left
  BY DEF LuaCall, Begin
<1> DEFINE phase == IF socket[p] = Closed THEN "open" ELSE "send"
<1>2. PICK action \in LuaCalls, d \in Dev :
        call' = [call EXCEPT ![p] = Called(phase, action, d)]
  BY DEF LuaCall
<1>3. phase \in Phase
  BY DEF Phase
<1> HIDE DEF phase
<1>4. LET c == Called(phase, action, d) IN IsCall(c) /\ c.phase = phase
  BY <1>3, CalledFacts
<1>5. Leads(Called(phase, action, d), socket[p], left[p])
  BY <1>1, <1>4 DEF Invariant, Leads
<1> QED BY <1>1, <1>2, <1>3, <1>4, <1>5, OnlyCall

LEMMA LuaAbortInvariant ==
  ASSUME Invariant, NEW p \in Process, LuaAbort(p)
  PROVE  Invariant'
<1> DEFINE c == Ended(call[p].action, <<>>, 1)
<1>1. call' = [call EXCEPT ![p] = c] /\ left' = [left EXCEPT ![p] = socket[p].dev]
  BY DEF LuaAbort, Invariant, Shape
<1>2. socket' = [socket EXCEPT ![p] = socket[p]]
  BY DEF LuaAbort, Invariant, Shape
<1>3. IsCall(c) /\ c.phase = "idle"
  BY EndedFacts
<1> HIDE DEF c
<1>4. c.phase \in Phase /\ Leads(c, socket[p], socket[p].dev)
  BY <1>3 DEF Leads, Phase
<1> QED BY <1>1, <1>2, <1>3, <1>4, OneProcess

LEMMA OpenFailsInvariant ==
  ASSUME Invariant, NEW p \in Process, OpenFails(p)
  PROVE  Invariant'
<1> DEFINE c == Ended(call[p].action, IF p \in CmdLine THEN <<"ERR">> ELSE <<>>, 1)
<1>1. call' = [call EXCEPT ![p] = c] /\ socket' = socket /\ left' = left
  BY DEF OpenFails, histories, Invariant, Shape
<1>2. call[p].phase = "open"
  BY DEF OpenFails
<1>3. IsCall(c) /\ c.phase = "idle"
  BY EndedFacts
<1> HIDE DEF c
<1>4. c.phase \in Phase /\ Leads(c, socket[p], left[p])
  BY <1>2, <1>3 DEF Leads, Phase, Invariant
<1> QED BY <1>1, <1>3, <1>4, OnlyCall

LEMMA OpenInvariant ==
  ASSUME Invariant, NEW p \in Process, Open(p)
  PROVE  Invariant'
<1>1. call[p].phase = "open" /\ left' = left
  BY DEF Open, histories
<1>2. CASE call[p].action = "relative"
  <2> DEFINE c == Ended("relative", <<"ERR", "ERR">>, 1)
  <2>1. call' = [call EXCEPT ![p] = c] /\ socket' = socket
    BY <1>2 DEF Open
  <2>2. IsCall(c) /\ c.phase = "idle"
    BY EndedFacts
  <2> HIDE DEF c
  <2>3. c.phase \in Phase /\ Leads(c, socket[p], left[p])
    BY <1>1, <2>2 DEF Leads, Phase, Invariant
  <2> QED BY <1>1, <2>1, <2>2, <2>3, OnlyCall
<1>3. CASE call[p].action # "relative"
  <2> DEFINE c == [call[p] EXCEPT !.phase = "send"]
             s == [dev |-> call[p].dev, server |-> server[call[p].dev], conn |-> calls[p]]
  <2>1. call' = [call EXCEPT ![p] = c] /\ socket' = [socket EXCEPT ![p] = s]
    BY <1>3 DEF Open, Invariant, Shape
  <2>2. IsCall(c) /\ c.phase = "send" /\ c.dev = call[p].dev
    BY PhaseReplaced DEF Invariant, Shape
  <2>3. s.dev = call[p].dev
    OBVIOUS
  <2> HIDE DEF c, s
  <2>4. c.phase \in Phase /\ Leads(c, s, left[p])
    BY <2>2, <2>3 DEF Leads, Phase
  <2>5. left' = [left EXCEPT ![p] = left[p]]
    BY <1>1 DEF Invariant, Shape
  <2> QED BY <2>1, <2>2, <2>4, <2>5, OneProcess
<1> QED BY <1>2, <1>3

LEMMA SendInvariant ==
  ASSUME Invariant, NEW p \in Process, Send(p)
  PROVE  Invariant'
<1> DEFINE c == [call[p] EXCEPT !.phase = "wait"]
<1>1. call' = [call EXCEPT ![p] = c] /\ socket' = socket /\ left' = left
  BY DEF Send, histories, Invariant, Shape
<1>2. call[p].phase = "send"
  BY DEF Send
<1>3. IsCall(c) /\ c.phase = "wait" /\ c.dev = call[p].dev
  BY PhaseReplaced DEF Invariant, Shape
<1> HIDE DEF c
<1>4. c.phase \in Phase /\ Leads(c, socket[p], left[p])
  BY <1>2, <1>3 DEF Leads, Phase, Invariant
<1> QED BY <1>1, <1>3, <1>4, OnlyCall

(* The end of a call closes the socket; between two requests it stays. *)
LEMMA ResultInvariant ==
  ASSUME Invariant, NEW p \in Process, NEW result,
         call[p].phase \in {"send", "wait"}, Result(p, result)
  PROVE  Invariant'
<1> DEFINE results == Append(call[p].results, result)
           ends == Len(results) = Len(ScriptOf(p)) \/ (result < 0 /\ EndsAtFailure(p))
<1>1. CASE ends
  <2> DEFINE c == IF p \in Lua THEN Ended(call[p].action, <<>>, LuaStatus(result))
                  ELSE Ended(call[p].action, Printed(call[p].action, results), Exit(results))
  <2>1. call' = [call EXCEPT ![p] = c]
    BY <1>1 DEF Result, Invariant, Shape
  <2>2. socket' = [socket EXCEPT ![p] = Closed] /\ left' = [left EXCEPT ![p] = None]
    BY <1>1 DEF Result, Close
  <2>3. IsCall(c) /\ c.phase = "idle"
    BY EndedFacts
  <2> HIDE DEF c
  <2>4. c.phase \in Phase /\ Leads(c, Closed, None)
    BY <2>3 DEF Leads, Phase, Closed
  <2> QED BY <2>1, <2>2, <2>3, <2>4, OneProcess
<1>2. CASE ~ends
  <2> DEFINE b == [call[p] EXCEPT !.results = results]
             c == [b EXCEPT !.phase = "send"]
  <2>1. call' = [call EXCEPT ![p] = c]
    BY <1>2 DEF Result, Invariant, Shape
  <2>2. socket' = socket /\ left' = left
    BY <1>2 DEF Result, histories
  <2>3. IsCall(b) /\ b.dev = call[p].dev
    BY ResultsReplaced DEF Invariant, Shape
  <2> HIDE DEF b
  <2>4. IsCall(c) /\ c.phase = "send" /\ c.dev = call[p].dev
    BY <2>3, PhaseReplaced
  <2> HIDE DEF c
  <2>5. c.phase \in Phase /\ Leads(c, socket[p], left[p])
    BY <2>4 DEF Leads, Phase, Invariant
  <2> QED BY <2>1, <2>2, <2>4, <2>5, OnlyCall
<1> QED BY <1>1, <1>2

LEMMA StepInvariant ==
  ASSUME Invariant, NEW p \in Process, Step(p)
  PROVE  Invariant'
<1>1. CASE OpenFails(p) BY <1>1, OpenFailsInvariant
<1>2. CASE Open(p) BY <1>2, OpenInvariant
<1>3. CASE Send(p) BY <1>3, SendInvariant
<1>4. CASE SendFails(p) BY <1>4, ResultInvariant DEF SendFails
<1>5. CASE Receive(p) BY <1>5, ResultInvariant DEF Receive
<1>6. CASE NoReply(p) BY <1>6, ResultInvariant DEF NoReply
<1> QED BY <1>1, <1>2, <1>3, <1>4, <1>5, <1>6 DEF Step

LEMMA NextInvariant == Invariant /\ [Next]_vars => Invariant'
<1> SUFFICES ASSUME Invariant, [Next]_vars PROVE Invariant'
  OBVIOUS
<1>1. ASSUME NEW p \in Process, ProcessStep(p) PROVE Invariant'
  <2>1. CASE Invoke(p) BY <2>1, InvokeInvariant
  <2>2. CASE LuaCall(p) BY <2>2, LuaCallInvariant
  <2>3. CASE LuaAbort(p) BY <2>3, LuaAbortInvariant
  <2>4. CASE Step(p) BY <2>4, StepInvariant
  <2> QED BY <1>1, <2>1, <2>2, <2>3, <2>4 DEF ProcessStep
<1>2. ASSUME NEW p \in Process, Accept(p) PROVE Invariant'
  BY <1>2, Frame DEF Accept, procVars, histories
<1>3. ASSUME NEW d \in Dev, ServerStep(d) PROVE Invariant'
  <2>1. CASE Serve(d) BY <2>1, Frame DEF Serve
  <2>2. CASE StartServer(d) BY <2>2, Frame DEF StartServer, procVars, histories
  <2>3. CASE StopServer(d) BY <2>3, Frame DEF StopServer, procVars, histories
  <2> QED BY <1>3, <2>1, <2>2, <2>3 DEF ServerStep
<1>4. CASE UNCHANGED vars
  BY <1>4, Frame DEF vars, procVars, histories
<1> QED BY <1>1, <1>2, <1>3, <1>4 DEF Next

(* A request goes to the printer it is meant for, in any number of         *)
(* processes over communicator.c's one socket each, unless a Lua function  *)
(* was left by an error before; see OwnPrinter.                            *)
THEOREM OwnPrinterOnly == Spec => []OwnPrinter
<1>1. Invariant => OwnPrinter
  BY DEF Invariant, Leads, OwnPrinter
<1> QED BY InitInvariant, NextInvariant, <1>1, PTL DEF Spec

-----------------------------------------------------------------------------
(* Types *)

Sock == [dev : Dev \cup {None}, server : Nat, conn : Nat]
Note == [alone : BOOLEAN, found : Seq(Text)]

Known(p, action) == IF p \in Lua THEN action \in LuaAction ELSE NeedsDevice(action)

ScriptFor(p, action) == IF p \in Lua THEN LuaScript(action) ELSE Script(action)

(* A call under way: its printer, and the requests that are left.          *)
InCall(p, c, s) ==
  /\ c.phase # "idle" => c.dev \in Dev /\ Known(p, c.action)
  /\ c.phase = "open" => c.results = <<>>
  /\ c.phase \in {"send", "wait"} =>
       s # Closed /\ Len(c.results) < Len(ScriptFor(p, c.action))

(* The largest of some numbers up to n *)
LEMMA MaxFacts ==
  ASSUME NEW n \in Nat, NEW given \in SUBSET (1..n), given # {}
  PROVE  Max(given) \in given
<1> DEFINE T == {n - i : i \in given}
           R == OpToRel(<, Nat)
<1>1. T # {} /\ T \subseteq Nat
  <2>1. \A i \in given : i \in 1..n /\ n - i \in Nat
    OBVIOUS
  <2>2. PICK i \in given : TRUE
    OBVIOUS
  <2>3. n - i \in T
    BY <2>2
  <2> QED BY <2>1, <2>3
<1>2. IsWellFoundedOn(R, Nat)
  BY NatLessThanWellFounded
<1>3. PICK x \in T : \A y \in T : ~(<<y, x>> \in R)
  <2> HIDE DEF T, R
  <2> QED BY <1>1, <1>2, WFMin
<1>4. PICK i \in given : x = n - i
  BY <1>3
<1>5. \A j \in given : n - j \in Nat /\ x \in Nat /\ ~(<<n - j, x>> \in R)
  BY <1>1, <1>3
<1>6. \A j \in given : ~(n - j < x)
  BY <1>5 DEF OpToRel
<1>7. \A j \in given : i >= j
  <2> HIDE DEF R, T
  <2> QED BY <1>4, <1>6
<1> QED BY <1>4, <1>7 DEF Max

LEMMA LastGivenFacts ==
  ASSUME NEW n \in Nat, NEW values, values = [i \in 1..n |-> values[i]], Len(values) = n
  PROVE  \/ LastGiven(values) = None
         \/ \E i \in 1..n : values[i] # None /\ LastGiven(values) = values[i]
<1> DEFINE given == {i \in 1..n : values[i] # None}
<1>1. LastGiven(values) = IF given = {} THEN None ELSE values[Max(given)]
  BY DEF LastGiven
<1>2. given # {} => Max(given) \in given
  <2>1. given \in SUBSET (1..n)
    OBVIOUS
  <2> HIDE DEF given
  <2> QED BY <2>1, MaxFacts
<1> QED BY <1>1, <1>2

(* What the options make: types; and an action that needs a printer has    *)
(* asked for one.                                                          *)
LEMMA ParseFacts ==
  ASSUME NEW options \in Seq(Option)
  PROVE  LET parsed == Parse(options)
         IN  /\ parsed.action \in Action
             /\ parsed.device \in Dev \cup {None}
             /\ NeedsDevice(parsed.action) => parsed.required
<1> DEFINE n == Len(options)
           actions == [i \in 1..n |-> options[i].action]
           devices == [i \in 1..n |-> options[i].device]
<1>1. n \in Nat /\ \A i \in 1..n : options[i] \in Option
  OBVIOUS
<1>2. /\ actions = [i \in 1..n |-> actions[i]] /\ Len(actions) = n
      /\ devices = [i \in 1..n |-> devices[i]] /\ Len(devices) = n
  BY <1>1
<1>3. /\ Parse(options).action = LastGiven(actions)
      /\ Parse(options).device = LastGiven(devices)
      /\ Parse(options).required <=> \E i \in 1..n : NeedsDevice(options[i].action)
  BY DEF Parse
<1>4. \A i \in 1..n : actions[i] = options[i].action /\ devices[i] = options[i].device
  OBVIOUS
<1>5. \A i \in 1..n : actions[i] \in Action /\ devices[i] \in Dev \cup {None}
  BY <1>1, <1>4 DEF Option
<1> HIDE DEF n, actions, devices
<1>6. \/ LastGiven(actions) = None
      \/ \E i \in 1..n : actions[i] # None /\ LastGiven(actions) = actions[i]
  BY <1>1, <1>2, LastGivenFacts
<1>7. \/ LastGiven(devices) = None
      \/ \E i \in 1..n : devices[i] # None /\ LastGiven(devices) = devices[i]
  BY <1>1, <1>2, LastGivenFacts
<1>8. None \in Action /\ ~NeedsDevice(None)
  BY DEF None, Action, NeedsDevice
<1> QED BY <1>3, <1>4, <1>5, <1>6, <1>7, <1>8

Scripted(requests) == requests \in Seq(Req) /\ Len(requests) # 0

LEMMA ScriptedFacts ==
  /\ \A req \in Req : Scripted(<<req>>)
  /\ \A req, req2 \in Req : Scripted(<<req, req2>>)
  /\ \A req, req2, req3 \in Req : Scripted(<<req, req2, req3>>)
BY DEF Scripted

LEMMA ScriptFacts ==
  ASSUME NEW p, NEW action, Known(p, action)
  PROVE  /\ ScriptFor(p, action) \in Seq(Req)
         /\ action # "relative" => Len(ScriptFor(p, action)) # 0
<1> DEFINE five == [i \in 1..5 |-> "get"]
<1>1. Scripted(five)
  <2>1. five \in Seq(Req) /\ Len(five) = 5
    BY DEF Req
  <2> QED BY <2>1 DEF Scripted
<1>2. {"get", "heatup", "stop", "clear", "start", "append", "file", "test"} \subseteq Req
  BY DEF Req
<1>3. <<>> \in Seq(Req)
  OBVIOUS
<1>4. CASE p \in Lua
  <2>1. action \in LuaAction
    BY <1>4 DEF Known
  <2>2. \/ LuaScript(action) = five
        \/ LuaScript(action) \in {<<"get">>, <<"heatup">>, <<"stop">>, <<"clear">>,
                                  <<"start">>, <<"append">>, <<"file">>}
    BY <2>1 DEF LuaScript, LuaAction
  <2> HIDE DEF five
  <2>3. Scripted(LuaScript(action))
    BY <1>1, <1>2, <2>2, ScriptedFacts
  <2> QED BY <1>4, <2>3 DEF ScriptFor, Scripted
<1>5. CASE p \notin Lua
  <2>1. NeedsDevice(action)
    BY <1>5 DEF Known
  <2>2. \/ Script(action) = five
        \/ Script(action) \in {<<"test", "test">>, <<"get">>, <<"heatup">>, <<"stop">>,
                               <<"clear", "file", "start">>, <<"clear", "append", "start">>}
        \/ action = "relative" /\ Script(action) = <<>>
    BY <2>1 DEF Script, NeedsDevice
  <2> HIDE DEF five
  <2>3. Scripted(Script(action)) \/ (action = "relative" /\ Script(action) = <<>>)
    BY <1>1, <1>2, <2>2, ScriptedFacts
  <2> QED BY <1>5, <1>3, <2>3 DEF ScriptFor, Scripted
<1> QED BY <1>4, <1>5

LEMMA CalledType ==
  ASSUME NEW phase \in Phase, NEW action \in Action \cup LuaAction, NEW dev \in Dev \cup {None}
  PROVE  Called(phase, action, dev) \in Call
BY DEF Called, Call

LEMMA EndedType ==
  ASSUME NEW action \in Action \cup LuaAction, NEW printed \in Seq(Status),
         NEW exit \in {0, 1, 2, 5}
  PROVE  Ended(action, printed, exit) \in Call
BY DEF Ended, Call, Phase

LEMMA IdleInCall ==
  ASSUME NEW p, NEW c, NEW s, c.phase = "idle"
  PROVE  InCall(p, c, s)
BY DEF InCall

LEMMA ChosenFacts ==
  ASSUME NEW parsed, parsed.device \in Dev \cup {None}, NEW plugged \in SUBSET Dev
  PROVE  ChosenDevice(parsed, plugged) \in Dev \cup {None}
<1>1. Cardinality(plugged) = 1 => plugged # {}
  BY FS_EmptySet
<1>2. plugged # {} => (CHOOSE d \in plugged : TRUE) \in Dev
  OBVIOUS
<1> QED BY <1>1, <1>2, DeviceAssumption DEF ChosenDevice

LEMMA InvokedTyped ==
  ASSUME NEW p \in CmdLine, NEW s, NEW options \in Seq(Option), NEW plugged \in SUBSET Dev
  PROVE  LET c == Invoked(Parse(options), plugged)
         IN  c \in Call /\ InCall(p, c, s)
<1> DEFINE parsed == Parse(options)
           device == ChosenDevice(parsed, plugged)
           c == Invoked(parsed, plugged)
           own == parsed.required /\ device = None
<1>1. /\ parsed.action \in Action
      /\ parsed.device \in Dev \cup {None}
      /\ NeedsDevice(parsed.action) => parsed.required
  BY ParseFacts
<1> HIDE DEF parsed
<1>2. device \in Dev \cup {None}
  BY <1>1, ChosenFacts
<1>3. parsed.required \in BOOLEAN
  BY DEF parsed, Parse
<1>4. \/ \E printed \in Seq(Status), exit \in {0, 1, 2, 5} :
           c = Ended(parsed.action, printed, exit)
      \/ /\ parsed.action \notin Errors \cup {"supported", None, "help"}
         /\ parsed.required => device # None
         /\ c = Called("open", parsed.action, device)
  <2> DEFINE ok == <<"OK">>  err == <<"ERR">>
  <2>1. ok \in Seq(Status) /\ err \in Seq(Status)
    BY DEF Status
  <2>2. c = CASE parsed.action \in Errors -> Ended(parsed.action, err, 2)
              [] parsed.action \notin Errors /\ parsed.required /\ device = None ->
                   Ended(parsed.action, err, 1)
              [] parsed.action = "supported" /\ (parsed.required => device # None) ->
                   Ended(parsed.action, ok, 5)
              [] parsed.action \in {None, "help"} /\ (parsed.required => device # None) ->
                   Ended(parsed.action, ok, 0)
              [] OTHER -> Called("open", parsed.action, device)
    BY DEF Invoked
  <2> HIDE DEF ok, err, c, device
  <2>3. CASE parsed.action \in Errors
    BY <2>1, <2>2, <2>3 DEF Errors, None
  <2>4. CASE parsed.action \notin Errors /\ parsed.required /\ device = None
    <3>1. c = Ended(parsed.action, err, 1)
      BY <2>2, <2>4 DEF Errors
    <3> QED BY <2>1, <3>1
  <2>5. CASE parsed.action \notin Errors /\ (parsed.required => device # None)
    <3>1. CASE parsed.action = "supported"
      <4>1. c = Ended(parsed.action, ok, 5)
        BY <2>2, <2>5, <3>1 DEF Errors, None
      <4> QED BY <2>1, <4>1
    <3>2. CASE parsed.action \in {None, "help"}
      <4>1. c = Ended(parsed.action, ok, 0)
        BY <2>2, <2>5, <3>2 DEF Errors, None
      <4> QED BY <2>1, <4>1
    <3>3. CASE parsed.action \notin {"supported", None, "help"}
      BY <2>2, <2>5, <3>3 DEF Errors
    <3> QED BY <3>1, <3>2, <3>3
  <2> QED BY <1>3, <2>3, <2>4, <2>5
<1> HIDE DEF device, c
<1>5. CASE \E printed \in Seq(Status), exit \in {0, 1, 2, 5} :
             c = Ended(parsed.action, printed, exit)
  <2>1. PICK printed \in Seq(Status), exit \in {0, 1, 2, 5} :
          c = Ended(parsed.action, printed, exit)
    BY <1>5
  <2>2. c \in Call
    BY <1>1, <2>1, EndedType
  <2>3. c.phase = "idle"
    BY <2>1, EndedFacts
  <2> QED BY <2>2, <2>3, IdleInCall DEF c, parsed
<1>6. CASE /\ parsed.action \notin Errors \cup {"supported", None, "help"}
           /\ parsed.required => device # None
           /\ c = Called("open", parsed.action, device)
  <2>1. "open" \in Phase
    BY DEF Phase
  <2>2. c \in Call
    BY <1>1, <1>2, <1>6, <2>1, CalledType
  <2>3. NeedsDevice(parsed.action)
    BY <1>1, <1>6 DEF NeedsDevice, Action, Errors
  <2>4. c.phase = "open" /\ c.action = parsed.action /\ c.dev = device /\ c.results = <<>>
    BY <1>6 DEF Called
  <2>5. p \notin Lua
    BY ProcessAssumption
  <2>6. InCall(p, c, s)
    BY <1>1, <1>2, <1>6, <2>3, <2>4, <2>5 DEF InCall, Known
  <2> QED BY <2>2, <2>6 DEF c, parsed
<1> QED BY <1>4, <1>5, <1>6

TrxState == {"waiting", "open", "cancelled"}

(* The types of the variables, and what TypeOK says of the values besides *)
ProcessTypes ==
  /\ call \in [Process -> Call]
  /\ socket \in [Process -> Sock]
  /\ calls \in [Process -> Nat]
  /\ replies \in [Process -> Seq(-4..0)]
  /\ done \in [Process -> Seq(Req)]
  /\ print \in [Process -> Note]
  /\ left \in [Process -> Dev \cup {None}]

ServerTypes ==
  /\ server \in [Dev -> 0..MaxStarts] /\ starts \in [Dev -> 0..MaxStarts]
  /\ queue \in [Dev -> SUBSET Entry]
  /\ trx \in [Process -> TrxState]
  /\ gcode \in [Dev -> Seq(Text)]

CallsTyped == \A p \in Process : InCall(p, call[p], socket[p])

Typed == ProcessTypes /\ ServerTypes /\ CallsTyped

LEMMA TypedIsTypeOK == Typed => TypeOK
BY DEF Typed, TypeOK, ProcessTypes, ServerTypes, CallsTyped, InCall, Sock, Note, TrxState

(* A step of p that gives its variables these values *)
LEMMA ProcessTyped ==
  ASSUME ProcessTypes, CallsTyped, NEW p \in Process,
         NEW c \in Call, NEW s \in Sock, NEW n \in Nat, NEW r \in Seq(-4..0),
         NEW dn \in Seq(Req), NEW pr \in Note, NEW l \in Dev \cup {None},
         InCall(p, c, s),
         call' = [call EXCEPT ![p] = c],
         socket' = [socket EXCEPT ![p] = s],
         calls' = [calls EXCEPT ![p] = n],
         replies' = [replies EXCEPT ![p] = r],
         done' = [done EXCEPT ![p] = dn],
         print' = [print EXCEPT ![p] = pr],
         left' = [left EXCEPT ![p] = l]
  PROVE  ProcessTypes' /\ CallsTyped'
<1>1. ProcessTypes'
  BY DEF ProcessTypes
<1>2. \A q \in Process :
        /\ call'[q] = IF q = p THEN c ELSE call[q]
        /\ socket'[q] = IF q = p THEN s ELSE socket[q]
  BY DEF ProcessTypes
<1>3. CallsTyped'
  <2> SUFFICES ASSUME NEW q \in Process PROVE InCall(q, call'[q], socket'[q])
    BY DEF CallsTyped, InCall, ScriptFor, Known
  <2>1. CASE q = p
    BY <1>2, <2>1
  <2>2. CASE q # p
    BY <1>2, <2>2 DEF CallsTyped
  <2> QED BY <2>1, <2>2
<1> QED BY <1>1, <1>3

(* A step of p that leaves alone what is not mentioned *)
LEMMA CallTyped ==
  ASSUME ProcessTypes, CallsTyped, NEW p \in Process,
         NEW c \in Call, NEW s \in Sock, InCall(p, c, s),
         call' = [call EXCEPT ![p] = c],
         socket' = [socket EXCEPT ![p] = s],
         UNCHANGED <<calls, replies, done, print, left>>
  PROVE  ProcessTypes' /\ CallsTyped'
<1>1. ProcessTypes'
  BY DEF ProcessTypes
<1>2. \A q \in Process :
        /\ call'[q] = IF q = p THEN c ELSE call[q]
        /\ socket'[q] = IF q = p THEN s ELSE socket[q]
  BY DEF ProcessTypes
<1>3. CallsTyped'
  <2> SUFFICES ASSUME NEW q \in Process PROVE InCall(q, call'[q], socket'[q])
    BY DEF CallsTyped, InCall, ScriptFor, Known
  <2>1. CASE q = p
    BY <1>2, <2>1
  <2>2. CASE q # p
    BY <1>2, <2>2 DEF CallsTyped
  <2> QED BY <2>1, <2>2
<1> QED BY <1>1, <1>3

LEMMA ServerSame ==
  ASSUME ServerTypes, UNCHANGED serverVars
  PROVE  ServerTypes'
BY DEF ServerTypes, serverVars

LEMMA ClosedType == Closed \in Sock /\ [alone |-> FALSE, found |-> <<>>] \in Note
<1>1. <<>> \in Seq(Text)
  OBVIOUS
<1> QED BY <1>1 DEF Closed, Sock, Note

LEMMA TypedInit == Init => Typed
<1> SUFFICES ASSUME Init PROVE Typed
  OBVIOUS
<1> DEFINE none == <<>>  c == Ended(None, none, 1)  nothing == [alone |-> FALSE, found |-> none]
<1>1. /\ none \in Seq(-4..0) /\ none \in Seq(Req) /\ none \in Seq(Text) /\ none \in Seq(Status)
  OBVIOUS
<1>2. Closed \in Sock /\ nothing \in Note
  BY ClosedType
<1>3. c \in Call
  BY <1>1, EndedType DEF Action
<1>4. c.phase = "idle"
  BY EndedFacts
<1>5. /\ call = [p \in Process |-> c] /\ socket = [p \in Process |-> Closed]
      /\ calls = [p \in Process |-> 0] /\ replies = [p \in Process |-> none]
      /\ done = [p \in Process |-> none] /\ print = [p \in Process |-> nothing]
      /\ left = [p \in Process |-> None]
  BY DEF Init
<1>6. /\ server = [d \in Dev |-> 0] /\ starts = [d \in Dev |-> 0]
      /\ queue = [d \in Dev |-> {}] /\ trx = [p \in Process |-> "waiting"]
      /\ gcode = [d \in Dev |-> none]
  BY DEF Init
<1> HIDE DEF none, c, nothing
<1>7. ProcessTypes
  BY <1>1, <1>2, <1>3, <1>5 DEF ProcessTypes
<1>8. ServerTypes
  BY <1>1, <1>6, BoundAssumption DEF ServerTypes, TrxState
<1>9. CallsTyped
  BY <1>4, <1>5 DEF CallsTyped, InCall
<1> QED BY <1>7, <1>8, <1>9 DEF Typed

-----------------------------------------------------------------------------
(* Types: the steps of a process *)

(* A call begins, or is left by an error. *)
LEMMA FreshTyped ==
  ASSUME ProcessTypes, CallsTyped, NEW p \in Process,
         NEW c \in Call, InCall(p, c, socket[p]), NEW n \in Nat, NEW l \in Dev \cup {None},
         call' = [call EXCEPT ![p] = c],
         calls' = [calls EXCEPT ![p] = n],
         left' = [left EXCEPT ![p] = l],
         UNCHANGED <<socket, replies>>, Forget(p)
  PROVE  ProcessTypes' /\ CallsTyped'
<1> DEFINE s == socket[p]  r == replies[p]  none == <<>>
           nothing == [alone |-> FALSE, found |-> none]
<1>1. s \in Sock /\ r \in Seq(-4..0) /\ InCall(p, c, s)
  BY DEF ProcessTypes
<1>2. none \in Seq(Req) /\ nothing \in Note
  BY ClosedType
<1>3. socket' = [socket EXCEPT ![p] = s] /\ replies' = [replies EXCEPT ![p] = r]
  BY DEF ProcessTypes
<1>4. done' = [done EXCEPT ![p] = none] /\ print' = [print EXCEPT ![p] = nothing]
  BY DEF Forget
<1> HIDE DEF s, r, none, nothing
<1> QED BY <1>1, <1>2, <1>3, <1>4, ProcessTyped

LEMMA InvokeTyped ==
  ASSUME ProcessTypes, CallsTyped, NEW p \in Process, Invoke(p)
  PROVE  ProcessTypes' /\ CallsTyped'
<1>1. PICK options \in Invocations, plugged \in SUBSET Dev :
        call' = [call EXCEPT ![p] = Invoked(Parse(options), plugged)]
  BY DEF Invoke
<1> DEFINE c == Invoked(Parse(options), plugged)  n == calls[p] + 1  l == left[p]
<1>2. options \in Seq(Option) /\ p \in CmdLine
  BY InputAssumption DEF Invoke
<1>3. c \in Call /\ InCall(p, c, socket[p])
  BY <1>2, InvokedTyped
<1>4. n \in Nat /\ l \in Dev \cup {None}
  BY DEF ProcessTypes
<1>5. /\ calls' = [calls EXCEPT ![p] = n] /\ left' = [left EXCEPT ![p] = l]
      /\ UNCHANGED <<socket, replies>> /\ Forget(p)
  BY DEF Invoke, Begin, ProcessTypes
<1> HIDE DEF c, n, l
<1> QED BY <1>1, <1>3, <1>4, <1>5, FreshTyped DEF c

LEMMA LuaCallTyped ==
  ASSUME ProcessTypes, CallsTyped, NEW p \in Process, LuaCall(p)
  PROVE  ProcessTypes' /\ CallsTyped'
<1> DEFINE phase == IF socket[p] = Closed THEN "open" ELSE "send"
           n == calls[p] + 1  l == left[p]
<1>1. PICK action \in LuaCalls, d \in Dev :
        call' = [call EXCEPT ![p] = Called(phase, action, d)]
  BY DEF LuaCall
<1> DEFINE c == Called(phase, action, d)
<1>2. action \in LuaAction /\ p \in Lua
  BY InputAssumption DEF LuaCall
<1>3. phase \in Phase
  BY DEF Phase
<1>4. c \in Call
  BY <1>2, <1>3, CalledType
<1>5. InCall(p, c, socket[p])
  <2>1. c.phase = phase /\ c.action = action /\ c.dev = d /\ c.results = <<>>
    BY DEF Called
  <2>2. Known(p, action) /\ action # "relative"
    BY <1>2 DEF Known, LuaAction
  <2>3. ScriptFor(p, action) \in Seq(Req) /\ Len(ScriptFor(p, action)) # 0
    BY <2>2, ScriptFacts
  <2>4. phase # "open" => socket[p] # Closed
    OBVIOUS
  <2> HIDE DEF c, phase
  <2> QED BY <2>1, <2>2, <2>3, <2>4 DEF InCall
<1>6. n \in Nat /\ l \in Dev \cup {None}
  BY DEF ProcessTypes
<1>7. /\ calls' = [calls EXCEPT ![p] = n] /\ left' = [left EXCEPT ![p] = l]
      /\ UNCHANGED <<socket, replies>> /\ Forget(p)
  BY DEF LuaCall, Begin, ProcessTypes
<1> HIDE DEF phase, c, n, l
<1> QED BY <1>1, <1>4, <1>5, <1>6, <1>7, FreshTyped DEF c

LEMMA LuaAbortTyped ==
  ASSUME ProcessTypes, CallsTyped, NEW p \in Process, LuaAbort(p)
  PROVE  ProcessTypes' /\ CallsTyped'
<1> DEFINE none == <<>>  c == Ended(call[p].action, none, 1)
           n == calls[p]  l == socket[p].dev
<1>1. none \in Seq(Status)
  OBVIOUS
<1>2. call[p].action \in Action \cup LuaAction
  BY DEF ProcessTypes, Call
<1>3. call' = [call EXCEPT ![p] = c]
  BY DEF LuaAbort, ProcessTypes
<1>4. /\ calls' = [calls EXCEPT ![p] = n] /\ left' = [left EXCEPT ![p] = l]
      /\ UNCHANGED <<socket, replies>> /\ Forget(p)
  BY DEF LuaAbort, ProcessTypes
<1>5. n \in Nat /\ l \in Dev \cup {None}
  BY DEF ProcessTypes, Sock
<1> HIDE DEF none
<1>6. c \in Call
  BY <1>1, <1>2, EndedType
<1>7. c.phase = "idle"
  BY EndedFacts
<1> HIDE DEF c, n, l
<1>8. InCall(p, c, socket[p])
  BY <1>7, IdleInCall
<1> QED BY <1>4, <1>5, <1>6, <1>8, <1>3, FreshTyped

LEMMA OpenFailsTyped ==
  ASSUME ProcessTypes, CallsTyped, NEW p \in Process, OpenFails(p)
  PROVE  ProcessTypes' /\ CallsTyped'
<1> DEFINE printed == IF p \in CmdLine THEN <<"ERR">> ELSE <<>>
           c == Ended(call[p].action, printed, 1)  s == socket[p]
<1>1. printed \in Seq(Status)
  <2> DEFINE none == <<>>  err == <<"ERR">>
  <2>1. none \in Seq(Status) /\ err \in Seq(Status)
    BY DEF Status
  <2>2. printed = IF p \in CmdLine THEN err ELSE none
    OBVIOUS
  <2> HIDE DEF none, err, printed
  <2> QED BY <2>1, <2>2
<1>2. call[p].action \in Action \cup LuaAction /\ s \in Sock
  BY DEF ProcessTypes, Call
<1>3. /\ call' = [call EXCEPT ![p] = c]
      /\ socket' = [socket EXCEPT ![p] = s]
      /\ UNCHANGED <<calls, replies, done, print, left>>
  BY DEF OpenFails, histories, ProcessTypes
<1> HIDE DEF printed
<1>4. c \in Call
  BY <1>1, <1>2, EndedType
<1>5. c.phase = "idle"
  BY EndedFacts
<1> HIDE DEF c, s
<1>6. InCall(p, c, s)
  BY <1>5, IdleInCall
<1> QED BY <1>2, <1>3, <1>4, <1>6, CallTyped

LEMMA CallPhase ==
  ASSUME NEW c \in Call, NEW phase \in Phase
  PROVE  LET moved == [c EXCEPT !.phase = phase]
         IN  /\ moved \in Call /\ moved.phase = phase /\ moved.action = c.action
             /\ moved.dev = c.dev /\ moved.results = c.results
             /\ moved.printed = c.printed /\ moved.exit = c.exit
BY DEF Call

LEMMA CallResults ==
  ASSUME NEW c \in Call, NEW results \in Seq(-4..0)
  PROVE  LET moved == [c EXCEPT !.results = results]
         IN  /\ moved \in Call /\ moved.phase = c.phase /\ moved.action = c.action
             /\ moved.dev = c.dev /\ moved.results = results
             /\ moved.printed = c.printed /\ moved.exit = c.exit
BY DEF Call

LEMMA OpenTyped ==
  ASSUME Typed, NEW p \in Process, Open(p)
  PROVE  Typed'
<1>0. ProcessTypes /\ ServerTypes /\ CallsTyped
  BY DEF Typed
<1>1. /\ call[p].phase = "open" /\ call[p] \in Call /\ socket[p] \in Sock
      /\ UNCHANGED <<calls, replies, done, print, left, server, starts, queue, gcode>>
  BY <1>0 DEF Open, histories, ProcessTypes
<1>2. call[p].dev \in Dev /\ Known(p, call[p].action) /\ call[p].results = <<>>
  BY <1>0, <1>1 DEF CallsTyped, InCall
<1>3. ServerTypes'
  <2>1. trx' = trx \/ trx' = [trx EXCEPT ![p] = "waiting"]
    BY DEF Open
  <2>2. trx' \in [Process -> TrxState]
    BY <1>0, <2>1 DEF ServerTypes, TrxState
  <2> QED BY <1>0, <1>1, <2>2 DEF ServerTypes
<1>4. CASE call[p].action = "relative"
  <2> DEFINE printed == <<"ERR", "ERR">>  c == Ended("relative", printed, 1)  s == socket[p]
  <2>1. printed \in Seq(Status)
    BY DEF Status
  <2>2. c \in Call
    <3> HIDE DEF printed
    <3> QED BY <2>1, EndedType DEF Action
  <2>3. c.phase = "idle"
    BY EndedFacts
  <2>4. call' = [call EXCEPT ![p] = c] /\ socket' = [socket EXCEPT ![p] = s]
    BY <1>0, <1>4 DEF Open, ProcessTypes
  <2> HIDE DEF c, s
  <2>5. InCall(p, c, s)
    BY <2>3, IdleInCall
  <2>6. s \in Sock
    BY <1>1 DEF s
  <2>7. ProcessTypes' /\ CallsTyped'
    BY <1>0, <1>1, <2>2, <2>4, <2>5, <2>6, CallTyped
  <2> QED BY <1>3, <2>7 DEF Typed
<1>5. CASE call[p].action # "relative"
  <2> DEFINE c == [call[p] EXCEPT !.phase = "send"]
             s == [dev |-> call[p].dev, server |-> server[call[p].dev], conn |-> calls[p]]
  <2>1. call' = [call EXCEPT ![p] = c] /\ socket' = [socket EXCEPT ![p] = s]
    BY <1>0, <1>5 DEF Open, ProcessTypes
  <2>2. /\ c \in Call /\ c.phase = "send" /\ c.action = call[p].action
        /\ c.dev = call[p].dev /\ c.results = call[p].results
    <3>1. "send" \in Phase
      BY DEF Phase
    <3> QED BY <1>1, <3>1, CallPhase
  <2>3. s \in Sock /\ s # Closed
    <3>1. server[call[p].dev] \in Nat /\ calls[p] \in Nat
      BY <1>0, <1>2, BoundAssumption DEF ServerTypes, ProcessTypes
    <3>2. s.dev = call[p].dev
      OBVIOUS
    <3>3. s # Closed
      BY <1>2, <3>2, DeviceAssumption DEF Closed
    <3> QED BY <1>2, <3>1, <3>3 DEF Sock
  <2> HIDE DEF c, s
  <2>4. InCall(p, c, s)
    BY <1>2, <1>5, <2>2, <2>3, ScriptFacts DEF InCall
  <2>5. ProcessTypes' /\ CallsTyped'
    BY <1>0, <1>1, <2>1, <2>2, <2>3, <2>4, CallTyped
  <2> QED BY <1>3, <2>5 DEF Typed
<1> QED BY <1>4, <1>5

(* The next request of the script *)
LEMMA NextRequest ==
  ASSUME CallsTyped, ProcessTypes, NEW p \in Process, call[p].phase \in {"send", "wait"}
  PROVE  /\ ScriptOf(p) = ScriptFor(p, call[p].action)
         /\ ScriptOf(p) \in Seq(Req)
         /\ Len(call[p].results) \in Nat
         /\ Len(call[p].results) + 1 \in 1..Len(ScriptOf(p))
         /\ ScriptOf(p)[Len(call[p].results) + 1] \in Req
         /\ call[p].dev \in Dev /\ socket[p] # Closed
<1>1. InCall(p, call[p], socket[p]) /\ call[p].phase # "idle"
  BY DEF CallsTyped
<1>2. Known(p, call[p].action) /\ call[p].dev \in Dev /\ socket[p] # Closed
  BY <1>1 DEF InCall
<1>3. ScriptOf(p) = ScriptFor(p, call[p].action)
  BY DEF ScriptOf, ScriptFor
<1>4. ScriptOf(p) \in Seq(Req)
  BY <1>2, <1>3, ScriptFacts
<1>5. Len(call[p].results) < Len(ScriptOf(p))
  BY <1>1, <1>3 DEF InCall
<1>6. Len(call[p].results) \in Nat
  BY DEF ProcessTypes, Call
<1>7. Len(call[p].results) + 1 \in 1..Len(ScriptOf(p))
  BY <1>4, <1>5, <1>6
<1> QED BY <1>2, <1>3, <1>4, <1>6, <1>7

LEMMA SendTyped ==
  ASSUME Typed, NEW p \in Process, Send(p)
  PROVE  Typed'
<1>0. ProcessTypes /\ ServerTypes /\ CallsTyped
  BY DEF Typed
<1> DEFINE c == [call[p] EXCEPT !.phase = "wait"]  s == socket[p]
<1>1. /\ call[p].phase = "send" /\ call[p] \in Call /\ s \in Sock /\ Alive(p)
      /\ call' = [call EXCEPT ![p] = c]
      /\ socket' = [socket EXCEPT ![p] = s]
      /\ UNCHANGED <<calls, replies, done, print, left, server, starts, trx, gcode>>
  BY <1>0 DEF Send, histories, ProcessTypes
<1>2. /\ c \in Call /\ c.phase = "wait" /\ c.action = call[p].action
      /\ c.dev = call[p].dev /\ c.results = call[p].results
  <2>1. "wait" \in Phase
    BY DEF Phase
  <2> QED BY <1>1, <2>1, CallPhase
<1>3. PICK junk \in BOOLEAN : queue' = [queue EXCEPT ![socket[p].dev] = @ \cup
         {[from |-> p, conn |-> socket[p].conn, number |-> Len(call[p].results) + 1,
           req |-> ScriptOf(p)[Len(call[p].results) + 1], junk |-> junk]}]
  BY DEF Send
<1> DEFINE n == Len(call[p].results) + 1  req == ScriptOf(p)[n]
           e == [from |-> p, conn |-> socket[p].conn, number |-> n, req |-> req, junk |-> junk]
<1>4. n \in Nat /\ req \in Req
  BY <1>0, <1>1, NextRequest
<1>5. queue' = [queue EXCEPT ![socket[p].dev] = @ \cup {e}]
  BY <1>3
<1>6. socket[p].conn \in Nat /\ p \in Process
  BY <1>0 DEF ProcessTypes, Sock
<1> HIDE DEF n, req
<1>7. e \in Entry
  BY <1>4, <1>6 DEF Entry
<1> HIDE DEF e
<1>8. ServerTypes'
  <2>1. queue' \in [Dev -> SUBSET Entry]
    BY <1>0, <1>5, <1>7 DEF ServerTypes
  <2> QED BY <1>0, <1>1, <2>1 DEF ServerTypes
<1>9. InCall(p, c, s)
  <2>1. InCall(p, call[p], socket[p])
    BY <1>0 DEF CallsTyped
  <2> HIDE DEF c
  <2> QED BY <1>1, <1>2, <2>1 DEF InCall
<1> HIDE DEF c, s
<1>10. ProcessTypes' /\ CallsTyped'
  BY <1>0, <1>1, <1>2, <1>9, CallTyped
<1> QED BY <1>8, <1>10 DEF Typed

LEMMA FailuresFacts ==
  ASSUME NEW results \in Seq(-4..0)
  PROVE  /\ Failures(results) \in Nat
         /\ Failures(results) = 0 <=> \A i \in 1..Len(results) : results[i] >= 0
<1> DEFINE n == Len(results)  failed == {i \in 1..n : results[i] < 0}
<1>1. n \in Nat /\ \A i \in 1..n : results[i] \in -4..0
  OBVIOUS
<1>2. IsFiniteSet(failed)
  <2>1. IsFiniteSet(1..n)
    BY <1>1, FS_Interval
  <2>2. failed \in SUBSET (1..n)
    OBVIOUS
  <2> HIDE DEF failed
  <2> QED BY <2>1, <2>2, FS_Subset
<1>3. failed = {} <=> \A i \in 1..n : results[i] >= 0
  BY <1>1
<1>4. Failures(results) = Cardinality(failed)
  BY DEF Failures
<1> HIDE DEF failed
<1> QED BY <1>2, <1>3, <1>4, FS_CardinalityType, FS_EmptySet

LEMMA PrintedFacts ==
  ASSUME NEW action, NEW results \in Seq(-4..0)
  PROVE  /\ Printed(action, results) \in Seq(Status)
         /\ Failures(results) = 0 => Printed(action, results) = <<"OK">>
<1> DEFINE n == Failures(results)  errors == [i \in 1..n |-> "ERR"]  ok == <<"OK">>
           none == <<>>
           fine == \/ Failures(results) = 0
                   \/ action = "temperature"
                   \/ action = "test" /\ Last(results) >= 0
<1>1. n \in Nat
  BY FailuresFacts
<1>2. errors \in Seq(Status) /\ ok \in Seq(Status) /\ none \in Seq(Status)
  BY <1>1 DEF Status
<1>3. n = 0 => errors = none
  OBVIOUS
<1>4. Printed(action, results) = errors \o (IF fine THEN ok ELSE none)
  BY DEF Printed
<1>5. n = 0 => fine
  OBVIOUS
<1>6. none \o ok = ok
  OBVIOUS
<1> HIDE DEF n, errors, none, ok, fine
<1>7. Printed(action, results) \in Seq(Status)
  BY <1>2, <1>4
<1> QED BY <1>3, <1>4, <1>5, <1>6, <1>7 DEF n, ok

LEMMA StatusFacts ==
  ASSUME NEW results \in Seq(-4..0), NEW result \in -4..0
  PROVE  /\ Exit(results) \in {0, 1} /\ (Exit(results) = 0 <=> Failures(results) = 0)
         /\ LuaStatus(result) \in {0, 1, 2} /\ (LuaStatus(result) = 0 <=> result >= 0)
<1>1. Failures(results) \in Nat
  BY FailuresFacts
<1>2. /\ Exit(results) \in {0, 1} /\ (Exit(results) = 0 <=> Failures(results) = 0)
  BY <1>1 DEF Exit
<1> QED BY <1>2 DEF LuaStatus

(* The call that a result makes of one: its end, or its next request. *)
Ending(p, results, result) ==
  \/ Len(results) = Len(ScriptOf(p))
  \/ result < 0 /\ EndsAtFailure(p)

After(p, results, result) ==
  IF Ending(p, results, result)
  THEN IF p \in Lua THEN Ended(call[p].action, <<>>, LuaStatus(result))
       ELSE Ended(call[p].action, Printed(call[p].action, results), Exit(results))
  ELSE [[call[p] EXCEPT !.results = results] EXCEPT !.phase = "send"]

LEMMA AfterFacts ==
  ASSUME ProcessTypes, CallsTyped, NEW p \in Process, call[p].phase \in {"send", "wait"},
         NEW result \in -4..0
  PROVE  LET results == Append(call[p].results, result)
             c == After(p, results, result)
         IN  /\ results \in Seq(-4..0) /\ Len(results) = Len(call[p].results) + 1
             /\ results[Len(results)] = result
             /\ \A i \in 1..Len(call[p].results) : results[i] = call[p].results[i]
             /\ c \in Call /\ c.action = call[p].action
             /\ Ending(p, results, result) =>
                  /\ c.phase = "idle"
                  /\ c.exit = IF p \in Lua THEN LuaStatus(result) ELSE Exit(results)
                  /\ p \notin Lua => c.printed = Printed(call[p].action, results)
             /\ ~Ending(p, results, result) =>
                  /\ c.phase = "send" /\ c.dev = call[p].dev /\ c.results = results
                  /\ InCall(p, c, socket[p])
<1> DEFINE results == Append(call[p].results, result)  c == After(p, results, result)
           none == <<>>
<1>1. call[p] \in Call /\ call[p].results \in Seq(-4..0) /\ call[p].action \in Action \cup LuaAction
  BY DEF ProcessTypes, Call
<1>2. /\ results \in Seq(-4..0) /\ Len(results) = Len(call[p].results) + 1
      /\ results[Len(results)] = result
      /\ \A i \in 1..Len(call[p].results) : results[i] = call[p].results[i]
  BY <1>1
<1> HIDE DEF results
<1>3. CASE Ending(p, results, result)
  <2>1. none \in Seq(Status) /\ Printed(call[p].action, results) \in Seq(Status)
    BY <1>2, PrintedFacts
  <2>2. Exit(results) \in {0, 1, 2, 5} /\ LuaStatus(result) \in {0, 1, 2, 5}
    BY <1>2, StatusFacts
  <2>3. c = IF p \in Lua THEN Ended(call[p].action, none, LuaStatus(result))
            ELSE Ended(call[p].action, Printed(call[p].action, results), Exit(results))
    BY <1>3 DEF After
  <2> HIDE DEF c, none
  <2>4. c \in Call
    BY <1>1, <2>1, <2>2, <2>3, EndedType
  <2>5. /\ c.phase = "idle" /\ c.action = call[p].action
        /\ c.exit = IF p \in Lua THEN LuaStatus(result) ELSE Exit(results)
        /\ p \notin Lua => c.printed = Printed(call[p].action, results)
    BY <2>3 DEF Ended
  <2> QED BY <1>2, <1>3, <2>4, <2>5 DEF c, results
<1>4. CASE ~Ending(p, results, result)
  <2> DEFINE b == [call[p] EXCEPT !.results = results]
  <2>1. /\ b \in Call /\ b.action = call[p].action /\ b.dev = call[p].dev /\ b.results = results
    BY <1>1, <1>2, CallResults
  <2>2. c = [b EXCEPT !.phase = "send"]
    BY <1>4 DEF After
  <2>3. "send" \in Phase
    BY DEF Phase
  <2> HIDE DEF b, c
  <2>4. /\ c \in Call /\ c.phase = "send" /\ c.action = call[p].action
        /\ c.dev = call[p].dev /\ c.results = results
    BY <2>1, <2>2, <2>3, CallPhase
  <2>5. InCall(p, call[p], socket[p]) /\ ScriptOf(p) = ScriptFor(p, call[p].action)
        /\ Len(call[p].results) + 1 \in 1..Len(ScriptOf(p))
    BY NextRequest DEF CallsTyped
  <2>6. Len(results) # Len(ScriptOf(p))
    BY <1>4 DEF Ending
  <2>7. Len(results) < Len(ScriptFor(p, c.action))
    <3>1. ScriptOf(p) \in Seq(Req)
      BY NextRequest
    <3>2. Len(ScriptOf(p)) \in Nat
      BY <3>1
    <3> QED BY <1>2, <2>4, <2>5, <2>6, <3>2
  <2>8. InCall(p, c, socket[p])
    BY <2>4, <2>5, <2>7 DEF InCall
  <2> QED BY <1>2, <1>4, <2>4, <2>8 DEF c, results
<1> QED BY <1>3, <1>4 DEF results

LEMMA ResultEffect ==
  ASSUME ProcessTypes, CallsTyped, NEW p \in Process, call[p].phase \in {"send", "wait"},
         NEW result \in -4..0, Result(p, result)
  PROVE  LET results == Append(call[p].results, result)
             c == After(p, results, result)
         IN  /\ call' = [call EXCEPT ![p] = c]
             /\ replies' = [replies EXCEPT ![p] = <<>>]
             /\ Ending(p, results, result) =>
                  /\ socket' = [socket EXCEPT ![p] = Closed]
                  /\ left' = [left EXCEPT ![p] = None]
                  /\ IF c.exit = 0 THEN UNCHANGED <<done, print>> ELSE Forget(p)
             /\ ~Ending(p, results, result) => UNCHANGED <<socket, left, done, print>>
<1> DEFINE results == Append(call[p].results, result)  c == After(p, results, result)
<1>1. CASE Ending(p, results, result)
  <2>1. call' = [call EXCEPT ![p] = c]
    BY <1>1 DEF Result, After, Ending, ProcessTypes
  <2>2. Close(p) /\ IF call'[p].exit = 0 THEN UNCHANGED <<done, print>> ELSE Forget(p)
    BY <1>1 DEF Result, Ending
  <2>3. call'[p] = c
    BY <2>1 DEF ProcessTypes
  <2>4. IF c.exit = 0 THEN UNCHANGED <<done, print>> ELSE Forget(p)
    <3> HIDE DEF c
    <3> QED BY <2>2, <2>3
  <2> HIDE DEF c, results
  <2> QED BY <1>1, <2>1, <2>2, <2>4 DEF Close, c, results
<1>2. CASE ~Ending(p, results, result)
  <2>1. call' = [call EXCEPT ![p] = c]
    BY <1>2 DEF Result, After, Ending, ProcessTypes
  <2>2. replies' = [replies EXCEPT ![p] = <<>>] /\ UNCHANGED <<socket, left, done, print>>
    BY <1>2 DEF Result, Ending, histories
  <2> HIDE DEF c, results
  <2> QED BY <1>2, <2>1, <2>2 DEF c, results
<1> QED BY <1>1, <1>2

LEMMA ResultTyped ==
  ASSUME ProcessTypes, CallsTyped, NEW p \in Process, call[p].phase \in {"send", "wait"},
         NEW result \in -4..0, Result(p, result), calls' = calls
  PROVE  ProcessTypes' /\ CallsTyped'
<1> DEFINE results == Append(call[p].results, result)  c == After(p, results, result)
           ends == Ending(p, results, result)
           s == IF ends THEN Closed ELSE socket[p]
           n == calls[p]
           none == <<>>
           l == IF ends THEN None ELSE left[p]
           forgets == ends /\ c.exit # 0
           nothing == [alone |-> FALSE, found |-> none]
           dn == IF forgets THEN none ELSE done[p]
           pr == IF forgets THEN nothing ELSE print[p]
<1>1. /\ call' = [call EXCEPT ![p] = c]
      /\ replies' = [replies EXCEPT ![p] = none]
      /\ ends => /\ socket' = [socket EXCEPT ![p] = Closed]
                 /\ left' = [left EXCEPT ![p] = None]
                 /\ IF c.exit = 0 THEN UNCHANGED <<done, print>> ELSE Forget(p)
      /\ ~ends => UNCHANGED <<socket, left, done, print>>
  BY ResultEffect
<1>2. /\ c \in Call /\ (ends => c.phase = "idle")
      /\ (~ends => InCall(p, c, socket[p]))
  BY AfterFacts
<1> HIDE DEF results, c, ends
<1>3. none \in Seq(-4..0) /\ none \in Seq(Req) /\ nothing \in Note /\ Closed \in Sock
  BY ClosedType
<1>4. /\ socket[p] \in Sock /\ n \in Nat /\ left[p] \in Dev \cup {None}
      /\ done[p] \in Seq(Req) /\ print[p] \in Note
  BY DEF ProcessTypes
<1>5. socket' = [socket EXCEPT ![p] = s] /\ left' = [left EXCEPT ![p] = l]
      /\ calls' = [calls EXCEPT ![p] = n]
  BY <1>1 DEF ProcessTypes
<1>6. done' = [done EXCEPT ![p] = dn] /\ print' = [print EXCEPT ![p] = pr]
  BY <1>1 DEF ProcessTypes, Forget
<1>7. InCall(p, c, s)
  BY <1>2, IdleInCall
<1>8. s \in Sock /\ l \in Dev \cup {None} /\ dn \in Seq(Req) /\ pr \in Note
  <2> HIDE DEF none, nothing
  <2> QED BY <1>3, <1>4
<1> HIDE DEF s, n, none, l, dn, pr
<1> QED BY <1>1, <1>2, <1>3, <1>4, <1>5, <1>6, <1>7, <1>8, ProcessTyped

(* The steps that end the wait for an answer, or fail to send a request.   *)
Results(p) ==
  \E result \in -4..0 :
    /\ call[p].phase \in {"send", "wait"}
    /\ \/ call[p].phase = "wait" /\ replies[p] # <<>> /\ result = Head(replies[p])
       \/ result = -1
    /\ Result(p, result)
    /\ UNCHANGED <<calls, serverVars>>

LEMMA ResultSteps ==
  ASSUME ProcessTypes, NEW p \in Process, SendFails(p) \/ Receive(p) \/ NoReply(p)
  PROVE  Results(p)
<1>1. CASE SendFails(p)
  <2>1. -1 \in -4..0 /\ call[p].phase = "send"
    BY <1>1 DEF SendFails
  <2> QED BY <1>1, <2>1 DEF SendFails, Results
<1>2. CASE Receive(p)
  <2> DEFINE result == Head(replies[p])
  <2>1. replies[p] \in Seq(-4..0) /\ replies[p] # <<>>
    BY <1>2 DEF Receive, ProcessTypes
  <2>2. result \in -4..0
    BY <2>1
  <2>3. call[p].phase = "wait" /\ Result(p, result) /\ UNCHANGED <<calls, serverVars>>
    BY <1>2 DEF Receive
  <2> QED BY <2>1, <2>2, <2>3 DEF Results
<1>3. CASE NoReply(p)
  <2>1. -1 \in -4..0 /\ call[p].phase = "wait"
    BY <1>3 DEF NoReply
  <2> QED BY <1>3, <2>1 DEF NoReply, Results
<1> QED BY <1>1, <1>2, <1>3

LEMMA ResultsTyped ==
  ASSUME Typed, NEW p \in Process, Results(p)
  PROVE  Typed'
<1>1. PICK result \in -4..0 :
        /\ call[p].phase \in {"send", "wait"} /\ Result(p, result)
        /\ UNCHANGED <<calls, serverVars>>
  BY DEF Results
<1>2. ProcessTypes' /\ CallsTyped'
  BY <1>1, ResultTyped DEF Typed
<1>3. ServerTypes'
  BY <1>1, ServerSame DEF Typed
<1> QED BY <1>2, <1>3 DEF Typed

-----------------------------------------------------------------------------
(* Types: the steps of a server *)

LEMMA ProcessSame ==
  ASSUME ProcessTypes, CallsTyped, UNCHANGED <<procVars, histories>>
  PROVE  ProcessTypes' /\ CallsTyped'
BY DEF ProcessTypes, CallsTyped, InCall, Known, ScriptFor, procVars, histories

LEMMA TextType ==
  ASSUME NEW e \in Entry
  PROVE  TextOf(e) \in Text /\ <<TextOf(e)>> \in Seq(Text)
<1>1. TextOf(e) \in Text
  BY DEF TextOf, Text, Entry
<1> QED BY <1>1

(* What one turn of a server does, request by request *)
Served(d, e, answer, after) ==
  /\ e \in queue[d] /\ answer \in -3..0
  /\ server[d] # 0
  /\ Handled(d, e, answer, after)
  /\ gcode' = [gcode EXCEPT ![d] = after]
  /\ queue' = [queue EXCEPT ![d] = @ \ {e}]
  /\ IF Live(e)
     THEN /\ replies' = [replies EXCEPT ![e.from] = Append(@, answer)]
          /\ done' = [done EXCEPT ![e.from] = IF answer = 0 THEN Append(@, e.req) ELSE @]
     ELSE UNCHANGED <<replies, done>>
  /\ print' = [p \in Process |-> PrintNote(p, d, e)]
  /\ UNCHANGED <<call, socket, calls, server, starts, left>>

LEMMA ServeEffect ==
  ASSUME ServerTypes, NEW d \in Dev, Serve(d)
  PROVE  /\ \E e \in Entry, answer \in -3..0, after \in Seq(Text) : Served(d, e, answer, after)
         /\ trx' \in [Process -> TrxState]
<1>1. PICK e \in queue[d], answer \in -3..0, after \in
        {gcode[d], <<>>} \cup UNION {{<<TextOf(f)>>, Append(gcode[d], TextOf(f))} : f \in queue[d]} :
          /\ Served(d, e, answer, after)
          /\ IF e.req \in {"clear", "stop"} THEN CancelAllTransactions(d, e) ELSE UNCHANGED trx
  BY DEF Serve, Served
<1>2. e \in Entry /\ queue[d] \subseteq Entry /\ gcode[d] \in Seq(Text)
  BY DEF ServerTypes
<1>3. after \in Seq(Text)
  <2> DEFINE none == <<>>
  <2>1. none \in Seq(Text)
    OBVIOUS
  <2>2. \A f \in queue[d] : <<TextOf(f)>> \in Seq(Text) /\ Append(gcode[d], TextOf(f)) \in Seq(Text)
    BY <1>2, TextType
  <2>3. \/ after \in {gcode[d], none}
        \/ \E f \in queue[d] : after \in {<<TextOf(f)>>, Append(gcode[d], TextOf(f))}
    BY <1>1
  <2> HIDE DEF none
  <2> QED BY <1>2, <2>1, <2>2, <2>3
<1>4. trx' \in [Process -> TrxState]
  <2>1. trx \in [Process -> TrxState]
    BY DEF ServerTypes
  <2>2. CASE trx' = trx
    BY <2>1, <2>2
  <2>3. CASE CancelAllTransactions(d, e)
    BY <2>1, <2>3 DEF CancelAllTransactions, TrxState
  <2> QED BY <1>1, <2>2, <2>3
<1> QED BY <1>1, <1>2, <1>3, <1>4

LEMMA NoteType ==
  ASSUME ProcessTypes, ServerTypes, NEW d \in Dev, NEW e \in Entry, NEW p \in Process
  PROVE  PrintNote(p, d, e) \in Note
<1> DEFINE fresh == [alone |-> TRUE, found |-> <<>>]
           seen == [print[p] EXCEPT !.found = gcode[d]]
           shared == [print[p] EXCEPT !.alone = FALSE]
<1>1. print[p] \in Note /\ gcode[d] \in Seq(Text)
  BY DEF ProcessTypes, ServerTypes
<1>2. fresh \in Note
  <2>1. <<>> \in Seq(Text)
    OBVIOUS
  <2> QED BY <2>1 DEF Note
<1>3. seen \in Note /\ shared \in Note
  BY <1>1 DEF Note
<1>4. PrintNote(p, d, e) \in {fresh, seen, shared, print[p]}
  <2> DEFINE own == e.from = p /\ Live(e)
             late == ~own /\ socket[p].dev = d /\ "start" \notin Range(done[p])
  <2>1. PrintNote(p, d, e) =
          CASE own /\ e.number = 1 -> fresh
            [] own /\ e.req = "start" -> seen
            [] late -> shared
            [] OTHER -> print[p]
    BY DEF PrintNote
  <2> HIDE DEF own, late, fresh, seen, shared
  <2> QED BY <2>1
<1> HIDE DEF fresh, seen, shared
<1> QED BY <1>1, <1>2, <1>3, <1>4

LEMMA ServeTyped ==
  ASSUME Typed, NEW d \in Dev, Serve(d)
  PROVE  Typed'
<1>0. ProcessTypes /\ ServerTypes /\ CallsTyped
  BY DEF Typed
<1>1. PICK e \in Entry, answer \in -3..0, after \in Seq(Text) : Served(d, e, answer, after)
  BY <1>0, ServeEffect
<1>2. trx' \in [Process -> TrxState]
  BY <1>0, ServeEffect
<1>3. ServerTypes'
  BY <1>0, <1>1, <1>2 DEF Served, ServerTypes
<1>4. e.from \in Process /\ e.req \in Req
  BY DEF Entry
<1>5. replies' \in [Process -> Seq(-4..0)]
  <2>1. answer \in -4..0
    OBVIOUS
  <2>2. Append(replies[e.from], answer) \in Seq(-4..0)
    BY <1>0, <1>4, <2>1 DEF ProcessTypes
  <2> QED BY <1>0, <1>1, <1>4, <2>2 DEF Served, ProcessTypes
<1>6. done' \in [Process -> Seq(Req)]
  <2>1. Append(done[e.from], e.req) \in Seq(Req) /\ done[e.from] \in Seq(Req)
    BY <1>0, <1>4 DEF ProcessTypes
  <2> QED BY <1>0, <1>1, <1>4, <2>1 DEF Served, ProcessTypes
<1>7. print' \in [Process -> Note]
  BY <1>0, <1>1, NoteType DEF Served
<1>8. ProcessTypes'
  BY <1>0, <1>1, <1>5, <1>6, <1>7 DEF Served, ProcessTypes
<1>9. CallsTyped'
  BY <1>0, <1>1 DEF Served, CallsTyped, InCall, Known, ScriptFor
<1> QED BY <1>3, <1>8, <1>9 DEF Typed

LEMMA ServersTyped ==
  ASSUME Typed,
         \/ \E p \in Process : Accept(p)
         \/ \E d \in Dev : StartServer(d) \/ StopServer(d)
  PROVE  Typed'
<1>0. ProcessTypes /\ ServerTypes /\ CallsTyped
  BY DEF Typed
<1>1. UNCHANGED <<procVars, histories>>
  BY DEF Accept, StartServer, StopServer
<1>2. ProcessTypes' /\ CallsTyped'
  BY <1>0, <1>1, ProcessSame
<1>3. ASSUME NEW p \in Process, Accept(p) PROVE ServerTypes'
  BY <1>0, <1>3 DEF Accept, ServerTypes, TrxState
<1>4. ASSUME NEW d \in Dev, StartServer(d) PROVE ServerTypes'
  <2>1. starts[d] + 1 \in 0..MaxStarts
    BY <1>0, <1>4, BoundAssumption DEF StartServer, ServerTypes
  <2> QED BY <1>0, <1>4, <2>1 DEF StartServer, ServerTypes
<1>5. ASSUME NEW d \in Dev, StopServer(d) PROVE ServerTypes'
  <2> DEFINE none == <<>>
  <2>1. none \in Seq(Text) /\ 0 \in 0..MaxStarts /\ {} \in SUBSET Entry
    BY BoundAssumption
  <2>2. /\ server' = [server EXCEPT ![d] = 0] /\ queue' = [queue EXCEPT ![d] = {}]
        /\ gcode' = [gcode EXCEPT ![d] = none] /\ UNCHANGED <<starts, trx>>
    BY <1>5 DEF StopServer
  <2> HIDE DEF none
  <2> QED BY <1>0, <2>1, <2>2 DEF ServerTypes
<1> QED BY <1>2, <1>3, <1>4, <1>5 DEF Typed

LEMMA TypedNext == Typed /\ [Next]_vars => Typed'
<1> SUFFICES ASSUME Typed, [Next]_vars PROVE Typed'
  OBVIOUS
<1>0. ProcessTypes /\ ServerTypes /\ CallsTyped
  BY DEF Typed
<1>1. ASSUME NEW p \in Process, ProcessStep(p) PROVE Typed'
  <2>1. CASE Invoke(p) \/ LuaCall(p) \/ LuaAbort(p) \/ OpenFails(p)
    <3>1. UNCHANGED serverVars
      BY <2>1 DEF Invoke, LuaCall, LuaAbort, OpenFails, Begin
    <3>2. ServerTypes'
      BY <1>0, <3>1, ServerSame
    <3>3. ProcessTypes' /\ CallsTyped'
      BY <1>0, <2>1, InvokeTyped, LuaCallTyped, LuaAbortTyped, OpenFailsTyped
    <3> QED BY <3>2, <3>3 DEF Typed
  <2>2. CASE Open(p) BY <2>2, OpenTyped
  <2>3. CASE Send(p) BY <2>3, SendTyped
  <2>4. CASE SendFails(p) \/ Receive(p) \/ NoReply(p)
    BY <1>0, <2>4, ResultSteps, ResultsTyped
  <2> QED BY <1>1, <2>1, <2>2, <2>3, <2>4 DEF ProcessStep, Step
<1>2. ASSUME NEW p \in Process, Accept(p) PROVE Typed'
  BY <1>2, ServersTyped
<1>3. ASSUME NEW d \in Dev, ServerStep(d) PROVE Typed'
  BY <1>3, ServeTyped, ServersTyped DEF ServerStep
<1>4. CASE UNCHANGED vars
  <2>1. UNCHANGED serverVars /\ UNCHANGED <<procVars, histories>>
    BY <1>4 DEF vars
  <2> QED BY <1>0, <2>1, ServerSame, ProcessSame DEF Typed
<1> QED BY <1>1, <1>2, <1>3, <1>4 DEF Next

(* Whatever the command line holds, and however servers come and go: all   *)
(* variables keep their types.  In particular a call that has started has  *)
(* a printer, the one given or chosen by main(), and there is a request    *)
(* left of its script as long as it has not ended.                         *)
THEOREM TypeCorrect == Spec => []TypeOK
BY TypedInit, TypedNext, TypedIsTypeOK, PTL DEF Spec

-----------------------------------------------------------------------------
(* The steps of a process once more, by what they do to its call, its      *)
(* socket and its requests; the rest has no part in what a call has done.  *)
Keeps(q) ==
  /\ call'[q] = call[q] /\ socket'[q] = socket[q] /\ calls'[q] = calls[q]
  /\ replies'[q] = replies[q] /\ done'[q] = done[q] /\ print'[q] = print[q]

KeepsRequests == \A d \in Dev : queue'[d] = queue[d]

KeepsSocket(p) ==
  socket'[p] = socket[p] /\ calls'[p] = calls[p] /\ replies'[p] = replies[p]

KeepsNotes(p) == done'[p] = done[p] /\ print'[p] = print[p]

(* A call begins: it ends at once, is about to open the socket or takes    *)
(* the one that is open.                                                   *)
Begins(p) ==
  /\ call[p].phase = "idle"
  /\ calls'[p] = calls[p] + 1 /\ socket'[p] = socket[p] /\ replies'[p] = replies[p]
  /\ done'[p] = <<>> /\ ~print'[p].alone /\ KeepsRequests
  /\ \/ /\ p \notin Lua /\ call'[p].phase = "idle"
        /\ call'[p].exit = 0 => call'[p].action \in {None, "help"} /\ call'[p].printed = <<"OK">>
     \/ /\ call'[p].phase = "open" /\ call'[p].results = <<>>
        /\ p \in Lua => socket[p] = Closed
     \/ /\ p \in Lua /\ socket[p] # Closed
        /\ call'[p].phase = "send" /\ call'[p].results = <<>>

(* A call ends without having sent anything. *)
Fails(p) ==
  /\ KeepsSocket(p) /\ KeepsRequests
  /\ call'[p].phase = "idle" /\ call'[p].exit = 1
  /\ call[p].phase = "open" \/ (p \in Lua /\ call[p].phase = "send")

Opens(p) ==
  /\ call[p].phase = "open" /\ call[p].dev \in Dev /\ server[call[p].dev] # 0
  /\ socket'[p].dev = call[p].dev /\ socket'[p].conn = calls[p]
  /\ socket'[p].server = server[call[p].dev]
  /\ call'[p].phase = "send" /\ call'[p].action = call[p].action /\ call'[p].results = <<>>
  /\ calls'[p] = calls[p] /\ replies'[p] = replies[p]
  /\ KeepsNotes(p) /\ KeepsRequests

(* The request is the next one of the script. *)
IsNext(p, e) ==
  /\ e.from = p /\ e.conn = socket[p].conn
  /\ e.number = Len(call[p].results) + 1
  /\ e.req = ScriptOf(p)[Len(call[p].results) + 1]
  /\ e.junk => call[p].action = "stdin"

Sends(p) ==
  /\ call[p].phase = "send" /\ KeepsSocket(p) /\ KeepsNotes(p)
  /\ call'[p].phase = "wait" /\ call'[p].action = call[p].action
  /\ call'[p].results = call[p].results
  /\ \E e \in Entry :
       /\ IsNext(p, e)
       /\ \A d \in Dev : queue'[d] = IF d = socket[p].dev THEN queue[d] \cup {e} ELSE queue[d]

(* A request has its result: an answer, or none in time. *)
Gets(p) ==
  \E result \in -4..0 :
    LET results == Append(call[p].results, result)
        c == After(p, results, result)
    IN  /\ call[p].phase \in {"send", "wait"}
        /\ \/ call[p].phase = "wait" /\ replies[p] # <<>> /\ result = Head(replies[p])
           \/ result = -1
        /\ call'[p] = c /\ calls'[p] = calls[p] /\ replies'[p] = <<>> /\ KeepsRequests
        /\ Ending(p, results, result) =>
             socket'[p] = Closed /\ (c.exit = 0 => KeepsNotes(p))
        /\ ~Ending(p, results, result) => socket'[p] = socket[p] /\ KeepsNotes(p)

Moves(p) == Begins(p) \/ Fails(p) \/ Opens(p) \/ Sends(p) \/ Gets(p)

RequestsStay(p) ==
  \A d \in Dev : \A e \in Entry : e.from # p => (e \in queue'[d] <=> e \in queue[d])

(* Nothing is done to other processes, and their requests stay. *)
OthersKept(p) ==
  /\ \A q \in Process : q # p => Keeps(q)
  /\ RequestsStay(p)
  /\ UNCHANGED <<server, starts, gcode>>

LEMMA InvokedEnds ==
  ASSUME NEW parsed, NEW plugged
  PROVE  LET c == Invoked(parsed, plugged)
         IN  \/ /\ c.phase = "idle"
                /\ c.exit = 0 => c.action \in {None, "help"} /\ c.printed = <<"OK">>
             \/ c.phase = "open" /\ c.results = <<>>
<1> DEFINE device == ChosenDevice(parsed, plugged)  ok == <<"OK">>  err == <<"ERR">>
           c == Invoked(parsed, plugged)
<1>1. c = CASE parsed.action \in Errors -> Ended(parsed.action, err, 2)
            [] parsed.action \notin Errors /\ parsed.required /\ device = None ->
                 Ended(parsed.action, err, 1)
            [] parsed.action = "supported" /\ (parsed.required => device # None) ->
                 Ended(parsed.action, ok, 5)
            [] parsed.action \in {None, "help"} /\ (parsed.required => device # None) ->
                 Ended(parsed.action, ok, 0)
            [] OTHER -> Called("open", parsed.action, device)
  BY DEF Invoked
<1> HIDE DEF device, ok, err, c
<1>2. \/ c = Ended(parsed.action, err, 2)
      \/ c = Ended(parsed.action, err, 1)
      \/ c = Ended(parsed.action, ok, 5)
      \/ parsed.action \in {None, "help"} /\ c = Ended(parsed.action, ok, 0)
      \/ c = Called("open", parsed.action, device)
  BY <1>1
<1>3. \A action, printed, exit :
        LET e == Ended(action, printed, exit)
        IN  e.phase = "idle" /\ e.exit = exit /\ e.action = action /\ e.printed = printed
  BY DEF Ended
<1>4. \A action, dev :
        LET e == Called("open", action, dev) IN e.phase = "open" /\ e.results = <<>>
  BY DEF Called
<1> QED BY <1>2, <1>3, <1>4 DEF ok, c

LEMMA KeptOthers ==
  ASSUME ProcessTypes, ServerTypes, NEW p \in Process,
         NEW c, NEW s, NEW n, NEW r, NEW dn, NEW pr,
         call' = [call EXCEPT ![p] = c], socket' = [socket EXCEPT ![p] = s],
         calls' = [calls EXCEPT ![p] = n], replies' = [replies EXCEPT ![p] = r],
         done' = [done EXCEPT ![p] = dn], print' = [print EXCEPT ![p] = pr],
         UNCHANGED <<server, starts, gcode>>, RequestsStay(p)
  PROVE  /\ OthersKept(p)
         /\ call'[p] = c /\ socket'[p] = s /\ calls'[p] = n /\ replies'[p] = r
         /\ done'[p] = dn /\ print'[p] = pr
BY DEF ProcessTypes, OthersKept, Keeps

LEMMA BeginEffect ==
  ASSUME ProcessTypes, ServerTypes, NEW p \in Process, Begin(p), NEW c,
         call' = [call EXCEPT ![p] = c]
  PROVE  /\ OthersKept(p) /\ call'[p] = c /\ call[p].phase = "idle"
         /\ calls'[p] = calls[p] + 1 /\ socket'[p] = socket[p] /\ replies'[p] = replies[p]
         /\ done'[p] = <<>> /\ ~print'[p].alone /\ KeepsRequests
<1> DEFINE none == <<>>  nothing == [alone |-> FALSE, found |-> none]
           n == calls[p] + 1  s == socket[p]  r == replies[p]
<1>1. /\ socket' = [socket EXCEPT ![p] = s] /\ calls' = [calls EXCEPT ![p] = n]
      /\ replies' = [replies EXCEPT ![p] = r] /\ done' = [done EXCEPT ![p] = none]
      /\ print' = [print EXCEPT ![p] = nothing]
  BY DEF Begin, Forget, ProcessTypes
<1>2. UNCHANGED <<server, starts, gcode>> /\ RequestsStay(p)
  BY DEF Begin, serverVars, RequestsStay
<1>3. call[p].phase = "idle" /\ KeepsRequests
  BY DEF Begin, serverVars, KeepsRequests
<1> HIDE DEF none, nothing, n, s, r
<1>4. /\ OthersKept(p) /\ call'[p] = c /\ calls'[p] = n /\ socket'[p] = s /\ replies'[p] = r
      /\ done'[p] = none /\ print'[p] = nothing
  BY <1>1, <1>2, KeptOthers
<1>5. ~print'[p].alone
  BY <1>4 DEF nothing
<1> QED BY <1>4, <1>5, <1>3 DEF n, s, r, none

LEMMA InvokeMoves ==
  ASSUME ProcessTypes, ServerTypes, NEW p \in Process, Invoke(p)
  PROVE  OthersKept(p) /\ Begins(p)
<1>1. PICK options \in Invocations, plugged \in SUBSET Dev :
        call' = [call EXCEPT ![p] = Invoked(Parse(options), plugged)]
  BY DEF Invoke
<1> DEFINE c == Invoked(Parse(options), plugged)
<1>2. \/ /\ c.phase = "idle"
         /\ c.exit = 0 => c.action \in {None, "help"} /\ c.printed = <<"OK">>
      \/ c.phase = "open" /\ c.results = <<>>
  BY InvokedEnds
<1>3. p \notin Lua /\ Begin(p)
  BY ProcessAssumption DEF Invoke
<1> HIDE DEF c
<1>4. /\ OthersKept(p) /\ call'[p] = c /\ call[p].phase = "idle"
      /\ calls'[p] = calls[p] + 1 /\ socket'[p] = socket[p] /\ replies'[p] = replies[p]
      /\ done'[p] = <<>> /\ ~print'[p].alone /\ KeepsRequests
  BY <1>1, <1>3, BeginEffect DEF c
<1> QED BY <1>2, <1>3, <1>4 DEF Begins

LEMMA LuaCallMoves ==
  ASSUME ProcessTypes, ServerTypes, NEW p \in Process, LuaCall(p)
  PROVE  OthersKept(p) /\ Begins(p)
<1> DEFINE phase == IF socket[p] = Closed THEN "open" ELSE "send"
<1>1. PICK action \in LuaCalls, d \in Dev :
        call' = [call EXCEPT ![p] = Called(phase, action, d)]
  BY DEF LuaCall
<1> DEFINE c == Called(phase, action, d)
<1>2. c.phase = phase /\ c.results = <<>>
  BY DEF Called
<1>3. p \in Lua /\ Begin(p)
  BY DEF LuaCall
<1>4. phase = IF socket[p] = Closed THEN "open" ELSE "send"
  OBVIOUS
<1> HIDE DEF c, phase
<1>5. /\ OthersKept(p) /\ call'[p] = c /\ call[p].phase = "idle"
      /\ calls'[p] = calls[p] + 1 /\ socket'[p] = socket[p] /\ replies'[p] = replies[p]
      /\ done'[p] = <<>> /\ ~print'[p].alone /\ KeepsRequests
  BY <1>1, <1>3, BeginEffect DEF c
<1> QED BY <1>2, <1>3, <1>5, <1>4 DEF Begins

LEMMA LuaAbortMoves ==
  ASSUME ProcessTypes, ServerTypes, NEW p \in Process, LuaAbort(p)
  PROVE  OthersKept(p) /\ Fails(p)
<1> DEFINE none == <<>>  nothing == [alone |-> FALSE, found |-> none]
           c == Ended(call[p].action, none, 1)
           n == calls[p]  s == socket[p]  r == replies[p]
<1>1. call' = [call EXCEPT ![p] = c]
  BY DEF LuaAbort, ProcessTypes
<1>2. /\ socket' = [socket EXCEPT ![p] = s] /\ calls' = [calls EXCEPT ![p] = n]
      /\ replies' = [replies EXCEPT ![p] = r] /\ done' = [done EXCEPT ![p] = none]
      /\ print' = [print EXCEPT ![p] = nothing]
  BY DEF LuaAbort, Forget, ProcessTypes
<1>3. UNCHANGED <<server, starts, gcode>> /\ RequestsStay(p)
  BY DEF LuaAbort, serverVars, RequestsStay
<1>4. call[p].phase = "send" /\ p \in Lua /\ KeepsRequests
  BY DEF LuaAbort, serverVars, KeepsRequests
<1>5. c.phase = "idle" /\ c.exit = 1
  BY DEF Ended
<1> HIDE DEF none, nothing, n, s, r, c
<1>6. /\ OthersKept(p) /\ call'[p] = c /\ calls'[p] = n /\ socket'[p] = s /\ replies'[p] = r
  BY <1>1, <1>2, <1>3, KeptOthers
<1> QED BY <1>5, <1>6, <1>4 DEF Fails, KeepsSocket, n, s, r

(* A step that changes nothing but the call and the socket of p *)
CallOnly == UNCHANGED <<calls, replies, done, print, server, starts, gcode>>

LEMMA KeptNotes ==
  ASSUME ProcessTypes, ServerTypes, NEW p \in Process, NEW c, NEW s,
         call' = [call EXCEPT ![p] = c], socket' = [socket EXCEPT ![p] = s],
         CallOnly, RequestsStay(p)
  PROVE  /\ OthersKept(p)
         /\ call'[p] = c /\ socket'[p] = s /\ calls'[p] = calls[p] /\ replies'[p] = replies[p]
         /\ KeepsNotes(p)
BY DEF ProcessTypes, OthersKept, Keeps, KeepsNotes, CallOnly

LEMMA OpenFailsMoves ==
  ASSUME ProcessTypes, ServerTypes, NEW p \in Process, OpenFails(p)
  PROVE  OthersKept(p) /\ Fails(p)
<1> DEFINE c == Ended(call[p].action, IF p \in CmdLine THEN <<"ERR">> ELSE <<>>, 1)
           s == socket[p]
<1>1. call' = [call EXCEPT ![p] = c] /\ socket' = [socket EXCEPT ![p] = s]
  BY DEF OpenFails, ProcessTypes
<1>2. CallOnly /\ RequestsStay(p) /\ KeepsRequests /\ call[p].phase = "open"
  BY DEF OpenFails, serverVars, histories, CallOnly, RequestsStay, KeepsRequests
<1>3. c.phase = "idle" /\ c.exit = 1
  BY DEF Ended
<1> HIDE DEF c, s
<1>4. /\ OthersKept(p) /\ call'[p] = c /\ socket'[p] = s /\ calls'[p] = calls[p]
      /\ replies'[p] = replies[p]
  BY <1>1, <1>2, KeptNotes
<1> QED BY <1>2, <1>3, <1>4 DEF Fails, KeepsSocket, s

LEMMA OpenMoves ==
  ASSUME ProcessTypes, ServerTypes, CallsTyped, NEW p \in Process, Open(p)
  PROVE  OthersKept(p) /\ (Fails(p) \/ Opens(p))
<1>1. call[p].phase = "open" /\ server[call[p].dev] # 0 /\ KeepsRequests
  BY DEF Open, KeepsRequests
<1>2. RequestsStay(p)
  BY DEF Open, RequestsStay
<1>3. CallOnly
  BY DEF Open, histories, CallOnly
<1>4. CASE call[p].action = "relative"
  <2> DEFINE c == Ended("relative", <<"ERR", "ERR">>, 1)  s == socket[p]
  <2>1. call' = [call EXCEPT ![p] = c] /\ socket' = [socket EXCEPT ![p] = s]
    BY <1>4 DEF Open, ProcessTypes
  <2>2. c.phase = "idle" /\ c.exit = 1
    BY DEF Ended
  <2> HIDE DEF c, s
  <2>3. /\ OthersKept(p) /\ call'[p] = c /\ socket'[p] = s /\ calls'[p] = calls[p]
        /\ replies'[p] = replies[p]
    BY <1>2, <1>3, <2>1, KeptNotes
  <2> QED BY <1>1, <2>2, <2>3 DEF Fails, KeepsSocket, s
<1>5. CASE call[p].action # "relative"
  <2> DEFINE c == [call[p] EXCEPT !.phase = "send"]
             s == [dev |-> call[p].dev, server |-> server[call[p].dev], conn |-> calls[p]]
  <2>1. call' = [call EXCEPT ![p] = c] /\ socket' = [socket EXCEPT ![p] = s]
    BY <1>5 DEF Open, ProcessTypes
  <2>2. c.phase = "send" /\ c.action = call[p].action /\ c.results = call[p].results
    <3>1. "send" \in Phase /\ call[p] \in Call
      BY DEF Phase, ProcessTypes
    <3> QED BY <3>1, CallPhase
  <2>3. s.dev = call[p].dev /\ s.server = server[call[p].dev] /\ s.conn = calls[p]
    OBVIOUS
  <2>4. call[p].dev \in Dev /\ call[p].results = <<>>
    BY <1>1 DEF CallsTyped, InCall
  <2> HIDE DEF c, s
  <2>5. /\ OthersKept(p) /\ call'[p] = c /\ socket'[p] = s /\ calls'[p] = calls[p]
        /\ replies'[p] = replies[p] /\ KeepsNotes(p)
    BY <1>2, <1>3, <2>1, KeptNotes
  <2> QED BY <1>1, <2>2, <2>3, <2>4, <2>5 DEF Opens
<1> QED BY <1>4, <1>5

LEMMA SendMoves ==
  ASSUME ProcessTypes, ServerTypes, CallsTyped, NEW p \in Process, Send(p)
  PROVE  OthersKept(p) /\ Sends(p)
<1> DEFINE c == [call[p] EXCEPT !.phase = "wait"]  s == socket[p]
           n == Len(call[p].results) + 1  req == ScriptOf(p)[n]
<1>1. /\ call[p].phase = "send" /\ call[p] \in Call
      /\ call' = [call EXCEPT ![p] = c] /\ socket' = [socket EXCEPT ![p] = s]
      /\ UNCHANGED <<calls, replies, done, print, server, starts, gcode>>
  BY DEF Send, histories, ProcessTypes
<1>2. /\ c.phase = "wait" /\ c.action = call[p].action /\ c.results = call[p].results
  <2>1. "wait" \in Phase
    BY DEF Phase
  <2> QED BY <1>1, <2>1, CallPhase
<1>3. PICK junk \in (IF call[p].action = "stdin" THEN BOOLEAN ELSE {FALSE}) :
        queue' = [queue EXCEPT ![socket[p].dev] = @ \cup
          {[from |-> p, conn |-> socket[p].conn, number |-> n, req |-> req, junk |-> junk]}]
  BY DEF Send
<1> DEFINE e == [from |-> p, conn |-> socket[p].conn, number |-> n, req |-> req, junk |-> junk]
<1>4. n \in Nat /\ req \in Req
  BY <1>1, NextRequest
<1>5. queue' = [queue EXCEPT ![socket[p].dev] = @ \cup {e}]
  BY <1>3
<1>6. junk \in BOOLEAN /\ (junk => call[p].action = "stdin") /\ socket[p].conn \in Nat
  BY <1>3 DEF ProcessTypes, Sock
<1>7. e \in Entry /\ IsNext(p, e)
  BY <1>4, <1>6 DEF Entry, IsNext
<1> HIDE DEF e, n, req, c, s
<1>8. \A d \in Dev : queue'[d] = IF d = socket[p].dev THEN queue[d] \cup {e} ELSE queue[d]
  BY <1>5 DEF ServerTypes
<1>9. RequestsStay(p)
  BY <1>7, <1>8 DEF IsNext, RequestsStay
<1>10. /\ OthersKept(p) /\ call'[p] = c /\ socket'[p] = s /\ calls'[p] = calls[p]
       /\ replies'[p] = replies[p] /\ KeepsNotes(p)
  <2>1. call' = [call EXCEPT ![p] = c] /\ socket' = [socket EXCEPT ![p] = s]
    BY <1>1
  <2>2. CallOnly
    BY <1>1 DEF CallOnly
  <2> QED BY <1>9, <2>1, <2>2, KeptNotes
<1>11. KeepsSocket(p) /\ call'[p].phase = "wait" /\ call'[p].action = call[p].action
       /\ call'[p].results = call[p].results
  BY <1>2, <1>10 DEF KeepsSocket, s
<1> QED BY <1>1, <1>7, <1>8, <1>10, <1>11 DEF Sends

LEMMA ResultsMoves ==
  ASSUME ProcessTypes, ServerTypes, CallsTyped, NEW p \in Process, Results(p)
  PROVE  OthersKept(p) /\ Gets(p)
<1>1. PICK result \in -4..0 :
        /\ call[p].phase \in {"send", "wait"}
        /\ \/ call[p].phase = "wait" /\ replies[p] # <<>> /\ result = Head(replies[p])
           \/ result = -1
        /\ Result(p, result)
        /\ UNCHANGED <<calls, serverVars>>
  BY DEF Results
<1> DEFINE results == Append(call[p].results, result)  c == After(p, results, result)
           ends == Ending(p, results, result)  none == <<>>
<1>2. /\ call' = [call EXCEPT ![p] = c]
      /\ replies' = [replies EXCEPT ![p] = none]
      /\ ends => /\ socket' = [socket EXCEPT ![p] = Closed]
                 /\ left' = [left EXCEPT ![p] = None]
                 /\ IF c.exit = 0 THEN UNCHANGED <<done, print>> ELSE Forget(p)
      /\ ~ends => UNCHANGED <<socket, left, done, print>>
  BY <1>1, ResultEffect
<1>3. UNCHANGED <<calls, server, starts, queue, gcode>>
  BY <1>1 DEF serverVars
<1>4. RequestsStay(p)
  BY <1>3 DEF RequestsStay
<1> HIDE DEF results, c, ends, none
<1>5. /\ call'[p] = c /\ calls'[p] = calls[p] /\ replies'[p] = none
      /\ \A q \in Process : q # p => /\ call'[q] = call[q] /\ calls'[q] = calls[q]
                                     /\ replies'[q] = replies[q]
  BY <1>2, <1>3 DEF ProcessTypes
<1>6. CASE ends
  <2>1. socket'[p] = Closed /\ \A q \in Process : q # p => socket'[q] = socket[q]
    BY <1>2, <1>6 DEF ProcessTypes
  <2>2. /\ c.exit = 0 => KeepsNotes(p)
        /\ \A q \in Process : q # p => KeepsNotes(q)
    BY <1>2, <1>6 DEF ProcessTypes, Forget, KeepsNotes
  <2>3. OthersKept(p)
    BY <1>3, <1>5, <1>4, <2>1, <2>2 DEF OthersKept, Keeps, KeepsNotes
  <2>4. KeepsRequests
    BY <1>3 DEF KeepsRequests
  <2> QED BY <1>1, <1>5, <1>6, <2>1, <2>2, <2>3, <2>4 DEF Gets, results, c, ends, none
<1>7. CASE ~ends
  <2>1. UNCHANGED <<socket, done, print>>
    BY <1>2, <1>7
  <2>3. OthersKept(p)
    BY <1>3, <1>5, <1>4, <2>1 DEF OthersKept, Keeps
  <2>4. KeepsRequests /\ KeepsNotes(p) /\ socket'[p] = socket[p]
    BY <1>3, <2>1 DEF KeepsRequests, KeepsNotes
  <2> QED BY <1>1, <1>5, <1>7, <2>3, <2>4 DEF Gets, results, c, ends, none
<1> QED BY <1>6, <1>7

LEMMA ProcessMoves ==
  ASSUME ProcessTypes, ServerTypes, CallsTyped, NEW p \in Process, ProcessStep(p)
  PROVE  OthersKept(p) /\ Moves(p)
<1>1. CASE Invoke(p) \/ LuaCall(p)
  BY <1>1, InvokeMoves, LuaCallMoves DEF Moves
<1>2. CASE LuaAbort(p) \/ OpenFails(p)
  BY <1>2, LuaAbortMoves, OpenFailsMoves DEF Moves
<1>3. CASE Open(p) \/ Send(p)
  BY <1>3, OpenMoves, SendMoves DEF Moves
<1>4. CASE SendFails(p) \/ Receive(p) \/ NoReply(p)
  BY <1>4, ResultSteps, ResultsMoves DEF Moves
<1> QED BY <1>1, <1>2, <1>3, <1>4 DEF ProcessStep, Step

-----------------------------------------------------------------------------
(* Connections.  A connection has the number of the call that opened it,   *)
(* and its requests go to the one server it was made to; a call that       *)
(* succeeds closes it.  A new connection has none of the requests that     *)
(* still wait in some queue.                                               *)
Linked(p) ==
  LET c == call[p]
      s == socket[p]
  IN  /\ s # Closed => /\ s.dev \in Dev /\ s.server \in 1..starts[s.dev]
                       /\ s.conn \in 1..calls[p]
      /\ c.phase = "open" => s = Closed /\ calls[p] >= 1
      /\ c.phase = "idle" /\ (p \notin Lua \/ c.exit = 0) => s = Closed
      /\ c.phase \in {"send", "wait"} /\ p \notin Lua => s.conn = calls[p]
      /\ \A d \in Dev : server[d] <= starts[d]
      /\ \A d \in Dev : \A e \in queue[d] :
           e.from = p => /\ e.conn \in 1..calls[p]
                         /\ c.phase = "open" => e.conn < calls[p]
                         /\ e.conn = s.conn => d = s.dev

NoNewRequests(p) ==
  \A d \in Dev : \A e \in Entry : e.from = p /\ e \in queue'[d] => e \in queue[d]

LEMMA StillLinked ==
  ASSUME Typed, Typed', NEW p \in Process, Linked(p),
         call'[p] = call[p], socket'[p] = socket[p], calls'[p] = calls[p],
         NoNewRequests(p),
         \A d \in Dev : starts[d] <= starts'[d] /\ server'[d] <= starts'[d]
  PROVE  Linked(p)'
<1>1. /\ call[p] \in Call /\ socket[p] \in Sock /\ calls[p] \in Nat
      /\ \A d \in Dev : starts[d] \in Nat /\ starts'[d] \in Nat
      /\ \A d \in Dev : queue'[d] \subseteq Entry
  BY BoundAssumption DEF Typed, ProcessTypes, ServerTypes
<1>2. \A d \in Dev : \A e \in queue'[d] : e.from = p => e \in queue[d]
  BY <1>1 DEF NoNewRequests
<1>3. socket[p] # Closed => socket[p].dev \in Dev /\ socket[p].server \in 1..starts'[socket[p].dev]
  BY <1>1 DEF Linked, Sock
<1> QED BY <1>1, <1>2, <1>3 DEF Linked

LEMMA LinkedMoves ==
  ASSUME Typed, Typed', NEW p \in Process, Linked(p), OthersKept(p), Moves(p)
  PROVE  Linked(p)'
<1>0. /\ call[p] \in Call /\ socket[p] \in Sock /\ calls[p] \in Nat
      /\ \A d \in Dev : starts[d] \in Nat /\ server[d] \in Nat
      /\ \A d \in Dev : queue[d] \subseteq Entry
      /\ \A e \in Entry : e.conn \in Nat
  BY BoundAssumption DEF Typed, ProcessTypes, ServerTypes, Entry
<1>1. UNCHANGED <<server, starts>>
  BY DEF OthersKept
<1>2. CASE Begins(p)
  <2>1. queue' = [d \in Dev |-> queue[d]]
    BY <1>2 DEF Begins, KeepsRequests, Typed, ServerTypes
  <2>2. \A d \in Dev : queue'[d] = queue[d]
    BY <2>1
  <2>3. /\ calls'[p] = calls[p] + 1 /\ socket'[p] = socket[p] /\ call[p].phase = "idle"
        /\ call'[p].phase \in {"idle", "open", "send"}
        /\ call'[p].phase \in {"idle", "open"} => p \notin Lua \/ socket[p] = Closed
        /\ call'[p].phase = "send" => p \in Lua
    BY <1>2 DEF Begins
  <2>4. p \notin Lua => socket[p] = Closed
    BY <2>3 DEF Linked
  <2>5. \A d \in Dev : \A e \in queue[d] :
           e.from = p => /\ e.conn \in 1..calls'[p] /\ e.conn < calls'[p]
                         /\ e.conn = socket[p].conn => d = socket[p].dev
    BY <1>0, <2>3 DEF Linked
  <2>6. socket[p] # Closed => /\ socket[p].dev \in Dev
                              /\ socket[p].server \in 1..starts[socket[p].dev]
                              /\ socket[p].conn \in 1..calls'[p]
    BY <1>0, <2>3 DEF Linked
  <2>7. \A d \in Dev : server[d] <= starts[d]
    BY DEF Linked
  <2>8. calls'[p] >= 1
    BY <1>0, <2>3
  <2> QED BY <1>1, <2>2, <2>3, <2>4, <2>5, <2>6, <2>7, <2>8 DEF Linked
<1>3. CASE Fails(p)
  <2>1. /\ socket'[p] = socket[p] /\ calls'[p] = calls[p]
        /\ call'[p].phase = "idle" /\ call'[p].exit = 1
        /\ \A d \in Dev : queue'[d] = queue[d]
        /\ p \notin Lua => call[p].phase = "open"
    BY <1>3 DEF Fails, KeepsSocket, KeepsRequests
  <2> QED BY <1>1, <2>1 DEF Linked
<1>4. CASE Opens(p)
  <2>1. /\ call[p].phase = "open" /\ call[p].dev \in Dev /\ server[call[p].dev] # 0
        /\ socket'[p].dev = call[p].dev /\ socket'[p].conn = calls[p]
        /\ socket'[p].server = server[call[p].dev]
        /\ call'[p].phase = "send" /\ calls'[p] = calls[p]
        /\ \A d \in Dev : queue'[d] = queue[d]
    BY <1>4 DEF Opens, KeepsRequests
  <2>2. server[call[p].dev] \in 1..starts[call[p].dev] /\ calls[p] \in 1..calls[p]
    BY <1>0, <2>1 DEF Linked
  <2>3. \A d \in Dev : \A e \in queue[d] :
           e.from = p => e.conn \in 1..calls[p] /\ e.conn < calls[p]
    BY <2>1 DEF Linked
  <2>4. \A d \in Dev : \A e \in queue[d] : e.from = p => e.conn # calls[p]
    BY <1>0, <2>3
  <2>5. \A d \in Dev : server[d] <= starts[d]
    BY DEF Linked
  <2> QED BY <1>1, <2>1, <2>2, <2>3, <2>4, <2>5 DEF Linked
<1>5. CASE Sends(p)
  <2>1. PICK e \in Entry :
          /\ IsNext(p, e)
          /\ \A d \in Dev : queue'[d] = IF d = socket[p].dev THEN queue[d] \cup {e} ELSE queue[d]
    BY <1>5 DEF Sends
  <2>2. /\ call[p].phase = "send" /\ call'[p].phase = "wait"
        /\ socket'[p] = socket[p] /\ calls'[p] = calls[p]
        /\ e.from = p /\ e.conn = socket[p].conn
    BY <1>5, <2>1 DEF Sends, KeepsSocket, IsNext
  <2>3. socket[p] # Closed
    BY <2>2 DEF Typed, CallsTyped, InCall
  <2>4. e.conn \in 1..calls[p]
    BY <2>2, <2>3 DEF Linked
  <2>5. \A d \in Dev : \A f \in queue'[d] : f \in queue[d] \/ (f = e /\ d = socket[p].dev)
    BY <2>1
  <2>6. \A d \in Dev : \A f \in queue'[d] :
           f.from = p => f.conn \in 1..calls[p] /\ (f.conn = socket[p].conn => d = socket[p].dev)
    BY <2>4, <2>5 DEF Linked
  <2> QED BY <1>1, <2>2, <2>6 DEF Linked
<1>6. CASE Gets(p)
  <2>1. PICK result \in -4..0 :
          LET results == Append(call[p].results, result)
              c == After(p, results, result)
          IN  /\ call[p].phase \in {"send", "wait"}
              /\ call'[p] = c /\ calls'[p] = calls[p] /\ KeepsRequests
              /\ Ending(p, results, result) => socket'[p] = Closed
              /\ ~Ending(p, results, result) => socket'[p] = socket[p]
    BY <1>6 DEF Gets
  <2> DEFINE results == Append(call[p].results, result)  c == After(p, results, result)
  <2>2. /\ Ending(p, results, result) => c.phase = "idle"
        /\ ~Ending(p, results, result) => c.phase = "send"
    BY <2>1, AfterFacts DEF Typed
  <2>3. \/ call'[p].phase = "idle" /\ socket'[p] = Closed
        \/ call'[p].phase = "send" /\ socket'[p] = socket[p]
    <3> HIDE DEF results, c
    <3> QED BY <2>1, <2>2 DEF results, c
  <2>4. calls'[p] = calls[p] /\ \A d \in Dev : queue'[d] = queue[d]
    BY <2>1 DEF KeepsRequests
  <2>5. \A d \in Dev : \A e \in queue[d] : e.from = p => e.conn \in 1..calls[p] /\ e.conn # 0
    BY <1>0 DEF Linked
  <2>6. Closed.conn = 0
    BY DEF Closed
  <2> QED BY <1>1, <2>1, <2>3, <2>4, <2>5, <2>6 DEF Linked
<1> QED BY <1>2, <1>3, <1>4, <1>5, <1>6 DEF Moves

-----------------------------------------------------------------------------
(* What a call that ends well has done.  Its requests that are not run yet *)
(* and the answers it has not read make one at most, and none when it is   *)
(* about to send: that is the next of its script, after as many that were  *)
(* answered by OK.                                                         *)
MineOf(p) ==
  {e \in UNION {queue[d] : d \in Dev} : e.from = p /\ e.conn = socket[p].conn}

Progressed(dn, script, k) ==
  Len(dn) = k /\ k <= Len(script) /\ \A i \in 1..k : dn[i] = script[i]

Waiting(k, script, dn, r, m) ==
  \/ /\ r = <<>> /\ Progressed(dn, script, k)
     /\ \A e \in m : e.number = k + 1 /\ e.req = script[k + 1] /\ \A f \in m : f = e
  \/ /\ m = {}
     /\ \E a \in -3..0 : r = <<a>> /\ Progressed(dn, script, IF a = 0 THEN k + 1 ELSE k)

Clean(results) == \A i \in 1..Len(results) : results[i] >= 0

Answered(p) ==
  LET c == call[p]
      k == Len(c.results)
  IN  /\ c.phase \in {"idle", "open"} => replies[p] = <<>> /\ MineOf(p) = {}
      /\ c.phase = "idle" /\ c.exit = 0 =>
           done[p] = ScriptOf(p) /\ (p \notin Lua => c.printed = <<"OK">>)
      /\ c.phase = "open" => done[p] = <<>>
      /\ c.phase \in {"send", "wait"} /\ EndsAtFailure(p) => Clean(c.results)
      /\ c.phase = "send" /\ Clean(c.results) =>
           replies[p] = <<>> /\ MineOf(p) = {} /\ Progressed(done[p], ScriptOf(p), k)
      /\ c.phase = "wait" /\ Clean(c.results) =>
           Waiting(k, ScriptOf(p), done[p], replies[p], MineOf(p))

LEMMA MineFacts ==
  ASSUME NEW p \in Process
  PROVE  \A e : e \in MineOf(p) <=>
           e.from = p /\ e.conn = socket[p].conn /\ \E d \in Dev : e \in queue[d]
BY DEF MineOf

(* What a process has to run for it is only what it had before, as long as *)
(* it stays with its connection.                                           *)
LEMMA MineShrinks ==
  ASSUME ServerTypes, ServerTypes', NEW p \in Process,
         socket'[p].conn = socket[p].conn, NoNewRequests(p)
  PROVE  MineOf(p)' \subseteq MineOf(p)
BY DEF MineOf, NoNewRequests, ServerTypes

LEMMA FewerWaiting ==
  ASSUME NEW k, NEW script, NEW dn, NEW r, NEW m, NEW m1, m1 \subseteq m,
         Waiting(k, script, dn, r, m)
  PROVE  Waiting(k, script, dn, r, m1)
BY DEF Waiting

LEMMA ScriptSame ==
  ASSUME NEW p \in Process, call'[p].action = call[p].action
  PROVE  ScriptOf(p)' = ScriptOf(p) /\ (EndsAtFailure(p)' <=> EndsAtFailure(p))
BY DEF ScriptOf, EndsAtFailure

LEMMA StillAnswered ==
  ASSUME Typed, Typed', NEW p \in Process, Answered(p),
         call'[p] = call[p], socket'[p] = socket[p],
         replies'[p] = replies[p], done'[p] = done[p], NoNewRequests(p)
  PROVE  Answered(p)'
<1> DEFINE k == Len(call[p].results)  script == ScriptOf(p)  dn == done[p]  r == replies[p]
           m == MineOf(p)  m1 == MineOf(p)'
<1>1. m1 \subseteq m
  BY MineShrinks DEF Typed
<1>2. ScriptOf(p)' = script /\ (EndsAtFailure(p)' <=> EndsAtFailure(p))
  BY ScriptSame
<1> HIDE DEF k, script, dn, r, m, m1
<1>3. Waiting(k, script, dn, r, m) => Waiting(k, script, dn, r, m1)
  BY <1>1, FewerWaiting
<1> QED BY <1>1, <1>2, <1>3 DEF Answered, k, script, dn, r, m, m1

(* The scripts of requests are never empty, and the others always are.     *)
LEMMA NothingToDo ==
  ASSUME NEW p \in Process, p \notin Lua, call[p].action \in {None, "help"}
  PROVE  ScriptOf(p) = <<>>
BY DEF ScriptOf, Script, None

LEMMA MineUnmoved ==
  ASSUME ServerTypes, ServerTypes', NEW p \in Process, socket'[p] = socket[p], KeepsRequests
  PROVE  MineOf(p)' = MineOf(p)
BY DEF MineOf, KeepsRequests

LEMMA ClosedHasNone ==
  ASSUME Typed, NEW p \in Process, Linked(p), socket[p] = Closed
  PROVE  MineOf(p) = {}
<1>1. \A d \in Dev : \A e \in queue[d] : e.from = p => e.conn \in 1..calls[p]
  BY DEF Linked
<1>2. socket[p].conn = 0
  BY DEF Closed
<1> QED BY <1>1, <1>2 DEF MineOf

LEMMA NothingDone ==
  ASSUME NEW script \in Seq(Req)
  PROVE  Progressed(<<>>, script, 0)
BY DEF Progressed

LEMMA CleanNone == Clean(<<>>)
BY DEF Clean

(* The script of a call under way *)
LEMMA ScriptTyped ==
  ASSUME Typed, NEW p \in Process, call[p].phase # "idle"
  PROVE  ScriptOf(p) \in Seq(Req)
<1>1. Known(p, call[p].action)
  BY DEF Typed, CallsTyped, InCall
<1> QED BY <1>1, ScriptFacts DEF ScriptOf, ScriptFor

LEMMA BeginsAnswered ==
  ASSUME Typed, Typed', NEW p \in Process, Linked(p), Answered(p), Begins(p)
  PROVE  Answered(p)'
<1> DEFINE none == <<>>
<1>1. /\ call[p].phase = "idle" /\ socket'[p] = socket[p] /\ replies'[p] = replies[p]
      /\ done'[p] = none /\ KeepsRequests
  BY DEF Begins
<1>2. replies'[p] = none /\ MineOf(p)' = {}
  BY <1>1, MineUnmoved DEF Answered, Typed
<1>3. Clean(none)
  BY CleanNone
<1>4. CASE p \notin Lua /\ call'[p].phase = "idle"
  <2>1. call'[p].exit = 0 => call'[p].action \in {None, "help"} /\ call'[p].printed = <<"OK">>
    BY <1>4 DEF Begins
  <2>2. call'[p].exit = 0 => ScriptOf(p)' = none
    BY <1>4, <2>1 DEF ScriptOf, Script, None
  <2> QED BY <1>1, <1>2, <1>4, <2>1, <2>2 DEF Answered
<1>5. CASE call'[p].phase = "open"
  BY <1>1, <1>2, <1>5 DEF Answered
<1>6. CASE call'[p].phase = "send" /\ call'[p].results = none
  <2>1. ScriptOf(p)' \in Seq(Req)
    <3>1. Known(p, call'[p].action)
      BY <1>6 DEF Typed, CallsTyped, InCall
    <3> QED BY <3>1, ScriptFacts DEF ScriptOf, ScriptFor
  <2>2. Progressed(none, ScriptOf(p)', 0)
    BY <2>1, NothingDone
  <2>3. Len(none) = 0
    OBVIOUS
  <2> HIDE DEF none
  <2> QED BY <1>1, <1>2, <1>3, <1>6, <2>2, <2>3 DEF Answered
<1> QED BY <1>4, <1>5, <1>6 DEF Begins

LEMMA FailsAnswered ==
  ASSUME Typed, Typed', NEW p \in Process, Linked(p), Answered(p), Fails(p)
  PROVE  Answered(p)'
<1>1. /\ socket'[p] = socket[p] /\ replies'[p] = replies[p] /\ KeepsRequests
      /\ call'[p].phase = "idle" /\ call'[p].exit = 1
      /\ call[p].phase = "open" \/ (p \in Lua /\ call[p].phase = "send")
  BY DEF Fails, KeepsSocket
<1>2. replies[p] = <<>> /\ MineOf(p) = {}
  BY <1>1 DEF Answered, EndsAtFailure
<1>3. MineOf(p)' = {}
  BY <1>1, <1>2, MineUnmoved DEF Typed
<1> QED BY <1>1, <1>2, <1>3 DEF Answered

LEMMA OpensAnswered ==
  ASSUME Typed, Typed', NEW p \in Process, Linked(p), Answered(p), Opens(p)
  PROVE  Answered(p)'
<1> DEFINE none == <<>>
<1>1. /\ call[p].phase = "open" /\ socket'[p].conn = calls[p]
      /\ call'[p].phase = "send" /\ call'[p].action = call[p].action /\ call'[p].results = none
      /\ replies'[p] = replies[p] /\ done'[p] = done[p] /\ \A d \in Dev : queue'[d] = queue[d]
  BY DEF Opens, KeepsNotes, KeepsRequests
<1>2. replies[p] = none /\ done[p] = none
  BY <1>1 DEF Answered
<1>3. MineOf(p)' = {}
  <2>1. \A d \in Dev : \A e \in queue[d] :
          e.from = p => e.conn \in 1..calls[p] /\ e.conn < calls[p]
    BY <1>1 DEF Linked
  <2>2. \A d \in Dev : \A e \in queue[d] : e.from = p => e.conn # calls[p]
    BY <2>1 DEF Typed, ProcessTypes
  <2> QED BY <1>1, <2>2 DEF MineOf
<1>4. ScriptOf(p)' = ScriptOf(p) /\ ScriptOf(p) \in Seq(Req)
  BY <1>1, ScriptSame, ScriptTyped
<1>5. Progressed(none, ScriptOf(p), 0) /\ Clean(none) /\ Len(none) = 0
  BY <1>4, NothingDone, CleanNone
<1> HIDE DEF none
<1> QED BY <1>1, <1>2, <1>3, <1>4, <1>5 DEF Answered

LEMMA SendsAnswered ==
  ASSUME Typed, Typed', NEW p \in Process, Linked(p), Answered(p), Sends(p)
  PROVE  Answered(p)'
<1> DEFINE k == Len(call[p].results)  script == ScriptOf(p)  dn == done[p]  m1 == MineOf(p)'
<1>1. /\ call[p].phase = "send" /\ call'[p].phase = "wait" /\ call'[p].action = call[p].action
      /\ call'[p].results = call[p].results
      /\ socket'[p] = socket[p] /\ replies'[p] = replies[p] /\ done'[p] = done[p]
  BY DEF Sends, KeepsSocket, KeepsNotes
<1>2. PICK e \in Entry :
        /\ IsNext(p, e)
        /\ \A d \in Dev : queue'[d] = IF d = socket[p].dev THEN queue[d] \cup {e} ELSE queue[d]
  BY DEF Sends
<1>3. ScriptOf(p)' = script /\ (EndsAtFailure(p)' <=> EndsAtFailure(p))
  BY <1>1, ScriptSame
<1>4. e.number = k + 1 /\ e.req = script[k + 1]
  BY <1>2 DEF IsNext
<1>5. ASSUME Clean(call[p].results) PROVE Waiting(k, script, dn, <<>>, m1)
  <2>1. MineOf(p) = {} /\ Progressed(dn, script, k)
    BY <1>1, <1>5 DEF Answered
  <2>2. \A d \in Dev : \A f \in queue'[d] : f \in queue[d] \/ f = e
    BY <1>2
  <2>3. \A f \in m1 : f = e
    BY <1>1, <2>1, <2>2 DEF MineOf
  <2> HIDE DEF k, script, dn, m1
  <2> QED BY <1>4, <2>1, <2>3 DEF Waiting
<1>6. Clean(call[p].results) => replies[p] = <<>>
  BY <1>1 DEF Answered
<1>7. EndsAtFailure(p) => Clean(call[p].results)
  BY <1>1 DEF Answered
<1> QED BY <1>1, <1>3, <1>5, <1>6, <1>7 DEF Answered, k, script, dn, m1

(* An answer by OK: the request was run, and there are no others.          *)
LEMMA AnswerTaken ==
  ASSUME NEW k \in Nat, NEW script \in Seq(Req), NEW dn \in Seq(Req), NEW r, NEW m,
         Waiting(k, script, dn, r, m), r # <<>>, Head(r) >= 0
  PROVE  m = {} /\ Progressed(dn, script, k + 1)
<1>1. PICK a \in -3..0 : r = <<a>> /\ Progressed(dn, script, IF a = 0 THEN k + 1 ELSE k)
  BY DEF Waiting
<1>2. m = {}
  BY DEF Waiting
<1>3. a = 0
  BY <1>1
<1> QED BY <1>1, <1>2, <1>3

LEMMA AllDone ==
  ASSUME NEW script \in Seq(Req), NEW dn \in Seq(Req), Progressed(dn, script, Len(script))
  PROVE  dn = script
BY DEF Progressed

LEMMA CleanAppend ==
  ASSUME NEW old \in Seq(-4..0), NEW result \in -4..0
  PROVE  Clean(Append(old, result)) <=> Clean(old) /\ result >= 0
<1> DEFINE results == Append(old, result)
<1>1. Len(results) = Len(old) + 1 /\ Len(old) \in Nat
  OBVIOUS
<1>2. results[Len(old) + 1] = result /\ \A i \in 1..Len(old) : results[i] = old[i]
  OBVIOUS
<1> HIDE DEF results
<1> QED BY <1>1, <1>2 DEF Clean, results

LEMMA GetsAnswered ==
  ASSUME Typed, Typed', NEW p \in Process, Linked(p), Linked(p)', Answered(p), Gets(p)
  PROVE  Answered(p)'
<1> DEFINE old == call[p].results  k == Len(old)  script == ScriptOf(p)  dn == done[p]
           r == replies[p]  m == MineOf(p)
<1>1. PICK result \in -4..0 :
        LET results == Append(old, result)
            c == After(p, results, result)
        IN  /\ call[p].phase \in {"send", "wait"}
            /\ \/ call[p].phase = "wait" /\ r # <<>> /\ result = Head(r)
               \/ result = -1
            /\ call'[p] = c /\ replies'[p] = <<>> /\ KeepsRequests
            /\ Ending(p, results, result) =>
                 socket'[p] = Closed /\ (c.exit = 0 => KeepsNotes(p))
            /\ ~Ending(p, results, result) => socket'[p] = socket[p] /\ KeepsNotes(p)
  BY DEF Gets
<1> DEFINE results == Append(old, result)  c == After(p, results, result)
           ends == Ending(p, results, result)
<1>2. /\ results \in Seq(-4..0) /\ Len(results) = k + 1
      /\ c.action = call[p].action
      /\ ends => /\ c.phase = "idle"
                 /\ c.exit = IF p \in Lua THEN LuaStatus(result) ELSE Exit(results)
                 /\ p \notin Lua => c.printed = Printed(call[p].action, results)
      /\ ~ends => c.phase = "send" /\ c.results = results
  BY <1>1, AfterFacts DEF Typed
<1>3. old \in Seq(-4..0) /\ k \in Nat /\ dn \in Seq(Req) /\ script \in Seq(Req)
  <2>1. call[p].phase # "idle"
    BY <1>1
  <2> QED BY <2>1, ScriptTyped DEF Typed, ProcessTypes, Call
<1>4. Clean(results) <=> Clean(old) /\ result >= 0
  BY <1>3, CleanAppend
<1>5. ends <=> Len(results) = Len(script) \/ (result < 0 /\ EndsAtFailure(p))
  BY DEF Ending
<1>6. EndsAtFailure(p) => Clean(old)
  BY <1>1 DEF Answered
<1>7. call'[p] = c /\ replies'[p] = <<>> /\ KeepsRequests
  BY <1>1
<1>8. ends => socket'[p] = Closed /\ (c.exit = 0 => done'[p] = dn)
  BY <1>1 DEF KeepsNotes
<1>9. ~ends => socket'[p] = socket[p] /\ done'[p] = dn
  BY <1>1 DEF KeepsNotes
<1>10. Clean(results) => m = {} /\ Progressed(dn, script, k + 1)
  <2> SUFFICES ASSUME Clean(results) PROVE m = {} /\ Progressed(dn, script, k + 1)
    OBVIOUS
  <2>1. Clean(old) /\ result >= 0
    BY <1>4
  <2>2. call[p].phase = "wait" /\ r # <<>> /\ result = Head(r)
    BY <1>1, <2>1
  <2>3. Waiting(k, script, dn, r, m)
    BY <2>1, <2>2 DEF Answered
  <2> HIDE DEF old, k, script, dn, r, m, results
  <2> QED BY <1>3, <2>1, <2>2, <2>3, AnswerTaken
<1>11. ScriptOf(p)' = script /\ (EndsAtFailure(p)' <=> EndsAtFailure(p))
  <2> HIDE DEF c, results
  <2>1. call'[p].action = call[p].action
    BY <1>2, <1>7
  <2> QED BY <2>1, ScriptSame
<1> HIDE DEF old, k, script, dn, r, m, results, c, ends
<1>12. CASE ends
  <2>1. MineOf(p)' = {}
    <3>1. socket'[p].conn = 0
      BY <1>8, <1>12 DEF Closed
    <3>2. \A d \in Dev : \A e \in queue'[d] : e.from = p => e.conn \in 1..calls'[p]
      BY DEF Linked
    <3> QED BY <3>1, <3>2 DEF MineOf
  <2>2. ASSUME c.exit = 0
        PROVE  done'[p] = script /\ (p \notin Lua => c.printed = <<"OK">>)
    <3>1. Clean(results)
      <4>1. CASE p \in Lua
        <5>1. LuaStatus(result) = 0
          BY <1>2, <1>12, <2>2, <4>1
        <5>2. result >= 0
          BY <1>2, <5>1, StatusFacts
        <5>3. EndsAtFailure(p)
          BY <4>1 DEF EndsAtFailure
        <5> QED BY <1>4, <1>6, <5>2, <5>3
      <4>2. CASE p \notin Lua
        <5>1. Exit(results) = 0
          BY <1>2, <1>12, <2>2, <4>2
        <5>2. Failures(results) = 0
          BY <1>2, <5>1, StatusFacts
        <5> QED BY <1>2, <5>2, FailuresFacts DEF Clean
      <4> QED BY <4>1, <4>2
    <3>2. Len(results) = Len(script)
      BY <1>4, <1>5, <1>12, <3>1
    <3>3. dn = script
      BY <1>2, <1>3, <1>10, <3>1, <3>2, AllDone
    <3>4. Failures(results) = 0
      BY <1>2, <3>1, FailuresFacts DEF Clean
    <3>5. p \notin Lua => c.printed = <<"OK">>
      BY <1>2, <1>12, <3>4, PrintedFacts
    <3> QED BY <1>8, <1>12, <2>2, <3>3, <3>5
  <2>3. c.phase = "idle"
    BY <1>2, <1>12
  <2> QED BY <1>7, <1>11, <2>1, <2>2, <2>3 DEF Answered
<1>13. CASE ~ends
  <2>1. MineOf(p)' = m
    BY <1>7, <1>9, <1>13, MineUnmoved DEF Typed, m
  <2>2. EndsAtFailure(p) => Clean(results)
    BY <1>4, <1>5, <1>6, <1>13
  <2>3. c.phase = "send" /\ c.results = results /\ Len(results) = k + 1
    BY <1>2, <1>13
  <2> QED BY <1>7, <1>9, <1>10, <1>11, <1>13, <2>1, <2>2, <2>3 DEF Answered
<1> QED BY <1>12, <1>13

LEMMA AnsweredMoves ==
  ASSUME Typed, Typed', NEW p \in Process, Linked(p), Linked(p)', Answered(p), Moves(p)
  PROVE  Answered(p)'
BY BeginsAnswered, FailsAnswered, OpensAnswered, SendsAnswered, GetsAnswered DEF Moves

DoneWith(dn, req, answer) == IF answer = 0 THEN Append(dn, req) ELSE dn

(* The server runs the one request there is. *)
LEMMA RequestRun ==
  ASSUME NEW k \in Nat, NEW script \in Seq(Req), NEW dn \in Seq(Req), NEW r, NEW m, NEW e \in m,
         k + 1 \in 1..Len(script), NEW answer \in -3..0, Waiting(k, script, dn, r, m)
  PROVE  /\ r = <<>> /\ Progressed(dn, script, k)
         /\ e.number = k + 1 /\ e.req = script[k + 1] /\ \A f \in m : f = e
         /\ Waiting(k, script, DoneWith(dn, e.req, answer), <<answer>>, {})
<1> DEFINE more == Append(dn, e.req)
<1>1. /\ r = <<>> /\ Progressed(dn, script, k)
      /\ e.number = k + 1 /\ e.req = script[k + 1] /\ \A f \in m : f = e
  BY DEF Waiting
<1>2. Len(more) = k + 1 /\ more[k + 1] = script[k + 1] /\ \A i \in 1..k : more[i] = script[i]
  BY <1>1 DEF Progressed
<1> HIDE DEF more
<1>3. Progressed(more, script, k + 1)
  <2>1. k + 1 <= Len(script)
    OBVIOUS
  <2>2. \A i \in 1..(k + 1) : i \in 1..k \/ i = k + 1
    OBVIOUS
  <2> QED BY <1>2, <2>1, <2>2 DEF Progressed
<1>4. Waiting(k, script, IF answer = 0 THEN more ELSE dn, <<answer>>, {})
  BY <1>1, <1>3 DEF Waiting
<1> QED BY <1>1, <1>4 DEF more, DoneWith

(* What the rest of the state is to a process when a request is run *)
LEMMA ServedRest ==
  ASSUME Typed, NEW d \in Dev, NEW e \in Entry, NEW answer \in -3..0, NEW after \in Seq(Text),
         Served(d, e, answer, after), NEW p \in Process
  PROVE  /\ call'[p] = call[p] /\ socket'[p] = socket[p] /\ calls'[p] = calls[p]
         /\ UNCHANGED <<server, starts>> /\ NoNewRequests(p)
         /\ e \in queue[d] /\ \A b \in Dev : queue'[b] = IF b = d THEN queue[d] \ {e} ELSE queue[b]
         /\ \A b \in Dev : gcode'[b] = IF b = d THEN after ELSE gcode[b]
         /\ print'[p] = PrintNote(p, d, e)
         /\ ~(e.from = p /\ Live(e)) => replies'[p] = replies[p] /\ done'[p] = done[p]
<1>1. UNCHANGED <<call, socket, calls, server, starts>>
  BY DEF Served
<1>2. e \in queue[d] /\ \A b \in Dev : queue'[b] = IF b = d THEN queue[d] \ {e} ELSE queue[b]
  BY DEF Served, Typed, ServerTypes
<1>3. NoNewRequests(p)
  BY <1>2 DEF NoNewRequests
<1>4. \A b \in Dev : gcode'[b] = IF b = d THEN after ELSE gcode[b]
  BY DEF Served, Typed, ServerTypes
<1>5. print'[p] = PrintNote(p, d, e)
  BY DEF Served
<1>6. e.from \in Process
  BY DEF Entry
<1>7. ~(e.from = p /\ Live(e)) => replies'[p] = replies[p] /\ done'[p] = done[p]
  BY <1>6 DEF Served, Typed, ProcessTypes
<1> QED BY <1>1, <1>2, <1>3, <1>4, <1>5, <1>7

LEMMA ServedOwn ==
  ASSUME Typed, NEW d \in Dev, NEW e \in Entry, NEW answer \in -3..0, NEW after \in Seq(Text),
         Served(d, e, answer, after), Live(e)
  PROVE  /\ replies'[e.from] = Append(replies[e.from], answer)
         /\ done'[e.from] = DoneWith(done[e.from], e.req, answer)
<1> DEFINE p == e.from
<1>1. /\ replies' = [replies EXCEPT ![p] = Append(replies[p], answer)]
      /\ done' = [done EXCEPT ![p] = DoneWith(done[p], e.req, answer)]
  BY DEF Served, DoneWith
<1>2. p \in Process
  BY DEF Entry
<1> HIDE DEF p
<1>3. /\ replies'[p] = Append(replies[p], answer)
      /\ done'[p] = DoneWith(done[p], e.req, answer)
  BY <1>1, <1>2 DEF Typed, ProcessTypes
<1> QED BY <1>3 DEF p

LEMMA ServedLinked ==
  ASSUME Typed, Typed', NEW d \in Dev, NEW e \in Entry, NEW answer \in -3..0,
         NEW after \in Seq(Text), Served(d, e, answer, after), NEW p \in Process, Linked(p)
  PROVE  Linked(p)'
<1>1. /\ call'[p] = call[p] /\ socket'[p] = socket[p] /\ calls'[p] = calls[p]
      /\ UNCHANGED <<server, starts>> /\ NoNewRequests(p)
  BY ServedRest
<1>2. \A b \in Dev : starts[b] <= starts'[b] /\ server'[b] <= starts'[b]
  BY <1>1, BoundAssumption DEF Linked, Typed, ServerTypes
<1> QED BY <1>1, <1>2, StillLinked

(* A request that is answered is one its process waits for. *)
LEMMA OwnRequest ==
  ASSUME Typed, NEW d \in Dev, NEW e \in Entry, e \in queue[d], NEW p \in Process,
         Linked(p), Answered(p), e.from = p, Live(e)
  PROVE  /\ e \in MineOf(p) /\ d = socket[p].dev /\ Alive(p)
         /\ call[p].phase \in {"send", "wait"}
         /\ Clean(call[p].results) => call[p].phase = "wait"
         /\ \A b \in Dev : e \in queue[b] => b = d
<1>1. e.conn = socket[p].conn /\ Alive(p)
  BY DEF Live
<1>2. e \in MineOf(p)
  BY <1>1 DEF MineOf
<1>3. call[p].phase \in Phase
  BY DEF Typed, ProcessTypes, Call
<1>4. \A b \in Dev : e \in queue[b] => b = socket[p].dev
  BY <1>1 DEF Linked
<1> QED BY <1>1, <1>2, <1>3, <1>4 DEF Answered, Phase

LEMMA ServedAnswered ==
  ASSUME Typed, Typed', NEW d \in Dev, NEW e \in Entry, NEW answer \in -3..0,
         NEW after \in Seq(Text), Served(d, e, answer, after), NEW p \in Process,
         Linked(p), Answered(p)
  PROVE  Answered(p)'
<1>1. /\ call'[p] = call[p] /\ socket'[p] = socket[p] /\ NoNewRequests(p) /\ e \in queue[d]
      /\ \A b \in Dev : queue'[b] = IF b = d THEN queue[d] \ {e} ELSE queue[b]
  BY ServedRest
<1>2. CASE ~(e.from = p /\ Live(e))
  <2>1. replies'[p] = replies[p] /\ done'[p] = done[p]
    BY <1>2, ServedRest
  <2> QED BY <1>1, <2>1, StillAnswered
<1>3. CASE e.from = p /\ Live(e)
  <2> DEFINE k == Len(call[p].results)  script == ScriptOf(p)  dn == done[p]  r == replies[p]
             m == MineOf(p)  dn1 == done'[p]  r1 == replies'[p]  m1 == MineOf(p)'
  <2>1. replies'[p] = Append(replies[p], answer) /\ done'[p] = DoneWith(done[p], e.req, answer)
    <3> HIDE DEF k, script, dn, r, m, dn1, r1, m1
    <3> QED BY <1>3, ServedOwn
  <2>2. /\ e \in m /\ call[p].phase \in {"send", "wait"}
        /\ Clean(call[p].results) => call[p].phase = "wait"
        /\ \A b \in Dev : e \in queue[b] => b = d
    BY <1>1, <1>3, OwnRequest
  <2>3. ScriptOf(p)' = script /\ (EndsAtFailure(p)' <=> EndsAtFailure(p))
    BY <1>1, ScriptSame
  <2>4. EndsAtFailure(p) => Clean(call[p].results)
    BY <2>2 DEF Answered
  <2>5. ASSUME Clean(call[p].results) PROVE Waiting(k, script, dn1, r1, m1)
    <3>1. Waiting(k, script, dn, r, m)
      BY <2>2, <2>5 DEF Answered
    <3>2. k \in Nat /\ k + 1 \in 1..Len(script) /\ script \in Seq(Req) /\ dn \in Seq(Req)
      BY <2>2, NextRequest DEF Typed, ProcessTypes
    <3>3. m1 \subseteq m /\ e \notin m1
      <4>1. m1 \subseteq m
        BY <1>1, MineShrinks DEF Typed
      <4>2. \A b \in Dev : e \notin queue'[b]
        BY <1>1, <2>2
      <4>3. e \notin m1
        BY <4>2 DEF MineOf
      <4> QED BY <4>1, <4>3
    <3> HIDE DEF k, script, dn, r, m, dn1, r1, m1
    <3>4. /\ r = <<>> /\ \A f \in m : f = e
          /\ Waiting(k, script, DoneWith(dn, e.req, answer), <<answer>>, {})
      BY <2>2, <3>1, <3>2, RequestRun
    <3>5. m1 = {}
      BY <3>3, <3>4
    <3>6. r1 = <<answer>>
      BY <2>1, <3>4 DEF r1, r
    <3>7. dn1 = DoneWith(dn, e.req, answer)
      BY <2>1 DEF dn1, dn
    <3> QED BY <3>4, <3>5, <3>6, <3>7
  <2> QED BY <1>1, <2>2, <2>3, <2>4, <2>5 DEF Answered
<1> QED BY <1>2, <1>3

-----------------------------------------------------------------------------
(* A print from the command line: as long as no one else's request is run  *)
(* in between, the buffer is empty after its first request, and holds its  *)
(* text after the second.                                                  *)
Found(p) ==
  CASE call[p].action = "code"  -> {<<Own(p, FALSE)>>}
    [] call[p].action = "file"  -> {<<>>, <<Own(p, FALSE)>>}
    [] call[p].action = "stdin" -> {<<Own(p, j)>> : j \in BOOLEAN}
    [] OTHER -> {}

Prints(p) == p \notin Lua /\ call[p].action \in {"code", "file", "stdin"}

NoFailure(r) == \A i \in 1..Len(r) : r[i] >= 0

(* The buffer and the note, as far as they tell of a print with k requests *)
(* done                                                                    *)
PrintSoFar(p, k) ==
  /\ k \in 1..3
  /\ k = 1 /\ Alive(p) => gcode[socket[p].dev] = <<>>
  /\ k = 2 /\ Alive(p) => gcode[socket[p].dev] \in Found(p)
  /\ k = 3 => print[p].found \in Found(p)

Printing(p) ==
  Prints(p) =>
    /\ call[p].phase = "open" => ~print[p].alone
    /\ call[p].phase \in {"send", "wait"} =>
         /\ \A e \in MineOf(p) : e.junk => call[p].action = "stdin"
         /\ print[p].alone /\ NoFailure(replies[p]) => PrintSoFar(p, Len(done[p]))
         /\ done[p] = <<>> => ~print[p].alone
    /\ call[p].phase = "idle" /\ call[p].exit = 0 /\ print[p].alone =>
         print[p].found \in Found(p)

Middle(action) == IF action = "file" THEN "file" ELSE "append"

LEMMA PrintScript ==
  ASSUME NEW p \in Process, Prints(p)
  PROVE  /\ ScriptOf(p) = <<"clear", Middle(call[p].action), "start">>
         /\ EndsAtFailure(p)
BY DEF Prints, ScriptOf, Script, Middle, EndsAtFailure

(* A print's requests that are done *)
LEMMA PrintDone ==
  ASSUME Typed, NEW p \in Process, Prints(p), Answered(p), call[p].phase \in {"send", "wait"}
  PROVE  /\ Clean(call[p].results)
         /\ Len(done[p]) \in 0..3
         /\ "start" \in Range(done[p]) => Len(done[p]) = 3
<1> DEFINE script == ScriptOf(p)  dn == done[p]  k == Len(call[p].results)
<1>1. script = <<"clear", Middle(call[p].action), "start">> /\ Middle(call[p].action) # "start"
  BY PrintScript DEF Middle
<1>2. Clean(call[p].results)
  BY PrintScript DEF Answered
<1>3. dn \in Seq(Req) /\ k \in Nat
  BY DEF Typed, ProcessTypes, Call
<1>4. Progressed(dn, script, k) \/ Progressed(dn, script, k + 1)
  BY <1>2 DEF Answered, Waiting
<1>5. Len(script) = 3 /\ script[1] # "start" /\ script[2] # "start"
  BY <1>1
<1> HIDE DEF script, dn, k
<1>6. PICK n \in Nat : Progressed(dn, script, n)
  BY <1>3, <1>4
<1>7. Len(dn) = n /\ n \in 0..3 /\ \A i \in 1..n : dn[i] = script[i]
  BY <1>5, <1>6 DEF Progressed
<1>8. ASSUME "start" \in Range(dn) PROVE n = 3
  <2>1. PICK i \in DOMAIN dn : dn[i] = "start"
    BY <1>8 DEF Range
  <2>2. i \in 1..n /\ i # 1 /\ i # 2
    BY <1>3, <1>5, <1>7, <2>1
  <2> QED BY <1>7, <2>2
<1> QED BY <1>2, <1>7, <1>8 DEF dn

LEMMA FoundSame ==
  ASSUME NEW p \in Process, call'[p].action = call[p].action, calls'[p] = calls[p]
  PROVE  Found(p)' = Found(p) /\ (Prints(p)' <=> Prints(p))
BY DEF Found, Own, Prints

(* A step that leaves a print alone, or notes that it is not, and leaves   *)
(* the buffer as it is while that matters                                  *)
LEMMA StillPrinting ==
  ASSUME Typed, Typed', NEW p \in Process, Answered(p), Printing(p),
         call'[p] = call[p], socket'[p] = socket[p], calls'[p] = calls[p],
         replies'[p] = replies[p], done'[p] = done[p], NoNewRequests(p),
         print'[p].alone => print'[p] = print[p],
         (print'[p].alone /\ Prints(p) /\ call[p].phase \in {"send", "wait"}
          /\ Len(done[p]) \in {1, 2} /\ Alive(p)') =>
           Alive(p) /\ gcode'[socket[p].dev] = gcode[socket[p].dev]
  PROVE  Printing(p)'
<1>1. Found(p)' = Found(p) /\ (Prints(p)' <=> Prints(p))
  BY FoundSame
<1>2. MineOf(p)' \subseteq MineOf(p)
  BY MineShrinks DEF Typed
<1>3. ASSUME Prints(p), print'[p].alone, call[p].phase \in {"send", "wait"},
             PrintSoFar(p, Len(done[p]))
      PROVE  PrintSoFar(p, Len(done[p]))'
  BY <1>1, <1>3 DEF PrintSoFar
<1> QED BY <1>1, <1>2, <1>3 DEF Printing

(* A call that has taken an answer goes on, or has succeeded, only if the  *)
(* answer was OK.                                                          *)
LEMMA TakesAnswer ==
  ASSUME Typed, NEW p \in Process, Answered(p), p \notin Lua, EndsAtFailure(p), Gets(p)
  PROVE  /\ call'[p].action = call[p].action /\ calls'[p] = calls[p] /\ KeepsRequests
         /\ replies'[p] = <<>> /\ call[p].phase \in {"send", "wait"}
         /\ \/ call'[p].phase = "idle" /\ call'[p].exit # 0
            \/ /\ NoFailure(replies[p]) /\ KeepsNotes(p)
               /\ \/ call'[p].phase = "idle"
                  \/ call'[p].phase = "send" /\ socket'[p] = socket[p]
<1> DEFINE old == call[p].results
<1>1. PICK result \in -4..0 :
        LET results == Append(old, result)
            c == After(p, results, result)
        IN  /\ call[p].phase \in {"send", "wait"}
            /\ \/ call[p].phase = "wait" /\ replies[p] # <<>> /\ result = Head(replies[p])
               \/ result = -1
            /\ call'[p] = c /\ calls'[p] = calls[p] /\ replies'[p] = <<>> /\ KeepsRequests
            /\ Ending(p, results, result) =>
                 socket'[p] = Closed /\ (c.exit = 0 => KeepsNotes(p))
            /\ ~Ending(p, results, result) => socket'[p] = socket[p] /\ KeepsNotes(p)
  BY DEF Gets
<1> DEFINE results == Append(old, result)  c == After(p, results, result)
           ends == Ending(p, results, result)
<1>2. /\ results \in Seq(-4..0) /\ c.action = call[p].action
      /\ ends => c.phase = "idle" /\ c.exit = Exit(results)
      /\ ~ends => c.phase = "send"
  BY <1>1, AfterFacts DEF Typed
<1>3. Clean(old) /\ old \in Seq(-4..0)
  BY <1>1 DEF Answered, Typed, ProcessTypes, Call
<1>4. Clean(results) <=> result >= 0
  BY <1>3, CleanAppend
<1>5. result < 0 => ends
  BY DEF Ending
<1>6. /\ call'[p] = c /\ calls'[p] = calls[p] /\ replies'[p] = <<>> /\ KeepsRequests
      /\ call[p].phase \in {"send", "wait"}
      /\ ends /\ c.exit = 0 => KeepsNotes(p)
      /\ ~ends => socket'[p] = socket[p] /\ KeepsNotes(p)
  BY <1>1
<1>7. result >= 0 => NoFailure(replies[p])
  <2> SUFFICES ASSUME result >= 0 PROVE NoFailure(replies[p])
    OBVIOUS
  <2>1. call[p].phase = "wait" /\ replies[p] # <<>> /\ result = Head(replies[p])
    BY <1>1
  <2>2. PICK a \in -3..0 : replies[p] = <<a>>
    BY <1>3, <2>1 DEF Answered, Waiting
  <2> QED BY <2>1, <2>2 DEF NoFailure
<1>8. Exit(results) = 0 <=> Clean(results)
  BY <1>2, StatusFacts, FailuresFacts DEF Clean
<1> HIDE DEF old, results, c, ends
<1>9. CASE result >= 0
  BY <1>2, <1>4, <1>6, <1>7, <1>8, <1>9
<1>10. CASE ~(result >= 0)
  BY <1>2, <1>4, <1>5, <1>6, <1>8, <1>10
<1> QED BY <1>9, <1>10

LEMMA GetsKeeps ==
  ASSUME Typed, NEW p \in Process, Gets(p)
  PROVE  call'[p].action = call[p].action /\ calls'[p] = calls[p]
<1>1. PICK result \in -4..0 :
        /\ call[p].phase \in {"send", "wait"} /\ calls'[p] = calls[p]
        /\ call'[p] = After(p, Append(call[p].results, result), result)
  BY DEF Gets
<1> DEFINE c == After(p, Append(call[p].results, result), result)
<1>2. c.action = call[p].action
  BY <1>1, AfterFacts DEF Typed
<1> HIDE DEF c
<1> QED BY <1>1, <1>2 DEF c

LEMMA PrintingMoves ==
  ASSUME Typed, Typed', NEW p \in Process, Linked(p), Answered(p), Answered(p)', Printing(p),
         OthersKept(p), Moves(p)
  PROVE  Printing(p)'
<1>0. UNCHANGED <<server, gcode>>
  BY DEF OthersKept
<1> SUFFICES ASSUME Prints(p)' PROVE Printing(p)'
  BY DEF Printing
<1>1. p \notin Lua /\ call'[p].action \in {"code", "file", "stdin"}
  BY DEF Prints
<1>2. CASE Begins(p)
  <2>1. ~print'[p].alone /\ (call'[p].phase = "idle" => call'[p].exit # 0)
    BY <1>2, <1>1 DEF Begins, None
  <2>2. call'[p].phase \in {"idle", "open"}
    BY <1>2, <1>1 DEF Begins
  <2> QED BY <2>1, <2>2 DEF Printing
<1>3. CASE Fails(p)
  BY <1>3 DEF Fails, Printing
<1>4. CASE Opens(p)
  <2>1. /\ call'[p].phase = "send" /\ call[p].phase = "open" /\ print'[p] = print[p]
        /\ call'[p].action = call[p].action /\ calls'[p] = calls[p]
    BY <1>4 DEF Opens, KeepsNotes
  <2>2. ~print'[p].alone
    BY <2>1, FoundSame DEF Printing
  <2>3. MineOf(p)' = {}
    <3>1. Clean(call'[p].results)
      BY <1>4, CleanNone DEF Opens
    <3> QED BY <2>1, <3>1 DEF Answered
  <2> QED BY <2>1, <2>2, <2>3 DEF Printing
<1>5. CASE Sends(p)
  <2>1. PICK e \in Entry :
          /\ IsNext(p, e)
          /\ \A d \in Dev : queue'[d] = IF d = socket[p].dev THEN queue[d] \cup {e} ELSE queue[d]
    BY <1>5 DEF Sends
  <2>2. /\ call[p].phase = "send" /\ call'[p].phase = "wait" /\ call'[p].action = call[p].action
        /\ socket'[p] = socket[p] /\ replies'[p] = replies[p] /\ done'[p] = done[p]
        /\ print'[p] = print[p] /\ calls'[p] = calls[p]
    BY <1>5 DEF Sends, KeepsSocket, KeepsNotes
  <2>3. \A f \in MineOf(p)' : f \in MineOf(p) \/ f = e
    <3>1. \A d \in Dev : \A f \in queue'[d] : f \in queue[d] \/ f = e
      BY <2>1
    <3> QED BY <2>2, <3>1 DEF MineOf
  <2>4. e.junk => call[p].action = "stdin"
    BY <2>1 DEF IsNext
  <2>5. Found(p)' = Found(p) /\ Prints(p)
    BY <2>2, FoundSame
  <2>6. PrintSoFar(p, Len(done[p])) => PrintSoFar(p, Len(done[p]))'
    BY <1>0, <2>2, <2>5 DEF PrintSoFar, Alive
  <2> QED BY <2>2, <2>3, <2>4, <2>5, <2>6 DEF Printing
<1>6. CASE Gets(p)
  <2>1. call'[p].action = call[p].action /\ calls'[p] = calls[p]
    BY <1>6, GetsKeeps
  <2>2. Found(p)' = Found(p) /\ Prints(p)
    BY <2>1, FoundSame
  <2>3. ScriptOf(p) = <<"clear", Middle(call[p].action), "start">> /\ EndsAtFailure(p)
    BY <2>2, PrintScript
  <2>4. /\ KeepsRequests /\ replies'[p] = <<>> /\ call[p].phase \in {"send", "wait"}
        /\ \/ call'[p].phase = "idle" /\ call'[p].exit # 0
           \/ /\ NoFailure(replies[p]) /\ KeepsNotes(p)
              /\ \/ call'[p].phase = "idle"
                 \/ call'[p].phase = "send" /\ socket'[p] = socket[p]
    BY <1>1, <1>6, <2>3, TakesAnswer
  <2>5. CASE call'[p].phase = "idle" /\ call'[p].exit # 0
    BY <2>5 DEF Printing
  <2>6. CASE call'[p].phase = "idle" /\ call'[p].exit = 0
    <3>1. NoFailure(replies[p]) /\ print'[p] = print[p] /\ done'[p] = done[p]
      BY <2>4, <2>6 DEF KeepsNotes
    <3>2. ScriptOf(p)' = ScriptOf(p)
      BY <2>1, ScriptSame
    <3>3. done[p] = <<"clear", Middle(call[p].action), "start">>
      BY <2>3, <2>6, <3>1, <3>2 DEF Answered
    <3>4. Len(done[p]) = 3
      BY <3>3
    <3>5. print[p].alone => print[p].found \in Found(p)
      BY <2>2, <2>4, <3>1, <3>4 DEF Printing, PrintSoFar
    <3> QED BY <2>2, <2>6, <3>1, <3>5 DEF Printing
  <2>7. CASE call'[p].phase = "send" /\ call'[p].phase # "idle"
    <3>1. /\ NoFailure(replies[p]) /\ print'[p] = print[p] /\ done'[p] = done[p]
          /\ socket'[p] = socket[p]
      BY <2>4, <2>7 DEF KeepsNotes
    <3>2. MineOf(p)' = MineOf(p)
      BY <2>4, <3>1, MineUnmoved DEF Typed
    <3>3. PrintSoFar(p, Len(done[p])) => PrintSoFar(p, Len(done[p]))'
      BY <1>0, <2>2, <3>1 DEF PrintSoFar, Alive
    <3> QED BY <2>1, <2>2, <2>4, <2>7, <3>1, <3>2, <3>3 DEF Printing
  <2> QED BY <2>4, <2>5, <2>6, <2>7
<1> QED BY <1>2, <1>3, <1>4, <1>5, <1>6 DEF Moves

(* Another's request, or an old one, is run. *)
LEMMA OtherServedPrinting ==
  ASSUME Typed, Typed', NEW d \in Dev, NEW e \in Entry, NEW answer \in -3..0,
         NEW after \in Seq(Text), Served(d, e, answer, after), NEW p \in Process,
         Linked(p), Answered(p), Printing(p), ~(e.from = p /\ Live(e))
  PROVE  Printing(p)'
<1>1. /\ call'[p] = call[p] /\ socket'[p] = socket[p] /\ calls'[p] = calls[p]
      /\ UNCHANGED <<server, starts>> /\ NoNewRequests(p)
  BY ServedRest
<1>2. replies'[p] = replies[p] /\ done'[p] = done[p]
  BY ServedRest
<1>3. gcode' = [gcode EXCEPT ![d] = after] /\ print'[p] = PrintNote(p, d, e)
  BY DEF Served
<1> DEFINE shared == [print[p] EXCEPT !.alone = FALSE]
<1>4. print'[p] = IF socket[p].dev = d /\ "start" \notin Range(done[p]) THEN shared ELSE print[p]
  BY <1>3 DEF PrintNote
<1>5. ~shared.alone
  BY DEF Typed, ProcessTypes, Note
<1> HIDE DEF shared
<1>6. print'[p].alone => print'[p] = print[p]
  BY <1>4, <1>5
<1>7. ASSUME print'[p].alone, Prints(p), call[p].phase \in {"send", "wait"},
             Len(done[p]) \in {1, 2}, Alive(p)'
      PROVE  Alive(p) /\ gcode'[socket[p].dev] = gcode[socket[p].dev]
  <2>1. Alive(p) /\ socket[p] # Closed
    BY <1>1, <1>7 DEF Alive
  <2>2. "start" \notin Range(done[p])
    BY <1>7, PrintDone
  <2>3. socket[p].dev # d
    BY <1>4, <1>5, <1>7, <2>2
  <2>4. socket[p].dev \in Dev
    BY <2>1 DEF Linked
  <2> QED BY <1>3, <2>1, <2>3, <2>4 DEF Typed, ServerTypes
<1> QED BY <1>1, <1>6, <1>7, <1>2, StillPrinting

LEMMA StartServerKeeps ==
  ASSUME Typed, NEW d \in Dev, StartServer(d), NEW p \in Process, Linked(p), Alive(p)'
  PROVE  Alive(p) /\ gcode' = gcode
<1>1. /\ server' = [server EXCEPT ![d] = starts[d] + 1] /\ UNCHANGED <<socket, gcode>>
  BY DEF StartServer, procVars
<1>2. /\ socket[p] # Closed /\ socket[p].dev \in Dev
      /\ socket[p].server \in 1..starts[socket[p].dev]
      /\ server'[socket[p].dev] = socket[p].server
  BY <1>1 DEF Linked, Alive
<1>3. starts[d] \in Nat
  BY BoundAssumption DEF Typed, ServerTypes
<1>4. socket[p].dev # d
  BY <1>1, <1>2, <1>3 DEF Typed, ServerTypes
<1> QED BY <1>1, <1>2, <1>4 DEF Alive, Typed, ServerTypes

LEMMA StopServerKeeps ==
  ASSUME Typed, NEW d \in Dev, StopServer(d), NEW p \in Process, Linked(p), Alive(p)'
  PROVE  Alive(p) /\ gcode'[socket[p].dev] = gcode[socket[p].dev]
<1>1. /\ server' = [server EXCEPT ![d] = 0] /\ gcode' = [gcode EXCEPT ![d] = <<>>]
      /\ UNCHANGED socket
  BY DEF StopServer, procVars
<1>2. /\ socket[p] # Closed /\ socket[p].dev \in Dev
      /\ socket[p].server \in 1..starts[socket[p].dev]
      /\ server'[socket[p].dev] = socket[p].server
  BY <1>1 DEF Linked, Alive
<1>3. socket[p].dev # d
  BY <1>1, <1>2 DEF Typed, ServerTypes
<1> QED BY <1>1, <1>2, <1>3 DEF Alive, Typed, ServerTypes

LEMMA OwnText ==
  ASSUME Typed, NEW p \in Process, NEW e \in Entry, e.from = p, e.conn = calls[p],
         Prints(p), e.junk => call[p].action = "stdin"
  PROVE  /\ <<TextOf(e)>> \in Found(p)
         /\ call[p].action = "file" => <<>> \in Found(p)
<1>1. TextOf(e) = Own(p, e.junk) /\ e.junk \in BOOLEAN
  BY DEF TextOf, Own, Entry
<1> DEFINE t == <<TextOf(e)>>  fine == <<Own(p, FALSE)>>  none == <<>>
<1>2. Found(p) = CASE call[p].action = "code"  -> {fine}
                   [] call[p].action = "file"  -> {none, fine}
                   [] call[p].action = "stdin" -> {<<Own(p, j)>> : j \in BOOLEAN}
                   [] OTHER -> {}
  BY DEF Found
<1>3. ~e.junk => t = fine
  BY <1>1
<1>4. t \in {<<Own(p, j)>> : j \in BOOLEAN}
  BY <1>1
<1> HIDE DEF t, fine, none
<1>5. CASE call[p].action = "stdin"
  BY <1>2, <1>4, <1>5 DEF t
<1>6. CASE call[p].action # "stdin"
  BY <1>2, <1>3, <1>6 DEF t, none, Prints
<1> QED BY <1>5, <1>6

(* A request of a print is run while its process waits for it. *)
LEMMA OwnServedPrinting ==
  ASSUME Typed, Typed', NEW d \in Dev, NEW e \in Entry, NEW answer \in -3..0,
         NEW after \in Seq(Text), Served(d, e, answer, after), NEW p \in Process,
         Linked(p), Answered(p), Printing(p), e.from = p, Live(e)
  PROVE  Printing(p)'
<1> SUFFICES ASSUME Prints(p)' PROVE Printing(p)'
  BY DEF Printing
<1>1. /\ call'[p] = call[p] /\ socket'[p] = socket[p] /\ calls'[p] = calls[p]
      /\ UNCHANGED <<server, starts>> /\ NoNewRequests(p)
      /\ e \in queue[d]
  BY ServedRest
<1>2. gcode'[d] = after /\ print'[p] = PrintNote(p, d, e)
  BY DEF Served, Typed, ServerTypes
<1>3. Found(p)' = Found(p) /\ Prints(p)
  BY <1>1, FoundSame
<1>4. replies'[p] = Append(replies[p], answer) /\ done'[p] = DoneWith(done[p], e.req, answer)
  BY ServedOwn
<1>5. /\ e \in MineOf(p) /\ d = socket[p].dev /\ Alive(p)
      /\ call[p].phase \in {"send", "wait"}
      /\ Clean(call[p].results) => call[p].phase = "wait"
  BY <1>1, OwnRequest
<1>6. Handled(d, e, answer, after)
  BY DEF Served
<1> DEFINE k == Len(call[p].results)  script == ScriptOf(p)  dn == done[p]  r == replies[p]
           x == Middle(call[p].action)
<1>7. script = <<"clear", x, "start">> /\ x = IF call[p].action = "file" THEN "file" ELSE "append"
  BY <1>3, PrintScript DEF Middle
<1>8. Clean(call[p].results)
  BY <1>3, <1>5, PrintDone
<1>9. Waiting(k, script, dn, r, MineOf(p)) /\ call[p].phase = "wait"
  BY <1>5, <1>8 DEF Answered
<1>10. /\ k \in Nat /\ k + 1 \in 1..Len(script) /\ script \in Seq(Req) /\ dn \in Seq(Req)
      /\ gcode[d] \in Seq(Text)
  BY <1>5, NextRequest DEF Typed, ProcessTypes, ServerTypes
<1>11. r = <<>> /\ Progressed(dn, script, k) /\ e.number = k + 1 /\ e.req = script[k + 1]
  <2> HIDE DEF k, script, dn, r
  <2> QED BY <1>5, <1>9, <1>10, RequestRun
<1>12. \A f \in MineOf(p)' : f.junk => call[p].action = "stdin"
  <2>1. MineOf(p)' \subseteq MineOf(p)
    BY <1>1, MineShrinks DEF Typed
  <2> QED BY <1>3, <1>5, <2>1 DEF Printing
<1>13. NoFailure(replies'[p]) => answer = 0
  BY <1>4, <1>11 DEF NoFailure
<1>14. /\ print[p].alone => PrintSoFar(p, Len(dn))
       /\ dn = <<>> => ~print[p].alone
  BY <1>3, <1>5, <1>11 DEF Printing, NoFailure
<1>15. Len(dn) = k /\ print[p] \in Note /\ (dn = <<>> => k = 0)
  BY <1>11 DEF Progressed, Typed, ProcessTypes
<1>16. answer = 0 => Len(done'[p]) = k + 1 /\ done'[p] # <<>>
  BY <1>4, <1>10, <1>15 DEF DoneWith
<1>17. answer # 0 => done'[p] = dn
  BY <1>4 DEF DoneWith
<1>18. PICK n \in {0, 1, 2} : n = k
  <2>1. Len(script) = 3
    <3> HIDE DEF script, x
    <3> QED BY <1>7
  <2> HIDE DEF k, script
  <2> QED BY <1>10, <2>1
<1> HIDE DEF k, script, dn, r, x
<1>19. SUFFICES /\ print'[p].alone /\ answer = 0 => PrintSoFar(p, n + 1)'
                /\ answer # 0 /\ dn = <<>> => ~print'[p].alone
  <2>1. answer = 0 => Len(done'[p]) = n + 1
    BY <1>16, <1>18
  <2>2. call'[p].phase = "wait" /\ call'[p].action = call[p].action
    BY <1>1, <1>9
  <2>3. NoFailure(replies'[p]) /\ print'[p].alone => PrintSoFar(p, Len(done[p]))'
    BY <1>13, <1>19, <2>1
  <2>4. done'[p] = <<>> => ~print'[p].alone
    BY <1>16, <1>17, <1>19
  <2> QED BY <1>12, <2>2, <2>3, <2>4 DEF Printing
<1>20. CASE n = 0
  <2>1. e.req = "clear" /\ answer = 0 /\ after = <<>>
    BY <1>6, <1>7, <1>11, <1>18, <1>20 DEF Handled
  <2>2. print'[p] = [alone |-> TRUE, found |-> <<>>]
    BY <1>2, <2>1, <1>11, <1>18, <1>20 DEF PrintNote
  <2> QED BY <1>1, <1>5, <1>18, <1>20, <1>2, <2>1, <2>2 DEF PrintSoFar
<1>21. CASE n = 1
  <2>1. e.req = x /\ e.number = 2
    BY <1>7, <1>11, <1>18, <1>21
  <2>2. print'[p] = print[p]
    BY <1>2, <1>7, <2>1 DEF PrintNote
  <2>3. ASSUME print[p].alone, answer = 0 PROVE after \in Found(p)
    <3>1. gcode[d] = <<>>
      BY <1>5, <1>14, <1>15, <1>18, <1>21, <2>3 DEF PrintSoFar
    <3>2. Append(gcode[d], TextOf(e)) = <<TextOf(e)>>
      BY <3>1
    <3>3. e.conn = calls[p]
      BY <1>3, <1>5 DEF Linked, Prints, MineOf
    <3>4. e.junk => call[p].action = "stdin"
      BY <1>3, <1>5 DEF Printing
    <3>5. <<TextOf(e)>> \in Found(p) /\ (call[p].action = "file" => <<>> \in Found(p))
      BY <1>3, <3>3, <3>4, OwnText
    <3>6. CASE e.req = "append"
      <4>1. after = Append(gcode[d], TextOf(e))
        BY <1>6, <2>3, <3>6 DEF Handled
      <4> QED BY <3>2, <3>5, <4>1
    <3>7. CASE e.req = "file"
      <4>1. after \in {gcode[d], Append(gcode[d], TextOf(e))}
        BY <1>6, <2>3, <3>7 DEF Handled
      <4>2. call[p].action = "file"
        BY <1>7, <2>1, <3>7
      <4> QED BY <3>1, <3>2, <3>5, <4>1, <4>2
    <3> QED BY <1>7, <2>1, <3>6, <3>7
  <2>4. dn # <<>>
    BY <1>15, <1>18, <1>21 DEF dn
  <2>5. print'[p].alone /\ answer = 0 => gcode'[socket'[p].dev] \in Found(p)'
    BY <1>1, <1>3, <1>5, <1>2, <2>2, <2>3
  <2> QED BY <1>18, <1>21, <2>4, <2>5 DEF PrintSoFar
<1>22. CASE n = 2
  <2>1. e.req = "start" /\ e.number = 3
    BY <1>7, <1>11, <1>18, <1>22
  <2>2. print'[p] = [print[p] EXCEPT !.found = gcode[d]]
    BY <1>2, <2>1 DEF PrintNote
  <2>3. print'[p].alone = print[p].alone /\ print'[p].found = gcode[d]
    BY <1>15, <2>2 DEF Note
  <2>4. print[p].alone => gcode[d] \in Found(p)
    BY <1>5, <1>14, <1>15, <1>18, <1>22 DEF PrintSoFar
  <2>5. dn # <<>>
    BY <1>15, <1>18, <1>22 DEF dn
  <2> QED BY <1>3, <1>18, <1>22, <2>3, <2>4, <2>5 DEF PrintSoFar
<1> QED BY <1>20, <1>21, <1>22

-----------------------------------------------------------------------------
(* All together *)

Whole == Typed /\ \A p \in Process : Linked(p) /\ Answered(p) /\ Printing(p)

LEMMA WholeInit == Init => Whole
<1> SUFFICES ASSUME Init PROVE Whole
  OBVIOUS
<1> DEFINE none == <<>>  c == Ended(None, none, 1)
<1>1. Typed
  BY TypedInit
<1>2. c.phase = "idle" /\ c.exit = 1
  BY DEF Ended
<1>3. ASSUME NEW p \in Process PROVE Linked(p) /\ Answered(p) /\ Printing(p)
  <2>1. /\ call[p] = c /\ socket[p] = Closed /\ replies[p] = none
        /\ \A d \in Dev : server[d] = 0 /\ starts[d] = 0 /\ queue[d] = {}
    BY DEF Init
  <2>2. MineOf(p) = {}
    BY <2>1 DEF MineOf
  <2> HIDE DEF c
  <2> QED BY <1>2, <2>1, <2>2 DEF Linked, Answered, Printing
<1> QED BY <1>1, <1>3 DEF Whole

LEMMA NothingOld ==
  ASSUME NEW q \in Process, NEW p \in Process, p # q, OthersKept(q)
  PROVE  Keeps(p) /\ NoNewRequests(p) /\ UNCHANGED <<server, starts, gcode>>
BY DEF OthersKept, RequestsStay, NoNewRequests

(* A step that is none of p's business *)
LEMMA WholeOther ==
  ASSUME Whole, Typed', NEW p \in Process, Keeps(p), NoNewRequests(p),
         UNCHANGED <<server, starts, gcode>>
  PROVE  Linked(p)' /\ Answered(p)' /\ Printing(p)'
<1>1. Typed /\ Linked(p) /\ Answered(p) /\ Printing(p)
  BY DEF Whole
<1>2. /\ call'[p] = call[p] /\ socket'[p] = socket[p] /\ calls'[p] = calls[p]
      /\ replies'[p] = replies[p] /\ done'[p] = done[p] /\ print'[p] = print[p]
  BY DEF Keeps
<1>3. \A d \in Dev : starts[d] <= starts'[d] /\ server'[d] <= starts'[d]
  BY <1>1, BoundAssumption DEF Linked, Typed, ServerTypes
<1>4. Linked(p)'
  BY <1>1, <1>2, <1>3, StillLinked
<1>5. Answered(p)'
  BY <1>1, <1>2, StillAnswered
<1>6. Alive(p)' => Alive(p) /\ gcode'[socket[p].dev] = gcode[socket[p].dev]
  BY <1>2 DEF Alive
<1>7. Printing(p)'
  BY <1>1, <1>2, <1>6, StillPrinting
<1> QED BY <1>4, <1>5, <1>7

LEMMA WholeProcess ==
  ASSUME Whole, Typed', NEW q \in Process, ProcessStep(q)
  PROVE  Whole'
<1>1. OthersKept(q) /\ Moves(q)
  BY ProcessMoves DEF Whole, Typed
<1>2. ASSUME NEW p \in Process PROVE Linked(p)' /\ Answered(p)' /\ Printing(p)'
  <2>1. CASE p = q
    <3>1. Typed /\ Linked(q) /\ Answered(q) /\ Printing(q)
      BY DEF Whole
    <3>2. Linked(q)'
      BY <1>1, <3>1, LinkedMoves
    <3>3. Answered(q)'
      BY <1>1, <3>1, <3>2, AnsweredMoves
    <3>4. Printing(q)'
      BY <1>1, <3>1, <3>3, PrintingMoves
    <3> QED BY <2>1, <3>2, <3>3, <3>4
  <2>2. CASE p # q
    <3>1. Keeps(p) /\ NoNewRequests(p) /\ UNCHANGED <<server, starts, gcode>>
      BY <1>1, <2>2, NothingOld
    <3> QED BY <3>1, WholeOther
  <2> QED BY <2>1, <2>2
<1> QED BY <1>2 DEF Whole

LEMMA WholeServe ==
  ASSUME Whole, Typed', NEW d \in Dev, Serve(d)
  PROVE  Whole'
<1>0. Typed /\ ServerTypes
  BY DEF Whole, Typed
<1>1. PICK e \in Entry, answer \in -3..0, after \in Seq(Text) : Served(d, e, answer, after)
  BY <1>0, ServeEffect
<1>2. ASSUME NEW p \in Process PROVE Linked(p)' /\ Answered(p)' /\ Printing(p)'
  <2>0. Linked(p) /\ Answered(p) /\ Printing(p)
    BY DEF Whole
  <2>1. Linked(p)'
    BY <1>0, <1>1, <2>0, ServedLinked
  <2>2. Answered(p)'
    BY <1>0, <1>1, <2>0, ServedAnswered
  <2>3. Printing(p)'
    BY <1>0, <1>1, <2>0, OwnServedPrinting, OtherServedPrinting
  <2> QED BY <2>1, <2>2, <2>3
<1> QED BY <1>2 DEF Whole

(* A server that stops, or a new one, is not the one of any connection.    *)
LEMMA WholeServer ==
  ASSUME Whole, Typed', NEW d \in Dev, StartServer(d) \/ StopServer(d)
  PROVE  Whole'
<1>0. Typed /\ ServerTypes
  BY DEF Whole, Typed
<1>1. UNCHANGED <<call, socket, calls, replies, done, print>>
  BY DEF StartServer, StopServer, procVars, histories
<1>2. ASSUME NEW p \in Process PROVE Linked(p)' /\ Answered(p)' /\ Printing(p)'
  <2>0. Linked(p) /\ Answered(p) /\ Printing(p)
    BY DEF Whole
  <2>1. /\ call'[p] = call[p] /\ socket'[p] = socket[p] /\ calls'[p] = calls[p]
        /\ replies'[p] = replies[p] /\ done'[p] = done[p] /\ print'[p] = print[p]
    BY <1>1
  <2>2. NoNewRequests(p)
    BY <1>0 DEF StartServer, StopServer, NoNewRequests, ServerTypes
  <2>3. \A b \in Dev : starts[b] <= starts'[b] /\ server'[b] <= starts'[b]
    <3>1. \A b \in Dev : starts[b] \in Nat /\ server[b] \in Nat /\ server[b] <= starts[b]
      BY <1>0, <2>0, BoundAssumption DEF ServerTypes, Linked
    <3>2. CASE StartServer(d)
      BY <1>0, <3>1, <3>2 DEF StartServer, ServerTypes
    <3>3. CASE StopServer(d)
      BY <1>0, <3>1, <3>3 DEF StopServer, ServerTypes
    <3> QED BY <3>2, <3>3
  <2>4. Alive(p)' => Alive(p) /\ gcode'[socket[p].dev] = gcode[socket[p].dev]
    BY <1>0, <2>0, StartServerKeeps, StopServerKeeps
  <2>5. Linked(p)'
    BY <1>0, <2>0, <2>1, <2>2, <2>3, StillLinked
  <2>6. Answered(p)'
    BY <1>0, <2>0, <2>1, <2>2, StillAnswered
  <2>7. Printing(p)'
    BY <1>0, <2>0, <2>1, <2>2, <2>4, StillPrinting
  <2> QED BY <2>5, <2>6, <2>7
<1> QED BY <1>2 DEF Whole

LEMMA WholeNext == Whole /\ [Next]_vars => Whole'
<1> SUFFICES ASSUME Whole, [Next]_vars PROVE Whole'
  OBVIOUS
<1>1. Typed'
  BY TypedNext DEF Whole
<1>2. ASSUME NEW p \in Process, ProcessStep(p) PROVE Whole'
  BY <1>1, <1>2, WholeProcess
<1>3. CASE (\E p \in Process : Accept(p)) \/ UNCHANGED vars
  <2>1. /\ UNCHANGED <<call, socket, calls, replies, done, print>>
        /\ UNCHANGED <<server, starts, queue, gcode>>
    BY <1>3 DEF Accept, vars, procVars, serverVars, histories
  <2>2. ASSUME NEW p \in Process PROVE Linked(p)' /\ Answered(p)' /\ Printing(p)'
    <3>1. Keeps(p) /\ NoNewRequests(p) /\ UNCHANGED <<server, starts, gcode>>
      BY <2>1 DEF Keeps, NoNewRequests
    <3> QED BY <1>1, <3>1, WholeOther
  <2> QED BY <1>1, <2>2 DEF Whole
<1>4. ASSUME NEW d \in Dev, ServerStep(d) PROVE Whole'
  BY <1>1, <1>4, WholeServe, WholeServer DEF ServerStep
<1> QED BY <1>2, <1>3, <1>4 DEF Next

LEMMA WholeMeansDone == Whole => ZeroMeansDone
BY ProcessAssumption DEF Whole, Answered, ZeroMeansDone

LEMMA WholeOwnText == Whole => PrintsItsText
<1> SUFFICES ASSUME Whole, NEW p \in CmdLine,
                    call[p].phase = "idle", call[p].exit = 0, print[p].alone
             PROVE  CASE call[p].action = "code"  -> print[p].found = <<Own(p, FALSE)>>
                      [] call[p].action = "file"  -> print[p].found \in {<<>>, <<Own(p, FALSE)>>}
                      [] call[p].action = "stdin" -> print[p].found \in {<<Own(p, j)>> : j \in BOOLEAN}
                      [] OTHER -> TRUE
  BY DEF PrintsItsText
<1>1. p \in Process /\ p \notin Lua
  BY ProcessAssumption DEF Process
<1>2. Prints(p) => print[p].found \in Found(p)
  BY <1>1 DEF Whole, Printing
<1>3. CASE call[p].action = "code"
  BY <1>1, <1>2, <1>3 DEF Prints, Found
<1>4. CASE call[p].action = "file"
  BY <1>1, <1>2, <1>4 DEF Prints, Found
<1>5. CASE call[p].action = "stdin"
  BY <1>1, <1>2, <1>5 DEF Prints, Found
<1>6. CASE call[p].action \notin {"code", "file", "stdin"}
  BY <1>6
<1> QED BY <1>3, <1>4, <1>5, <1>6

(* Exit status 0, or true from a Lua function: each request of the call    *)
(* was run, once and in order, and answered by OK, and the command line    *)
(* client has said so.  This is for any number of users, programs,         *)
(* printers and calls, and with late answers, timeouts and servers that    *)
(* come and go.                                                            *)
THEOREM ZeroTellsTheTruth == Spec => []ZeroMeansDone
BY WholeInit, WholeNext, WholeMeansDone, PTL DEF Spec

(* A print that nobody else's request came into started the text that it   *)
(* was given and nothing else, if the client reports success.              *)
THEOREM OwnTextOnly == Spec => []PrintsItsText
BY WholeInit, WholeNext, WholeOwnText, PTL DEF Spec
=============================================================================
