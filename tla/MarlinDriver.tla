---------------------------- MODULE MarlinDriver ----------------------------
(***************************************************************************)
(* The Marlin driver (src/src/drivers/MarlinDriver.cpp on top of           *)
(* AbstractDriver.cpp) between the clients' commands and the printer.      *)
(*                                                                         *)
(* The server is one thread: a client's command and a call of update() run *)
(* one after the other, whole.  Concurrent with both is the printer, at    *)
(* the far end of two byte streams: tx carries the codes the driver sends, *)
(* rx the replies.  The driver keeps no record of what is in flight: any   *)
(* "ok" it reads while printing counts for the line at the head of its     *)
(* buffer.                                                                 *)
(*                                                                         *)
(* The buffer is the sequence of lines that GCodeBuffer.tla shows the      *)
(* GCodeBuffer class to be.  A line is the number it got when a client     *)
(* appended it: 1, 2, 3, ... since the start of the server.                *)
(*                                                                         *)
(* Definitions named Mut... are deliberate mistakes; no specification uses *)
(* them.  Each shows a bug that one of the properties would catch.         *)
(***************************************************************************)
EXTENDS Integers, Sequences

CONSTANTS
  QueryLines,  \* lines of gcode that the printer answers as it does M105
  Manners,     \* how clients may behave, see quiet
  PrinterBaud, \* the baud rate the printer listens at
  Bauds,       \* the rates the server may be started with
  MaxLines,    \* bound: lines appended in a behaviour
  MaxChunk,    \* bound: lines in one append or in the end code of a stop
  MaxInFlight, \* bound: codes and replies under way when a client causes more
  MaxResends,  \* bound: lines the printer refuses in a behaviour
  MaxResets    \* bound: resets of the printer in a behaviour

ASSUME BoundAssumption ==
  /\ MaxLines \in Nat /\ MaxChunk \in Nat /\ MaxInFlight \in Nat
  /\ MaxResends \in Nat /\ MaxResets \in Nat
ASSUME EnvironmentAssumption ==
  QueryLines \subseteq Nat /\ Manners \subseteq BOOLEAN /\ PrinterBaud \in Bauds

MaxAttempts == 3  \* maxCheckTemperatureAttempts_

VARIABLES
  drv,              \* state_, the buffer and its counters, and tx
  checkConnection,  \* checkConnection_: no temperature has been read yet
  attempt,          \* checkTemperatureAttempt_
  rx,               \* replies of the printer, not yet read
  exited,           \* the server has exited
  baudrate,         \* baudrate_, or the rate of the port if it could not be set
  quiet,            \* TRUE: the clients keep to the discipline of MayCommand
  (* histories and counters of the model *)
  appended,         \* lines appended since the start
  givenUp,          \* lines appended before the last clear or stop
  lastPrinted,      \* the line the printer executed last, 0 if none
  executions,       \* lines the printer executed, counted if clients are quiet
  refused,          \* the line the printer refused last, 0 if none
  resends, resets   \* what has been used of MaxResends, MaxResets

histories ==
  <<appended, givenUp, lastPrinted, executions, refused, resends, resets>>
vars == <<drv, checkConnection, attempt, rx, exited, baudrate, quiet, histories>>

-----------------------------------------------------------------------------
Offline  == {"disconnected", "connecting"}
Printing == {"printing", "stopping"}
State    == Offline \cup {"idle", "buffering"} \cup Printing

(* What the driver writes to the port: a buffered line, the temperature    *)
(* check M105, or heatup()'s M104.                                         *)
Code == [kind : {"line", "M105", "M104"}, line : Nat]
LineCode(n) == [kind |-> "line", line |-> n]
M105 == [kind |-> "M105", line |-> 0]
M104 == [kind |-> "M104", line |-> 0]

(* The replies readResponseCode() tells apart; "T" stands for "T:..." and  *)
(* "ok T:...", which it treats alike.                                      *)
Reply == {"T", "ok", "Resend", "start"}

Smaller(a, b) == IF a <= b THEN a ELSE b

-----------------------------------------------------------------------------
(* AbstractDriver's functions, as functions of the driver's state d *)

Online(d) == d.state \notin Offline  \* isPrinterOnline()

SetState(d, state) == [d EXCEPT !.state = state]

SendCode(d, code) == [d EXCEPT !.tx = Append(@, code)]

SetCurrentLine(d, n) == [d EXCEPT !.currentLine = Smaller(n, d.totalLinesSent)]

ResetPrint(d) ==
  IF Online(d) THEN SetCurrentLine(SetState(d, "idle"), 0) ELSE d

PrintNextLine(d) ==
  IF d.buffer # <<>>
  THEN SetCurrentLine(SendCode(d, LineCode(Head(d.buffer))), d.currentLine + 1)
  ELSE ResetPrint(d)

(* startPrint(STATE): AbstractDriver's part, and MarlinDriver's around it  *)
EnterPrint(d, state) ==
  SetState(IF d.state \in Printing THEN d ELSE ResetPrint(d), state)

MutStartPrint(d, state) == IF Online(d) THEN EnterPrint(d, state) ELSE d

MutStartPrintOffline(d, state) == PrintNextLine(EnterPrint(d, state))

StartPrint(d, state) ==
  IF Online(d) THEN PrintNextLine(EnterPrint(d, state)) ELSE d

(* gcodeBuffer_.clear() and append(), of a text that is not refused *)
ClearBuffer(d) ==
  [d EXCEPT !.buffer = <<>>, !.currentLine = 0, !.totalLinesSent = 0]

AppendBuffer(d, lines) ==
  [d EXCEPT !.buffer = @ \o lines, !.totalLinesSent = @ + Len(lines)]

AppendGCode(d, lines) ==
  IF d.state = "idle" THEN SetState(AppendBuffer(d, lines), "buffering")
  ELSE AppendBuffer(d, lines)

MutClearGCode(d) == ClearBuffer(d)

ClearGCode(d) ==
  IF d.state \in {"buffering"} \cup Printing THEN SetState(ClearBuffer(d), "idle")
  ELSE ClearBuffer(d)

SetGCode(d, lines) == AppendGCode(ClearBuffer(d), lines)

(* stopPrint(endcode).  A refused end code leaves the buffer empty, as     *)
(* does an empty one.                                                      *)
StopPrint(d, lines) == StartPrint(SetGCode(ResetPrint(d), lines), "stopping")

(* eraseLine(), of one line *)
EraseLine(d) == IF d.buffer = <<>> THEN d ELSE [d EXCEPT !.buffer = Tail(@)]

-----------------------------------------------------------------------------
(* readResponseCode(), for an "ok" and for a "Resend:" *)

MutReadOk(d) ==
  IF d.state \in Printing THEN PrintNextLine(EraseLine(d)) ELSE EraseLine(d)

MutReadOkKeeps(d) == IF d.state \in Printing THEN PrintNextLine(d) ELSE d

ReadOk(d) ==
  IF d.state \in Printing THEN PrintNextLine(EraseLine(d)) ELSE d

MutReadResend(d) == PrintNextLine(d)

MutReadResendNotes(d) == SetCurrentLine(d, d.currentLine - 1)

ReadResend(d) == PrintNextLine(SetCurrentLine(d, d.currentLine - 1))

-----------------------------------------------------------------------------
(* openConnection() has opened the port.  If it could also set the speed,  *)
(* the driver is connecting; otherwise it is still as constructed, and its *)
(* update() runs all the same.                                             *)
Init ==
  /\ \E state \in Offline :
       drv = [state |-> state, buffer |-> <<>>, currentLine |-> 0,
              totalLinesSent |-> 0, tx |-> <<>>]
  /\ checkConnection = TRUE
  /\ attempt = 0
  /\ rx = <<>>
  /\ exited = FALSE
  /\ baudrate \in Bauds
  /\ quiet \in Manners
  /\ appended = 0 /\ givenUp = 0 /\ lastPrinted = 0 /\ executions = 0
  /\ refused = 0
  /\ resends = 0 /\ resets = 0

(* A temperature is under way: a bound of the model lets the driver ask    *)
(* for another, and the printer report one, only when none is.             *)
TemperatureDue ==
  \/ \E i \in 1..Len(drv.tx) : drv.tx[i] = M105
  \/ \E i \in 1..Len(rx) : rx[i] = "T"

(* update(), part one: the temperature timer has run out. *)
MutCheckTemperature ==
  /\ ~exited
  /\ ~TemperatureDue
  /\ IF checkConnection /\ attempt <= MaxAttempts
     THEN attempt' = attempt + 1 /\ UNCHANGED drv
     ELSE drv' = SendCode(drv, M105) /\ UNCHANGED attempt
  /\ UNCHANGED <<checkConnection, rx, exited, baudrate, quiet, histories>>

MutCheckTemperatureWaits ==
  /\ ~exited
  /\ ~TemperatureDue
  /\ IF checkConnection
     THEN attempt' = Smaller(attempt + 1, MaxAttempts) /\ UNCHANGED drv
     ELSE drv' = SendCode(drv, M105) /\ UNCHANGED attempt
  /\ UNCHANGED <<checkConnection, rx, exited, baudrate, quiet, histories>>

CheckTemperature ==
  /\ ~exited
  /\ ~TemperatureDue
  /\ IF checkConnection /\ attempt < MaxAttempts
     THEN attempt' = attempt + 1 /\ UNCHANGED drv
     ELSE drv' = SendCode(drv, M105) /\ UNCHANGED attempt
  /\ UNCHANGED <<checkConnection, rx, exited, baudrate, quiet, histories>>

(* update(), part two: the next reply.  One update() reads the replies     *)
(* that have arrived, one by one; it may find one only, so a step per      *)
(* reply allows what the loop does.                                        *)
Replied(reply) ==
  /\ ~exited
  /\ rx # <<>>
  /\ Head(rx) = reply
  /\ rx' = Tail(rx)
  /\ UNCHANGED <<attempt, exited, baudrate, quiet, histories>>

ReceiveTemperature ==
  /\ Replied("T")
  /\ checkConnection' = FALSE
  /\ drv' = IF checkConnection THEN SetState(drv, "idle") ELSE drv

ReceiveOk     == Replied("ok") /\ drv' = ReadOk(drv) /\ UNCHANGED checkConnection
ReceiveResend == Replied("Resend") /\ drv' = ReadResend(drv) /\ UNCHANGED checkConnection
ReceiveStart  == Replied("start") /\ UNCHANGED <<drv, checkConnection>>

Receive == ReceiveTemperature \/ ReceiveOk \/ ReceiveResend \/ ReceiveStart

(* readData() finds the port closed or gone: the driver disconnects and    *)
(* the server exits.                                                       *)
PortLost ==
  /\ ~exited
  /\ exited' = TRUE
  /\ drv' = SetState(drv, "disconnected")
  /\ UNCHANGED <<checkConnection, attempt, rx, baudrate, quiet, histories>>

-----------------------------------------------------------------------------
(* The clients' commands, as CommandHandler calls the driver.              *)

(* The printer still has to answer a code, or the driver to read an answer *)
(* that would make it send a line.                                         *)
AwaitsAnswer(codes) == \E i \in 1..Len(codes) : codes[i].kind # "M105"
CausesLine(answers) == \E i \in 1..Len(answers) : answers[i] \in {"ok", "Resend"}

Owed == AwaitsAnswer(drv.tx) \/ CausesLine(rx)

(* Nothing in the code keeps a client from any command at any time.  With  *)
(* quiet, clients append at any time and otherwise wait until no answer is *)
(* owed, which they can not see but in an orderly use will be the case.    *)
MayCommand == ~exited /\ (quiet => ~Owed)

NewLines(k) == [i \in 1..k |-> appended + i]

InFlight == Len(drv.tx) + Len(rx)

CommandFrame == UNCHANGED <<checkConnection, attempt, rx, exited, baudrate, quiet>>

GCodeAppend(k) ==
  /\ ~exited
  /\ appended + k <= MaxLines
  /\ drv' = AppendGCode(drv, NewLines(k))
  /\ appended' = appended + k
  /\ CommandFrame
  /\ UNCHANGED <<givenUp, lastPrinted, executions, refused, resends, resets>>

GCodeClear ==
  /\ MayCommand
  /\ drv' = ClearGCode(drv)
  /\ givenUp' = appended
  /\ CommandFrame
  /\ UNCHANGED <<appended, lastPrinted, executions, refused, resends, resets>>

GCodeStartPrint ==
  /\ MayCommand
  /\ InFlight < MaxInFlight
  /\ drv' = StartPrint(drv, "printing")
  /\ CommandFrame
  /\ UNCHANGED <<appended, givenUp, lastPrinted, executions, refused, resends, resets>>

GCodeStopPrint(k) ==
  /\ MayCommand
  /\ InFlight < MaxInFlight
  /\ appended + k <= MaxLines
  /\ drv' = StopPrint(drv, NewLines(k))
  /\ appended' = appended + k
  /\ givenUp' = appended
  /\ CommandFrame
  /\ UNCHANGED <<lastPrinted, executions, refused, resends, resets>>

(* heatup().  A quiet client does not heat during a print. *)
Heatup ==
  /\ MayCommand
  /\ quiet => drv.state \notin Printing
  /\ InFlight < MaxInFlight
  /\ drv' = SendCode(drv, M104)
  /\ CommandFrame
  /\ UNCHANGED histories

Command ==
  \/ \E k \in 0..MaxChunk : GCodeAppend(k)
  \/ GCodeClear
  \/ GCodeStartPrint
  \/ \E k \in 0..MaxChunk : GCodeStopPrint(k)
  \/ Heatup

-----------------------------------------------------------------------------
(* The printer, as the driver knows it: it takes the codes in their order, *)
(* answers each, may refuse a line, may report while it heats and may be   *)
(* reset, which loses what it had not yet executed.  At another baud rate  *)
(* it understands nothing.                                                 *)
Understands == ~exited /\ baudrate = PrinterBaud

PrinterFrame ==
  UNCHANGED <<checkConnection, attempt, exited, baudrate, quiet, appended, givenUp>>

PrinterAccepts ==
  /\ Understands
  /\ drv.tx # <<>>
  /\ LET code == Head(drv.tx)
     IN  /\ rx' = Append(rx, IF code.kind = "M105" \/ code.line \in QueryLines
                             THEN "T" ELSE "ok")
         /\ lastPrinted' = IF code.kind = "line" THEN code.line ELSE lastPrinted
         /\ executions' = executions + IF quiet /\ code.kind = "line" THEN 1 ELSE 0
  /\ drv' = [drv EXCEPT !.tx = Tail(@)]
  /\ PrinterFrame
  /\ UNCHANGED <<refused, resends, resets>>

PrinterRefuses ==
  /\ Understands
  /\ drv.tx # <<>>
  /\ Head(drv.tx).kind = "line"
  /\ resends < MaxResends
  /\ resends' = resends + 1
  /\ refused' = Head(drv.tx).line
  /\ rx' = Append(rx, "Resend")
  /\ drv' = [drv EXCEPT !.tx = Tail(@)]
  /\ PrinterFrame
  /\ UNCHANGED <<lastPrinted, executions, resets>>

(* A report while heating *)
PrinterHeats ==
  /\ Understands
  /\ ~TemperatureDue
  /\ rx' = Append(rx, "T")
  /\ PrinterFrame
  /\ UNCHANGED <<drv, lastPrinted, executions, refused, resends, resets>>

PrinterResets ==
  /\ Understands
  /\ resets < MaxResets
  /\ resets' = resets + 1
  /\ rx' = Append(rx, "start")
  /\ drv' = [drv EXCEPT !.tx = <<>>]
  /\ PrinterFrame
  /\ UNCHANGED <<lastPrinted, executions, refused, resends>>

PrinterAnswers == PrinterAccepts \/ PrinterRefuses

Printer == PrinterAnswers \/ PrinterHeats \/ PrinterResets

-----------------------------------------------------------------------------
Next == CheckTemperature \/ Receive \/ PortLost \/ Command \/ Printer

Spec == Init /\ [][Next]_vars

(* The server's loop calls update() at least every UPDATE_INTERVAL, and    *)
(* the temperature timer runs out again and again; the printer answers     *)
(* what it has been sent.  Clients and accidents are under no obligation.  *)
Fairness ==
  /\ WF_vars(CheckTemperature)
  /\ WF_vars(Receive)
  /\ WF_vars(PrinterAnswers)

FairSpec == Spec /\ Fairness
-----------------------------------------------------------------------------
(* Properties *)

Driver == [state : State, buffer : Seq(Nat), currentLine : Int,
           totalLinesSent : Nat, tx : Seq(Code)]

TypeOK ==
  /\ drv \in Driver
  /\ checkConnection \in BOOLEAN
  /\ attempt \in 0..MaxAttempts
  /\ rx \in Seq(Reply)
  /\ exited \in BOOLEAN
  /\ baudrate \in Bauds /\ quiet \in BOOLEAN
  /\ appended \in Nat /\ givenUp \in Nat /\ lastPrinted \in Nat
  /\ executions \in Nat /\ refused \in Nat
  /\ resends \in 0..MaxResends /\ resets \in 0..MaxResets

(* The two members that tell whether a printer is there agree as long as   *)
(* the server runs: a temperature ends both CONNECTING and the check.      *)
OnlineWhenChecked == ~exited => (checkConnection <=> ~Online(drv))

(* A print that is under way has a line to print; resetPrint() has ended   *)
(* it by the time printNextLine() finds none.  This is what makes the      *)
(* states shown to the user mean something, after any sequence of commands *)
(* and replies.                                                            *)
PrintingHasLine == drv.state \in Printing => drv.buffer # <<>>

(* The print goes on only when a reply arrives.  So, unless a printer has  *)
(* been reset or answers a line as it does M105, a print always has a      *)
(* reply coming to it.                                                     *)
NoStall == (drv.state \in Printing /\ resets = 0) => Owed

(* Without refused lines and resets the printer never goes back to an      *)
(* earlier line and misses none but those that a clear or a stop took      *)
(* away, whatever extra codes and acknowledgements the clients' commands   *)
(* cause.  A line may be executed again: a second start during a print     *)
(* sends the head of the buffer a second time.                             *)
LinesInOrder ==
  [][ (resends' = 0 /\ resets' = 0) =>
        /\ lastPrinted' >= lastPrinted
        /\ lastPrinted' > lastPrinted + 1 => lastPrinted' <= givenUp + 1 ]_vars

(* Every print ends, if the printer is not reset. *)
PrintEnds == drv.state \in Printing ~> (drv.state \notin Printing \/ resets > 0)

(* A printer at the server's baud rate is found, whatever the clients send *)
(* before it is, and whether or not the speed could be set.                *)
PrinterFound == baudrate = PrinterBaud ~> (Online(drv) \/ exited)

(* With quiet clients getCurrentLine() advances with the lines: by one for *)
(* every line that leaves the buffer, by none for a refused one.           *)
ProgressFollows ==
  [][ (quiet /\ drv.state \in Printing /\ drv'.state \in Printing /\ resets' = 0) =>
        drv'.currentLine - drv.currentLine =
          (drv'.totalLinesSent - Len(drv'.buffer))
            - (drv.totalLinesSent - Len(drv.buffer)) ]_vars

(* With quiet clients the driver is a print job: every line the printer    *)
(* executes is the next of those it has not executed, so none is executed  *)
(* twice, and none is left out but by clear or stop, also if lines are     *)
(* refused and the printer is reset.  A reset may lose the line on its way *)
(* and end the print there; the line stays the next to be executed.  A     *)
(* line executed stays at the head of the buffer until its                 *)
(* acknowledgement is read.  Of other clients this says nothing.           *)
Unprinted == IF drv.buffer # <<>> /\ Head(drv.buffer) = lastPrinted
             THEN Tail(drv.buffer) ELSE drv.buffer

Job == INSTANCE PrintJob WITH
         todo     <- IF quiet THEN Unprinted ELSE <<>>,
         received <- IF quiet THEN appended ELSE 0,
         done     <- IF quiet THEN lastPrinted ELSE 0,
         printed  <- IF quiet THEN executions ELSE 0

PrintsAsJob == Job!Spec

-----------------------------------------------------------------------------
(* What the documentation and the comments say, and the code does not do   *)

(* docs/drivers.md, printing mode: "When a Resend is received the same     *)
(* line is send again."  The line resent is the one that was refused.      *)
RefusedLineIsSentAgain ==
  [][ (Replied("Resend") /\ drv.state \in Printing /\ refused > givenUp)
        => drv'.tx # <<>> /\ drv'.tx[Len(drv'.tx)] = LineCode(refused) ]_vars
=============================================================================
