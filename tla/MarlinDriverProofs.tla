------------------------- MODULE MarlinDriverProofs -------------------------
(***************************************************************************)
(* Proofs about MarlinDriver, for all values of the bounds and whatever    *)
(* the clients, the printer and the port do.                               *)
(***************************************************************************)
EXTENDS MarlinDriver, SequenceTheorems, TLAPS

(* The driver's functions, one by one: the type of the result, and what    *)
(* they do to the fields that the invariants are about.                    *)
LEMMA SetStateFacts ==
  ASSUME NEW d \in Driver, NEW state \in State
  PROVE  LET e == SetState(d, state)
         IN  /\ e \in Driver /\ e.state = state /\ e.buffer = d.buffer /\ e.tx = d.tx
             /\ e.currentLine = d.currentLine /\ e.totalLinesSent = d.totalLinesSent
BY DEF SetState, Driver

LEMMA SendCodeFacts ==
  ASSUME NEW d \in Driver, NEW code \in Code
  PROVE  LET e == SendCode(d, code)
         IN  /\ e \in Driver /\ e.state = d.state /\ e.buffer = d.buffer
             /\ e.tx = Append(d.tx, code) /\ e.currentLine = d.currentLine
             /\ e.totalLinesSent = d.totalLinesSent
<1> DEFINE tx == Append(d.tx, code)
<1>1. tx \in Seq(Code)
  BY DEF Driver
<1>2. SendCode(d, code) = [d EXCEPT !.tx = tx]
  BY DEF SendCode
<1> HIDE DEF tx
<1>3. /\ SendCode(d, code) \in Driver
      /\ SendCode(d, code).tx = tx
      /\ SendCode(d, code).state = d.state
      /\ SendCode(d, code).buffer = d.buffer
      /\ SendCode(d, code).currentLine = d.currentLine
      /\ SendCode(d, code).totalLinesSent = d.totalLinesSent
  BY <1>1, <1>2 DEF Driver
<1> QED
  BY <1>3 DEF tx

LEMMA SetCurrentLineFacts ==
  ASSUME NEW d \in Driver, NEW n \in Int
  PROVE  LET e == SetCurrentLine(d, n)
         IN  /\ e \in Driver /\ e.state = d.state /\ e.buffer = d.buffer /\ e.tx = d.tx
             /\ e.totalLinesSent = d.totalLinesSent
             /\ e.currentLine = Smaller(n, d.totalLinesSent)
<1> DEFINE line == Smaller(n, d.totalLinesSent)
<1>1. line \in Int
  BY DEF Smaller, Driver
<1>2. SetCurrentLine(d, n) = [d EXCEPT !.currentLine = line]
  BY DEF SetCurrentLine
<1> HIDE DEF line
<1>3. LET e == SetCurrentLine(d, n)
      IN  /\ e \in Driver /\ e.state = d.state /\ e.buffer = d.buffer /\ e.tx = d.tx
          /\ e.totalLinesSent = d.totalLinesSent /\ e.currentLine = line
  BY <1>1, <1>2 DEF Driver
<1> QED
  BY <1>3 DEF line

LEMMA ClearBufferFacts ==
  ASSUME NEW d \in Driver
  PROVE  LET e == ClearBuffer(d)
         IN  /\ e \in Driver /\ e.state = d.state /\ e.buffer = <<>> /\ e.tx = d.tx
             /\ e.currentLine = 0 /\ e.totalLinesSent = 0
<1> DEFINE none == <<>>
<1>1. none \in Seq(Nat)
  OBVIOUS
<1>2. ClearBuffer(d) = [d EXCEPT !.buffer = none, !.currentLine = 0, !.totalLinesSent = 0]
  BY DEF ClearBuffer
<1> HIDE DEF none
<1>3. ClearBuffer(d) = [state |-> d.state, buffer |-> none, currentLine |-> 0,
                        totalLinesSent |-> 0, tx |-> d.tx]
  BY <1>2 DEF Driver
<1> QED
  BY <1>1, <1>3 DEF Driver, none

LEMMA AppendBufferFacts ==
  ASSUME NEW d \in Driver, NEW lines \in Seq(Nat)
  PROVE  LET e == AppendBuffer(d, lines)
         IN  /\ e \in Driver /\ e.state = d.state /\ e.buffer = d.buffer \o lines
             /\ e.tx = d.tx /\ e.currentLine = d.currentLine
             /\ e.totalLinesSent = d.totalLinesSent + Len(lines)
<1> DEFINE buffer == d.buffer \o lines
           total == d.totalLinesSent + Len(lines)
<1>1. buffer \in Seq(Nat) /\ total \in Nat
  BY DEF Driver
<1> HIDE DEF buffer, total
<1>2. AppendBuffer(d, lines) = [d EXCEPT !.buffer = buffer, !.totalLinesSent = total]
  BY DEF AppendBuffer, buffer, total
<1>3. AppendBuffer(d, lines) =
        [state |-> d.state, buffer |-> buffer, currentLine |-> d.currentLine,
         totalLinesSent |-> total, tx |-> d.tx]
  BY <1>2 DEF Driver
<1>4. LET e == AppendBuffer(d, lines)
      IN  /\ e \in Driver /\ e.state = d.state /\ e.buffer = buffer /\ e.tx = d.tx
          /\ e.currentLine = d.currentLine /\ e.totalLinesSent = total
  BY <1>1, <1>3 DEF Driver
<1> QED
  BY <1>4 DEF buffer, total

LEMMA EraseLineFacts ==
  ASSUME NEW d \in Driver
  PROVE  LET e == EraseLine(d)
         IN  /\ e \in Driver /\ e.state = d.state /\ e.tx = d.tx
             /\ d.buffer # <<>> => e.buffer = Tail(d.buffer)
             /\ e.currentLine = d.currentLine /\ e.totalLinesSent = d.totalLinesSent
<1>1. CASE d.buffer = <<>>
  BY <1>1 DEF EraseLine
<1>2. CASE d.buffer # <<>>
  <2> DEFINE rest == Tail(d.buffer)
  <2>1. rest \in Seq(Nat)
    BY <1>2 DEF Driver
  <2>2. EraseLine(d) = [d EXCEPT !.buffer = rest]
    BY <1>2 DEF EraseLine
  <2> HIDE DEF rest
  <2>3. LET e == EraseLine(d)
        IN  /\ e \in Driver /\ e.state = d.state /\ e.tx = d.tx /\ e.buffer = rest
            /\ e.currentLine = d.currentLine /\ e.totalLinesSent = d.totalLinesSent
    BY <2>1, <2>2 DEF Driver
  <2> QED
    BY <2>3 DEF rest
<1> QED
  BY <1>1, <1>2

(* AbstractDriver's larger functions.  printNextLine() sends a line or     *)
(* leaves the print: if the driver is printing after it, the buffer holds  *)
(* the line and the printer has it to answer.                              *)
UnderWay(d) == d.state \in Printing => d.buffer # <<>> /\ AwaitsAnswer(d.tx)

LEMMA StatesDiffer ==
  /\ Printing \subseteq State
  /\ "idle" \in State \ Printing /\ "buffering" \in State \ Printing
  /\ "disconnected" \in State \ Printing
  /\ \A s \in State : s \in Offline => s \notin Printing
  /\ "idle" \notin Offline /\ "buffering" \notin Offline /\ "disconnected" \in Offline
BY DEF State, Printing, Offline

LEMMA AppendAwaits ==
  ASSUME NEW codes \in Seq(Code), NEW code \in Code,
         AwaitsAnswer(codes) \/ code.kind # "M105"
  PROVE  AwaitsAnswer(Append(codes, code))
<1> DEFINE longer == Append(codes, code)
<1>1. /\ Len(longer) = Len(codes) + 1 /\ Len(codes) \in Nat
      /\ \A i \in 1..Len(codes) : longer[i] = codes[i]
      /\ longer[Len(codes) + 1] = code
  OBVIOUS
<1> HIDE DEF longer
<1>2. CASE AwaitsAnswer(codes)
  <2>1. PICK i \in 1..Len(codes) : codes[i].kind # "M105"
    BY <1>2 DEF AwaitsAnswer
  <2>2. i \in 1..Len(longer) /\ longer[i].kind # "M105"
    BY <1>1, <2>1
  <2> QED
    BY <2>2 DEF AwaitsAnswer, longer
<1>3. CASE code.kind # "M105"
  <2>1. Len(codes) + 1 \in 1..Len(longer) /\ longer[Len(codes) + 1].kind # "M105"
    BY <1>1, <1>3
  <2> QED
    BY <2>1 DEF AwaitsAnswer, longer
<1> QED
  BY <1>2, <1>3

LEMMA ResetPrintFacts ==
  ASSUME NEW d \in Driver
  PROVE  LET e == ResetPrint(d)
         IN  /\ e \in Driver /\ e.buffer = d.buffer /\ e.tx = d.tx
             /\ e.state \notin Printing
             /\ Online(e) <=> Online(d)
<1>1. CASE Online(d)
  <2> DEFINE idle == SetState(d, "idle")
  <2>1. "idle" \in State
    BY StatesDiffer
  <2>2. /\ idle \in Driver /\ idle.state = "idle"
        /\ idle.buffer = d.buffer /\ idle.tx = d.tx
    BY <2>1, SetStateFacts
  <2>3. ResetPrint(d) = SetCurrentLine(idle, 0)
    BY <1>1 DEF ResetPrint
  <2> HIDE DEF idle
  <2>4. /\ ResetPrint(d) \in Driver /\ ResetPrint(d).state = "idle"
        /\ ResetPrint(d).buffer = d.buffer /\ ResetPrint(d).tx = d.tx
    BY <2>2, <2>3, SetCurrentLineFacts
  <2> QED
    BY <1>1, <2>4, StatesDiffer DEF Online
<1>2. CASE ~Online(d)
  BY <1>2, StatesDiffer DEF ResetPrint, Online, Driver
<1> QED
  BY <1>1, <1>2

LEMMA PrintNextLineFacts ==
  ASSUME NEW d \in Driver
  PROVE  LET e == PrintNextLine(d)
         IN  /\ e \in Driver /\ UnderWay(e) /\ (Online(e) <=> Online(d))
             /\ AwaitsAnswer(d.tx) => AwaitsAnswer(e.tx)
<1>1. CASE d.buffer # <<>>
  <2> DEFINE code == LineCode(Head(d.buffer))
             sent == SendCode(d, code)
  <2>1. code \in Code /\ code.kind # "M105"
    BY <1>1 DEF Driver, LineCode, Code
  <2> HIDE DEF code
  <2>2. /\ sent \in Driver /\ sent.state = d.state /\ sent.buffer = d.buffer
        /\ sent.tx = Append(d.tx, code)
    BY <2>1, SendCodeFacts
  <2>3. AwaitsAnswer(sent.tx)
    BY <2>1, <2>2, AppendAwaits DEF Driver
  <2> DEFINE line == d.currentLine + 1
             next == SetCurrentLine(sent, line)
  <2>4. line \in Int
    BY DEF Driver
  <2>5. PrintNextLine(d) = next
    BY <1>1 DEF PrintNextLine, code
  <2> HIDE DEF sent, line
  <2>6. /\ next \in Driver /\ next.state = sent.state
        /\ next.buffer = sent.buffer /\ next.tx = sent.tx
    BY ONLY <2>2, <2>4, SetCurrentLineFacts
  <2> HIDE DEF next
  <2>7. /\ PrintNextLine(d) \in Driver /\ PrintNextLine(d).state = d.state
        /\ PrintNextLine(d).buffer = d.buffer /\ PrintNextLine(d).tx = sent.tx
    BY <2>2, <2>5, <2>6
  <2> QED
    BY <1>1, <2>3, <2>7 DEF UnderWay, Online
<1>2. CASE d.buffer = <<>>
  BY <1>2, ResetPrintFacts DEF PrintNextLine, UnderWay
<1> QED
  BY <1>1, <1>2

LEMMA StartPrintFacts ==
  ASSUME NEW d \in Driver, NEW state \in Printing
  PROVE  LET e == StartPrint(d, state)
         IN  e \in Driver /\ UnderWay(e) /\ (Online(e) <=> Online(d))
<1>1. CASE Online(d)
  <2> DEFINE before == IF d.state \in Printing THEN d ELSE ResetPrint(d)
  <2>1. before \in Driver /\ Online(before)
    BY <1>1, ResetPrintFacts
  <2>2. EnterPrint(d, state) = SetState(before, state)
    BY DEF EnterPrint
  <2> HIDE DEF before
  <2> state \in State
    BY StatesDiffer
  <2>3. EnterPrint(d, state) \in Driver /\ EnterPrint(d, state).state = state
    BY <2>1, <2>2, SetStateFacts
  <2>4. Online(EnterPrint(d, state))
    BY <2>3, StatesDiffer DEF Online
  <2> QED
    BY <1>1, <2>3, <2>4, PrintNextLineFacts DEF StartPrint
<1>2. CASE ~Online(d)
  BY <1>2, StatesDiffer DEF StartPrint, UnderWay, Online, Driver
<1> QED
  BY <1>1, <1>2

(* The buffer's lines are lost or gained, but never the line of a print    *)
(* that goes on.                                                           *)
LEMMA AppendGCodeFacts ==
  ASSUME NEW d \in Driver, NEW lines \in Seq(Nat)
  PROVE  LET e == AppendGCode(d, lines)
         IN  /\ e \in Driver /\ (Online(e) <=> Online(d)) /\ e.tx = d.tx
             /\ e.state \in Printing => d.state \in Printing
             /\ d.buffer # <<>> => e.buffer # <<>>
<1> DEFINE longer == AppendBuffer(d, lines)
<1>1. /\ longer \in Driver /\ longer.state = d.state
      /\ longer.buffer = d.buffer \o lines /\ longer.tx = d.tx
  BY AppendBufferFacts
<1>2. d.buffer # <<>> => longer.buffer # <<>>
  <2>1. d.buffer \in Seq(Nat)
    BY DEF Driver
  <2> QED
    BY <1>1, <2>1
<1>3. AppendGCode(d, lines) = IF d.state = "idle" THEN SetState(longer, "buffering") ELSE longer
  BY DEF AppendGCode
<1> HIDE DEF longer
<1>4. CASE d.state = "idle"
  <2> DEFINE e == SetState(longer, "buffering")
  <2>1. "buffering" \in State
    BY StatesDiffer
  <2>2. e \in Driver /\ e.state = "buffering" /\ e.buffer = longer.buffer /\ e.tx = longer.tx
    BY <1>1, <2>1, SetStateFacts
  <2>3. AppendGCode(d, lines) = e
    BY <1>3, <1>4
  <2> HIDE DEF e
  <2>4. e.state \notin Printing /\ Online(e) /\ Online(d)
    BY <1>4, <2>2, StatesDiffer DEF Online
  <2> QED
    BY <1>1, <1>2, <2>2, <2>3, <2>4
<1>5. CASE d.state # "idle"
  BY <1>1, <1>2, <1>3, <1>5 DEF Online
<1> QED
  BY <1>4, <1>5

LEMMA ClearGCodeFacts ==
  ASSUME NEW d \in Driver
  PROVE  LET e == ClearGCode(d)
         IN  e \in Driver /\ (Online(e) <=> Online(d)) /\ e.state \notin Printing
<1> DEFINE cleared == ClearBuffer(d)
<1>1. cleared \in Driver /\ cleared.state = d.state
  BY ClearBufferFacts
<1>2. ClearGCode(d) =
        IF d.state \in {"buffering"} \cup Printing THEN SetState(cleared, "idle") ELSE cleared
  BY DEF ClearGCode
<1> HIDE DEF cleared
<1>3. CASE d.state \in {"buffering"} \cup Printing
  <2> DEFINE e == SetState(cleared, "idle")
  <2>1. "idle" \in State
    BY StatesDiffer
  <2>2. e \in Driver /\ e.state = "idle"
    BY <1>1, <2>1, SetStateFacts
  <2>3. ClearGCode(d) = e
    BY <1>2, <1>3
  <2> HIDE DEF e
  <2>4. e.state \notin Printing /\ Online(e)
    BY <2>2, StatesDiffer DEF Online
  <2>5. Online(d)
    BY <1>3, StatesDiffer DEF Online
  <2> QED
    BY <2>2, <2>3, <2>4, <2>5
<1>4. CASE d.state \notin {"buffering"} \cup Printing
  BY <1>1, <1>2, <1>4 DEF Online
<1> QED
  BY <1>3, <1>4

LEMMA StopPrintFacts ==
  ASSUME NEW d \in Driver, NEW lines \in Seq(Nat)
  PROVE  LET e == StopPrint(d, lines)
         IN  e \in Driver /\ UnderWay(e) /\ (Online(e) <=> Online(d))
<1> DEFINE reset == ResetPrint(d)
           cleared == ClearBuffer(reset)
           set == AppendGCode(cleared, lines)
<1>1. reset \in Driver /\ (Online(reset) <=> Online(d))
  BY ResetPrintFacts
<1> HIDE DEF reset
<1>2. cleared \in Driver /\ (Online(cleared) <=> Online(reset))
  BY <1>1, ClearBufferFacts DEF Online
<1> HIDE DEF cleared
<1>3. set \in Driver /\ (Online(set) <=> Online(cleared))
  BY <1>2, AppendGCodeFacts
<1>4. StopPrint(d, lines) = StartPrint(set, "stopping")
  BY DEF StopPrint, SetGCode, set, cleared, reset
<1> HIDE DEF set
<1>5. "stopping" \in Printing
  BY DEF Printing
<1> QED
  BY <1>1, <1>2, <1>3, <1>4, <1>5, StartPrintFacts

LEMMA ReadOkFacts ==
  ASSUME NEW d \in Driver
  PROVE  LET e == ReadOk(d)
         IN  e \in Driver /\ UnderWay(e) /\ (Online(e) <=> Online(d))
<1> DEFINE erased == EraseLine(d)
<1>1. erased \in Driver /\ (Online(erased) <=> Online(d))
  BY EraseLineFacts DEF Online
<1>2. ReadOk(d) = IF d.state \in Printing THEN PrintNextLine(erased) ELSE d
  BY DEF ReadOk
<1> HIDE DEF erased
<1>3. CASE d.state \in Printing
  BY <1>1, <1>2, <1>3, PrintNextLineFacts
<1>4. CASE d.state \notin Printing
  BY <1>2, <1>4 DEF UnderWay
<1> QED
  BY <1>3, <1>4

LEMMA ReadResendFacts ==
  ASSUME NEW d \in Driver
  PROVE  LET e == ReadResend(d)
         IN  e \in Driver /\ UnderWay(e) /\ (Online(e) <=> Online(d))
<1> DEFINE back == SetCurrentLine(d, d.currentLine - 1)
<1>1. d.currentLine - 1 \in Int
  BY DEF Driver
<1>2. back \in Driver /\ (Online(back) <=> Online(d))
  BY <1>1, SetCurrentLineFacts DEF Online
<1>3. ReadResend(d) = PrintNextLine(back)
  BY DEF ReadResend
<1> HIDE DEF back
<1> QED
  BY <1>2, <1>3, PrintNextLineFacts

LEMMA NewLinesType ==
  ASSUME appended \in Nat, NEW k \in Nat
  PROVE  NewLines(k) \in Seq(Nat)
BY DEF NewLines

(* The codes and the replies on their way. *)
LEMMA TailAwaits ==
  ASSUME NEW codes \in Seq(Code), codes # <<>>,
         AwaitsAnswer(codes), Head(codes).kind = "M105"
  PROVE  AwaitsAnswer(Tail(codes))
<1> DEFINE rest == Tail(codes)
<1>1. /\ Len(codes) \in Nat /\ Len(codes) # 0 /\ Head(codes) = codes[1]
      /\ Len(rest) = Len(codes) - 1
      /\ \A i \in 1..Len(rest) : rest[i] = codes[i + 1]
  OBVIOUS
<1>2. PICK i \in 1..Len(codes) : codes[i].kind # "M105"
  BY DEF AwaitsAnswer
<1> HIDE DEF rest
<1>3. i # 1
  BY <1>1, <1>2
<1>4. i - 1 \in 1..Len(rest) /\ rest[i - 1].kind # "M105"
  BY <1>1, <1>2, <1>3
<1> QED
  BY <1>4 DEF AwaitsAnswer, rest

LEMMA TailCauses ==
  ASSUME NEW answers \in Seq(Reply), answers # <<>>,
         CausesLine(answers), Head(answers) \notin {"ok", "Resend"}
  PROVE  CausesLine(Tail(answers))
<1> DEFINE rest == Tail(answers)
<1>1. /\ Len(answers) \in Nat /\ Len(answers) # 0 /\ Head(answers) = answers[1]
      /\ Len(rest) = Len(answers) - 1
      /\ \A i \in 1..Len(rest) : rest[i] = answers[i + 1]
  OBVIOUS
<1>2. PICK i \in 1..Len(answers) : answers[i] \in {"ok", "Resend"}
  BY DEF CausesLine
<1> HIDE DEF rest
<1>3. i # 1
  BY <1>1, <1>2
<1>4. i - 1 \in 1..Len(rest) /\ rest[i - 1] \in {"ok", "Resend"}
  BY <1>1, <1>2, <1>3
<1> QED
  BY <1>4 DEF CausesLine, rest

LEMMA AppendCauses ==
  ASSUME NEW answers \in Seq(Reply), NEW reply \in Reply,
         CausesLine(answers) \/ reply \in {"ok", "Resend"}
  PROVE  CausesLine(Append(answers, reply))
<1> DEFINE longer == Append(answers, reply)
<1>1. /\ Len(longer) = Len(answers) + 1 /\ Len(answers) \in Nat
      /\ \A i \in 1..Len(answers) : longer[i] = answers[i]
      /\ longer[Len(answers) + 1] = reply
  OBVIOUS
<1> HIDE DEF longer
<1>2. CASE CausesLine(answers)
  <2>1. PICK i \in 1..Len(answers) : answers[i] \in {"ok", "Resend"}
    BY <1>2 DEF CausesLine
  <2>2. i \in 1..Len(longer) /\ longer[i] \in {"ok", "Resend"}
    BY <1>1, <2>1
  <2> QED
    BY <2>2 DEF CausesLine, longer
<1>3. CASE reply \in {"ok", "Resend"}
  <2>1. Len(answers) + 1 \in 1..Len(longer) /\ longer[Len(answers) + 1] \in {"ok", "Resend"}
    BY <1>1, <1>3
  <2> QED
    BY <2>1 DEF CausesLine, longer
<1> QED
  BY <1>2, <1>3

-----------------------------------------------------------------------------
(* The inductive invariant.  PrintingHasLine is not inductive without the  *)
(* types; the rest is here because the three need the same steps.          *)
Inductive == TypeOK /\ OnlineWhenChecked /\ PrintingHasLine

LEMMA InductiveInit == Init => Inductive
<1> SUFFICES ASSUME Init PROVE Inductive
  OBVIOUS
<1> DEFINE none == <<>>
<1>1. none \in Seq(Nat) /\ none \in Seq(Code) /\ none \in Seq(Reply)
  OBVIOUS
<1>2. PICK state \in Offline :
        drv = [state |-> state, buffer |-> none, currentLine |-> 0,
               totalLinesSent |-> 0, tx |-> none]
  BY DEF Init
<1>3. /\ rx = none /\ checkConnection = TRUE /\ attempt = 0 /\ exited = FALSE
      /\ baudrate \in Bauds /\ quiet \in Manners /\ appended = 0 /\ givenUp = 0 /\ lastPrinted = 0
      /\ executions = 0 /\ refused = 0 /\ resends = 0 /\ resets = 0
  BY DEF Init
<1> HIDE DEF none
<1>4. state \in State /\ state \notin Printing
  BY StatesDiffer, <1>2 DEF State
<1>5. drv \in Driver
  BY <1>1, <1>2, <1>4 DEF Driver
<1>6. TypeOK
  <2>1. checkConnection \in BOOLEAN /\ exited \in BOOLEAN
    BY <1>3
  <2>2. attempt \in 0..MaxAttempts /\ resends \in 0..MaxResends /\ resets \in 0..MaxResets
    BY <1>3, BoundAssumption DEF MaxAttempts
  <2>3. /\ baudrate \in Bauds /\ quiet \in BOOLEAN /\ appended \in Nat /\ givenUp \in Nat
        /\ lastPrinted \in Nat /\ executions \in Nat /\ refused \in Nat
    BY <1>3, EnvironmentAssumption
  <2>4. rx \in Seq(Reply)
    BY <1>1, <1>3
  <2> QED
    BY <1>5, <2>1, <2>2, <2>3, <2>4 DEF TypeOK
<1>7. OnlineWhenChecked
  BY <1>2, <1>3 DEF OnlineWhenChecked, Online
<1>8. PrintingHasLine
  BY <1>2, <1>4 DEF PrintingHasLine
<1> QED
  BY <1>6, <1>7, <1>8 DEF Inductive

(* What a step that leaves the connection alone has to show about drv.     *)
LEMMA SameConnection ==
  ASSUME Inductive, drv' \in Driver, Online(drv') <=> Online(drv),
         UNCHANGED <<checkConnection, exited>>
  PROVE  OnlineWhenChecked'
BY DEF Inductive, OnlineWhenChecked

LEMMA CodesAreCodes == M105 \in Code /\ M104 \in Code /\ M104.kind # "M105"
BY DEF M105, M104, Code

LEMMA CommandStep ==
  ASSUME Inductive, Command
  PROVE  Inductive'
<1> USE DEF Inductive, CommandFrame
<1>1. ASSUME NEW k \in 0..MaxChunk, GCodeAppend(k)
      PROVE  Inductive'
  <2> k \in Nat
    BY BoundAssumption
  <2>1. NewLines(k) \in Seq(Nat)
    BY NewLinesType DEF TypeOK
  <2>2. drv \in Driver /\ drv' = AppendGCode(drv, NewLines(k))
    BY <1>1 DEF GCodeAppend, TypeOK
  <2>3. /\ drv' \in Driver /\ (Online(drv') <=> Online(drv))
        /\ drv'.state \in Printing => drv.state \in Printing
        /\ drv.buffer # <<>> => drv'.buffer # <<>>
    BY <2>1, <2>2, AppendGCodeFacts
  <2>4. TypeOK'
    BY <1>1, <2>3 DEF GCodeAppend, TypeOK
  <2>5. OnlineWhenChecked'
    BY <1>1, <2>3, SameConnection DEF GCodeAppend
  <2>6. PrintingHasLine'
    BY <2>3 DEF PrintingHasLine
  <2> QED
    BY <2>4, <2>5, <2>6
<1>2. CASE GCodeClear
  <2>1. drv' \in Driver /\ (Online(drv') <=> Online(drv)) /\ drv'.state \notin Printing
    BY <1>2, ClearGCodeFacts DEF GCodeClear, TypeOK
  <2>2. TypeOK'
    BY <1>2, <2>1 DEF GCodeClear, TypeOK
  <2>3. OnlineWhenChecked'
    BY <1>2, <2>1, SameConnection DEF GCodeClear
  <2>4. PrintingHasLine'
    BY <2>1 DEF PrintingHasLine
  <2> QED
    BY <2>2, <2>3, <2>4
<1>3. CASE GCodeStartPrint
  <2>0. "printing" \in Printing
    BY DEF Printing
  <2>1. drv' \in Driver /\ (Online(drv') <=> Online(drv)) /\ UnderWay(drv')
    BY <1>3, <2>0, StartPrintFacts DEF GCodeStartPrint, TypeOK
  <2>2. TypeOK'
    BY <1>3, <2>1 DEF GCodeStartPrint, TypeOK
  <2>3. OnlineWhenChecked'
    BY <1>3, <2>1, SameConnection DEF GCodeStartPrint
  <2>4. PrintingHasLine'
    BY <2>1 DEF PrintingHasLine, UnderWay
  <2> QED
    BY <2>2, <2>3, <2>4
<1>4. ASSUME NEW k \in 0..MaxChunk, GCodeStopPrint(k)
      PROVE  Inductive'
  <2> k \in Nat
    BY BoundAssumption
  <2>1. NewLines(k) \in Seq(Nat)
    BY NewLinesType DEF TypeOK
  <2>2. drv \in Driver /\ drv' = StopPrint(drv, NewLines(k))
    BY <1>4 DEF GCodeStopPrint, TypeOK
  <2>3. drv' \in Driver /\ (Online(drv') <=> Online(drv)) /\ UnderWay(drv')
    BY <2>1, <2>2, StopPrintFacts
  <2>4. TypeOK'
    BY <1>4, <2>3 DEF GCodeStopPrint, TypeOK
  <2>5. OnlineWhenChecked'
    BY <1>4, <2>3, SameConnection DEF GCodeStopPrint
  <2>6. PrintingHasLine'
    BY <2>3 DEF PrintingHasLine, UnderWay
  <2> QED
    BY <2>4, <2>5, <2>6
<1>5. CASE Heatup
  <2>1. /\ drv' \in Driver /\ drv'.state = drv.state /\ drv'.buffer = drv.buffer
    BY <1>5, SendCodeFacts, CodesAreCodes DEF Heatup, TypeOK
  <2>2. TypeOK'
    BY <1>5, <2>1 DEF Heatup, TypeOK, histories
  <2>3. OnlineWhenChecked'
    BY <1>5, <2>1, SameConnection DEF Heatup, Online
  <2>4. PrintingHasLine'
    BY <2>1 DEF PrintingHasLine
  <2> QED
    BY <2>2, <2>3, <2>4
<1> QED
  BY <1>1, <1>2, <1>3, <1>4, <1>5 DEF Command

(* A step of update(): the timer, a reply, or the loss of the port. *)
LEMMA UpdateStep ==
  ASSUME Inductive, CheckTemperature \/ Receive \/ PortLost
  PROVE  Inductive'
<1> USE DEF Inductive
<1> drv \in Driver
  BY DEF TypeOK
<1>1. CASE CheckTemperature
  <2>1. /\ drv' \in Driver /\ drv'.state = drv.state /\ drv'.buffer = drv.buffer
        /\ attempt' \in 0..MaxAttempts
    <3>1. CASE checkConnection /\ attempt < MaxAttempts
      BY <1>1, <3>1 DEF CheckTemperature, TypeOK, MaxAttempts
    <3>2. CASE ~(checkConnection /\ attempt < MaxAttempts)
      <4>1. drv' = SendCode(drv, M105) /\ attempt' = attempt
        BY <1>1, <3>2 DEF CheckTemperature
      <4> QED
        BY <4>1, SendCodeFacts, CodesAreCodes DEF TypeOK
    <3> QED
      BY <3>1, <3>2
  <2>2. TypeOK'
    <3>1. UNCHANGED <<checkConnection, rx, exited, baudrate, quiet, appended, givenUp,
                      lastPrinted, executions, refused, resends, resets>>
      BY <1>1 DEF CheckTemperature, histories
    <3>2. /\ checkConnection' \in BOOLEAN /\ rx' \in Seq(Reply)
          /\ exited' \in BOOLEAN /\ baudrate' \in Bauds /\ quiet' \in BOOLEAN
      BY <3>1 DEF TypeOK
    <3>3. /\ appended' \in Nat /\ givenUp' \in Nat
          /\ lastPrinted' \in Nat /\ executions' \in Nat /\ refused' \in Nat
          /\ resends' \in 0..MaxResends /\ resets' \in 0..MaxResets
      BY <3>1 DEF TypeOK
    <3> QED
      BY ONLY <2>1, <3>2, <3>3 DEF TypeOK
  <2>3. OnlineWhenChecked'
    BY <1>1, <2>1, SameConnection DEF CheckTemperature, Online
  <2>4. PrintingHasLine'
    BY <2>1 DEF PrintingHasLine
  <2> QED
    BY <2>2, <2>3, <2>4
<1>2. CASE Receive
  <2>1. rx' \in Seq(Reply) /\ UNCHANGED <<attempt, exited, baudrate, quiet, histories>>
    <3>1. /\ rx # <<>> /\ rx' = Tail(rx)
          /\ UNCHANGED <<attempt, exited, baudrate, quiet, histories>>
      BY <1>2 DEF Receive, ReceiveTemperature, ReceiveOk, ReceiveResend, ReceiveStart,
                  Replied
    <3>2. rx' \in Seq(Reply)
      BY <3>1 DEF TypeOK
    <3> QED
      BY <3>1, <3>2
  <2>2. CASE ReceiveTemperature
    <3>1. /\ drv' \in Driver /\ Online(drv')
          /\ drv'.state \in Printing => drv'.buffer # <<>>
      <4>1. CASE checkConnection
        <5>1. "idle" \in State /\ "idle" \notin Printing /\ "idle" \notin Offline
          BY StatesDiffer
        <5>2. drv' \in Driver /\ drv'.state = "idle"
          BY <2>2, <4>1, <5>1, SetStateFacts DEF ReceiveTemperature
        <5> QED
          BY <5>1, <5>2 DEF Online
      <4>2. CASE ~checkConnection
        <5>1. drv' = drv /\ ~exited
          BY <2>2, <4>2 DEF ReceiveTemperature, Replied
        <5> QED
          BY <4>2, <5>1 DEF OnlineWhenChecked, PrintingHasLine
      <4> QED
        BY <4>1, <4>2
    <3>2. checkConnection' = FALSE
      BY <2>2 DEF ReceiveTemperature
    <3> QED
      BY <2>1, <3>1, <3>2 DEF TypeOK, OnlineWhenChecked, PrintingHasLine, histories
  <2>3. CASE ~ReceiveTemperature
    <3>1. /\ drv' \in Driver /\ (Online(drv') <=> Online(drv))
          /\ drv'.state \in Printing => drv'.buffer # <<>>
          /\ checkConnection' = checkConnection
      <4>1. CASE ReceiveOk
        BY <4>1, ReadOkFacts DEF ReceiveOk, UnderWay
      <4>2. CASE ReceiveResend
        BY <4>2, ReadResendFacts DEF ReceiveResend, UnderWay
      <4>3. CASE ReceiveStart
        BY <4>3 DEF ReceiveStart, PrintingHasLine
      <4> QED
        BY <1>2, <2>3, <4>1, <4>2, <4>3 DEF Receive
    <3>2. OnlineWhenChecked'
      BY <2>1, <3>1, SameConnection
    <3> QED
      BY <2>1, <3>1, <3>2 DEF TypeOK, PrintingHasLine, histories
  <2> QED
    BY <2>2, <2>3
<1>3. CASE PortLost
  <2>1. "disconnected" \in State /\ "disconnected" \notin Printing
    BY StatesDiffer
  <2>2. drv' \in Driver /\ drv'.state = "disconnected" /\ exited' = TRUE
    BY <1>3, <2>1, SetStateFacts DEF PortLost
  <2>3. TypeOK'
    BY <1>3, <2>2 DEF PortLost, TypeOK, histories
  <2> QED
    BY <2>1, <2>2, <2>3 DEF OnlineWhenChecked, PrintingHasLine
<1> QED
  BY <1>1, <1>2, <1>3

(* The printer takes codes off the stream and adds replies. *)
LEMMA TakesFacts ==
  ASSUME NEW d \in Driver, NEW codes \in Seq(Code)
  PROVE  LET e == [d EXCEPT !.tx = codes]
         IN  e \in Driver /\ e.state = d.state /\ e.buffer = d.buffer /\ e.tx = codes
BY DEF Driver

LEMMA PrinterDrv ==
  ASSUME TypeOK, Printer
  PROVE  drv' \in Driver /\ drv'.state = drv.state /\ drv'.buffer = drv.buffer
<1> drv \in Driver
  BY DEF TypeOK
<1>1. CASE PrinterAnswers
  <2>1. drv.tx # <<>> /\ drv' = [drv EXCEPT !.tx = Tail(@)]
    BY <1>1 DEF PrinterAnswers, PrinterAccepts, PrinterRefuses
  <2>2. Tail(drv.tx) \in Seq(Code)
    BY <2>1 DEF Driver
  <2> QED
    BY <2>1, <2>2, TakesFacts
<1>2. CASE PrinterHeats
  BY <1>2 DEF PrinterHeats
<1>3. CASE PrinterResets
  <2> DEFINE none == <<>>
  <2>1. none \in Seq(Code)
    OBVIOUS
  <2>2. drv' = [drv EXCEPT !.tx = none]
    BY <1>3 DEF PrinterResets
  <2> HIDE DEF none
  <2> QED
    BY <2>1, <2>2, TakesFacts
<1> QED
  BY <1>1, <1>2, <1>3 DEF Printer

LEMMA PrinterStep ==
  ASSUME Inductive, Printer
  PROVE  Inductive'
<1> USE DEF Inductive
<1>1. drv' \in Driver /\ drv'.state = drv.state /\ drv'.buffer = drv.buffer
  BY PrinterDrv
<1>2. PrinterFrame
  BY DEF Printer, PrinterAnswers, PrinterAccepts, PrinterRefuses, PrinterHeats, PrinterResets
<1>3. rx \in Seq(Reply) /\ \A reply \in Reply : Append(rx, reply) \in Seq(Reply)
  BY DEF TypeOK
<1>4. rx' \in Seq(Reply)
  <2>1. CASE PrinterAccepts
    <3>1. PICK reply \in {"T", "ok"} : rx' = Append(rx, reply)
      BY <2>1 DEF PrinterAccepts
    <3> QED
      BY <1>3, <3>1 DEF Reply
  <2>2. CASE PrinterRefuses
    BY <1>3, <2>2 DEF PrinterRefuses, Reply
  <2>3. CASE PrinterHeats
    BY <1>3, <2>3 DEF PrinterHeats, Reply
  <2>4. CASE PrinterResets
    BY <1>3, <2>4 DEF PrinterResets, Reply
  <2> QED
    BY <2>1, <2>2, <2>3, <2>4 DEF Printer, PrinterAnswers
<1>5. /\ lastPrinted' \in Nat /\ executions' \in Nat /\ refused' \in Nat
      /\ resends' \in 0..MaxResends /\ resets' \in 0..MaxResets
  <2>1. drv.tx # <<>> => Head(drv.tx).line \in Nat
    <3>1. drv.tx # <<>> => Head(drv.tx) \in Code
      BY DEF TypeOK, Driver
    <3> QED
      BY <3>1 DEF Code
  <2>2. CASE PrinterAccepts
    <3>1. drv.tx # <<>> /\ UNCHANGED <<refused, resends, resets>>
      BY <2>2 DEF PrinterAccepts
    <3>2. lastPrinted' = Head(drv.tx).line \/ lastPrinted' = lastPrinted
      BY <2>2 DEF PrinterAccepts
    <3>3. executions' = executions + 1 \/ executions' = executions + 0
      BY <2>2 DEF PrinterAccepts
    <3>4. lastPrinted' \in Nat
      BY <2>1, <3>1, <3>2 DEF TypeOK
    <3>5. executions' \in Nat
      BY <3>3 DEF TypeOK
    <3> QED
      BY <3>1, <3>4, <3>5 DEF TypeOK
  <2>3. CASE PrinterRefuses
    <3>1. /\ refused' = Head(drv.tx).line /\ drv.tx # <<>>
          /\ lastPrinted' = lastPrinted /\ executions' = executions /\ resets' = resets
      BY <2>3 DEF PrinterRefuses
    <3>2. /\ refused' \in Nat /\ lastPrinted' \in Nat /\ executions' \in Nat
          /\ resets' \in 0..MaxResets
      BY <2>1, <3>1 DEF TypeOK
    <3>3. resends < MaxResends /\ resends' = resends + 1
      BY <2>3 DEF PrinterRefuses
    <3>4. resends' \in 0..MaxResends
      BY <3>3, BoundAssumption DEF TypeOK
    <3> QED
      BY <3>2, <3>4
  <2>4. CASE PrinterHeats
    BY <2>4 DEF PrinterHeats, TypeOK
  <2>5. CASE PrinterResets
    <3>1. /\ UNCHANGED <<lastPrinted, executions, refused, resends>>
          /\ resets < MaxResets /\ resets' = resets + 1
      BY <2>5 DEF PrinterResets
    <3>2. resets' \in 0..MaxResets
      BY <3>1, BoundAssumption DEF TypeOK
    <3> QED
      BY <3>1, <3>2 DEF TypeOK
  <2> QED
    BY <2>2, <2>3, <2>4, <2>5 DEF Printer, PrinterAnswers
<1>6. TypeOK'
  BY <1>1, <1>2, <1>4, <1>5 DEF PrinterFrame, TypeOK
<1>7. OnlineWhenChecked'
  BY <1>1, <1>2, SameConnection DEF PrinterFrame, Online
<1>8. PrintingHasLine'
  BY <1>1 DEF PrintingHasLine
<1> QED
  BY <1>6, <1>7, <1>8

LEMMA InductiveStep == Inductive /\ [Next]_vars => Inductive'
<1> SUFFICES ASSUME Inductive, [Next]_vars PROVE Inductive'
  OBVIOUS
<1>1. CASE CheckTemperature \/ Receive \/ PortLost
  BY <1>1, UpdateStep
<1>2. CASE Command
  BY <1>2, CommandStep
<1>3. CASE Printer
  BY <1>3, PrinterStep
<1>4. CASE UNCHANGED vars
  BY <1>4 DEF vars, histories, Inductive, TypeOK, OnlineWhenChecked, PrintingHasLine, Online
<1> QED
  BY <1>1, <1>2, <1>3, <1>4 DEF Next

(* The driver's members, the streams and the model's counters keep their   *)
(* types, whatever is called and whatever the printer answers.             *)
THEOREM TypeCorrect == Spec => []TypeOK
<1>1. Inductive => TypeOK
  BY DEF Inductive
<1> QED
  BY InductiveInit, InductiveStep, <1>1, PTL DEF Spec

(* PRINTING and STOPPING are only ever shown while the buffer holds a line *)
(* (startPrint(), stopPrint(), printNextLine(), clearGCode()).             *)
THEOREM PrintsALine == Spec => []PrintingHasLine
<1>1. Inductive => PrintingHasLine
  BY DEF Inductive
<1> QED
  BY InductiveInit, InductiveStep, <1>1, PTL DEF Spec

(* While the server runs, checkConnection_ and isPrinterOnline() tell the  *)
(* same of the printer.                                                    *)
THEOREM ChecksConnection == Spec => []OnlineWhenChecked
<1>1. Inductive => OnlineWhenChecked
  BY DEF Inductive
<1> QED
  BY InductiveInit, InductiveStep, <1>1, PTL DEF Spec

-----------------------------------------------------------------------------
(* A print always has a reply coming to it.  Each step that could take the *)
(* last one away makes the driver send the next line or ends the print.    *)

LEMMA NoStallInit == Init => NoStall
<1> SUFFICES ASSUME Init PROVE NoStall
  OBVIOUS
<1>1. drv.state \in Offline
  BY DEF Init
<1> QED
  BY <1>1 DEF NoStall, Offline, Printing

LEMMA UnderWayOwes ==
  ASSUME UnderWay(drv)'
  PROVE  NoStall'
BY DEF UnderWay, NoStall, Owed

(* A step that does not begin a print and leaves owed what was. *)
LEMMA StillOwed ==
  ASSUME NoStall, resets' = 0 => resets = 0,
         drv'.state \in Printing => drv.state \in Printing,
         resets' = 0 => (Owed => Owed')
  PROVE  NoStall'
BY DEF NoStall

LEMMA CommandOwes ==
  ASSUME TypeOK, NoStall, Command
  PROVE  NoStall'
<1> drv \in Driver
  BY DEF TypeOK
<1>1. ASSUME NEW k \in 0..MaxChunk, GCodeAppend(k)
      PROVE  NoStall'
  <2> k \in Nat
    BY BoundAssumption
  <2>1. NewLines(k) \in Seq(Nat)
    BY NewLinesType DEF TypeOK
  <2>2. drv' = AppendGCode(drv, NewLines(k)) /\ UNCHANGED <<rx, resets>>
    BY <1>1 DEF GCodeAppend, CommandFrame
  <2>3. drv'.tx = drv.tx /\ (drv'.state \in Printing => drv.state \in Printing)
    BY <2>1, <2>2, AppendGCodeFacts
  <2>4. Owed => Owed'
    BY <2>2, <2>3 DEF Owed
  <2> QED
    BY <2>2, <2>3, <2>4, StillOwed
<1>2. CASE GCodeClear
  BY <1>2, ClearGCodeFacts DEF GCodeClear, NoStall
<1>3. CASE GCodeStartPrint
  <2>1. "printing" \in Printing
    BY DEF Printing
  <2>2. UnderWay(drv')
    BY <1>3, <2>1, StartPrintFacts DEF GCodeStartPrint
  <2> QED
    BY <2>2, UnderWayOwes
<1>4. ASSUME NEW k \in 0..MaxChunk, GCodeStopPrint(k)
      PROVE  NoStall'
  <2> k \in Nat
    BY BoundAssumption
  <2>1. NewLines(k) \in Seq(Nat)
    BY NewLinesType DEF TypeOK
  <2>2. UnderWay(drv')
    BY <1>4, <2>1, StopPrintFacts DEF GCodeStopPrint
  <2> QED
    BY <2>2, UnderWayOwes
<1>5. CASE Heatup
  <2>1. drv' = SendCode(drv, M104) /\ UNCHANGED <<rx, resets>>
    BY <1>5 DEF Heatup, CommandFrame, histories
  <2>2. drv'.state = drv.state /\ drv'.tx = Append(drv.tx, M104)
    BY <2>1, SendCodeFacts, CodesAreCodes
  <2>3. AwaitsAnswer(drv'.tx)
    BY <2>2, AppendAwaits, CodesAreCodes DEF Driver
  <2> QED
    BY <2>1, <2>2, <2>3, StillOwed DEF Owed
<1> QED
  BY <1>1, <1>2, <1>3, <1>4, <1>5 DEF Command

LEMMA UpdateOwes ==
  ASSUME TypeOK, NoStall, CheckTemperature \/ Receive \/ PortLost
  PROVE  NoStall'
<1> drv \in Driver
  BY DEF TypeOK
<1>1. CASE CheckTemperature
  <2>1. UNCHANGED <<rx, resets>> /\ (drv' = drv \/ drv' = SendCode(drv, M105))
    BY <1>1 DEF CheckTemperature, histories
  <2>2. drv'.state = drv.state /\ (AwaitsAnswer(drv.tx) => AwaitsAnswer(drv'.tx))
    <3>1. CASE drv' = drv
      BY <3>1
    <3>2. CASE drv' = SendCode(drv, M105)
      <4>1. drv'.state = drv.state /\ drv'.tx = Append(drv.tx, M105)
        BY <3>2, SendCodeFacts, CodesAreCodes
      <4> QED
        BY <4>1, AppendAwaits, CodesAreCodes DEF Driver
    <3> QED
      BY <2>1, <3>1, <3>2
  <2> QED
    BY <2>1, <2>2, StillOwed DEF Owed
<1>2. CASE ReceiveOk
  BY <1>2, ReadOkFacts, UnderWayOwes DEF ReceiveOk
<1>3. CASE ReceiveResend
  BY <1>3, ReadResendFacts, UnderWayOwes DEF ReceiveResend
<1>4. CASE ReceiveTemperature \/ ReceiveStart
  <2>1. /\ rx # <<>> /\ Head(rx) \in {"T", "start"} /\ rx' = Tail(rx)
        /\ drv' \in {drv, SetState(drv, "idle")} /\ resets' = resets
    BY <1>4 DEF ReceiveTemperature, ReceiveStart, Replied, histories
  <2>2. drv'.tx = drv.tx /\ (drv'.state \in Printing => drv.state \in Printing)
    <3>1. "idle" \in State /\ "idle" \notin Printing
      BY StatesDiffer
    <3> QED
      BY <2>1, <3>1, SetStateFacts
  <2>3. CausesLine(rx) => CausesLine(rx')
    BY <2>1, TailCauses DEF TypeOK
  <2> QED
    BY <2>1, <2>2, <2>3, StillOwed DEF Owed
<1>5. CASE PortLost
  <2>1. "disconnected" \in State /\ "disconnected" \notin Printing
    BY StatesDiffer
  <2>2. drv'.state = "disconnected"
    BY <1>5, <2>1, SetStateFacts DEF PortLost
  <2> QED
    BY <2>1, <2>2 DEF NoStall
<1> QED
  BY <1>1, <1>2, <1>3, <1>4, <1>5 DEF Receive

LEMMA PrinterOwes ==
  ASSUME QueryLines = {}, TypeOK, NoStall, Printer
  PROVE  NoStall'
<1> drv \in Driver /\ rx \in Seq(Reply)
  BY DEF TypeOK
<1>1. drv'.state = drv.state
  BY PrinterDrv
<1>2. {"ok", "Resend", "T"} \subseteq Reply
  BY DEF Reply
<1>3. CASE PrinterAccepts
  <2>1. /\ drv.tx # <<>> /\ resets' = resets
        /\ rx' = Append(rx, IF Head(drv.tx).kind = "M105" THEN "T" ELSE "ok")
        /\ drv' = [drv EXCEPT !.tx = Tail(@)]
    BY <1>3 DEF PrinterAccepts
  <2>2. drv.tx \in Seq(Code) /\ Tail(drv.tx) \in Seq(Code)
    BY <2>1 DEF Driver
  <2>3. drv'.tx = Tail(drv.tx)
    BY <2>1, <2>2, TakesFacts
  <2>4. CASE Head(drv.tx).kind = "M105"
    <3>1. AwaitsAnswer(drv.tx) => AwaitsAnswer(drv'.tx)
      BY <2>1, <2>2, <2>3, <2>4, TailAwaits
    <3>2. CausesLine(rx) => CausesLine(rx')
      BY <1>2, <2>1, <2>4, AppendCauses
    <3> QED
      BY <1>1, <2>1, <3>1, <3>2, StillOwed DEF Owed
  <2>5. CASE Head(drv.tx).kind # "M105"
    <3>1. CausesLine(rx')
      BY <1>2, <2>1, <2>5, AppendCauses
    <3> QED
      BY <1>1, <2>1, <3>1, StillOwed DEF Owed
  <2> QED
    BY <2>4, <2>5
<1>4. CASE PrinterRefuses
  <2>1. CausesLine(rx') /\ resets' = resets
    BY <1>2, <1>4, AppendCauses DEF PrinterRefuses
  <2> QED
    BY <1>1, <2>1, StillOwed DEF Owed
<1>5. CASE PrinterHeats
  <2>1. drv' = drv /\ resets' = resets /\ rx' = Append(rx, "T")
    BY <1>5 DEF PrinterHeats
  <2>2. CausesLine(rx) => CausesLine(rx')
    BY <1>2, <2>1, AppendCauses
  <2> QED
    BY <2>1, <2>2, StillOwed DEF Owed
<1>6. CASE PrinterResets
  <2>1. resets \in Nat /\ resets' = resets + 1
    BY <1>6, BoundAssumption DEF PrinterResets, TypeOK
  <2> QED
    BY <2>1 DEF NoStall
<1> QED
  BY <1>3, <1>4, <1>5, <1>6 DEF Printer, PrinterAnswers

LEMMA NoStallStep ==
  ASSUME QueryLines = {}
  PROVE  Inductive /\ NoStall /\ [Next]_vars => NoStall'
<1> SUFFICES ASSUME TypeOK, NoStall, [Next]_vars PROVE NoStall'
  BY DEF Inductive
<1>1. CASE CheckTemperature \/ Receive \/ PortLost
  BY <1>1, UpdateOwes
<1>2. CASE Command
  BY <1>2, CommandOwes
<1>3. CASE Printer
  BY <1>3, PrinterOwes
<1>4. CASE UNCHANGED vars
  BY <1>4 DEF vars, histories, NoStall, Owed
<1> QED
  BY <1>1, <1>2, <1>3, <1>4 DEF Next

(* If the printer answers no line as it does a temperature check, a print  *)
(* is never left without an "ok" or a "Resend" to come, in                 *)
(* readResponseCode()'s terms, unless the printer was reset.               *)
THEOREM NeverStalls ==
  ASSUME QueryLines = {}
  PROVE  Spec => []NoStall
<1>1. Inductive /\ NoStall /\ [Next]_vars => NoStall'
  BY NoStallStep
<1> QED
  BY InductiveInit, NoStallInit, InductiveStep, <1>1, PTL DEF Spec

-----------------------------------------------------------------------------
(* The order of the lines.  For it the proofs need all that the driver's   *)
(* functions do to the buffer, to tx and to the counters.  A function that *)
(* begins a print or goes on with it sends the line at the head of the     *)
(* buffer, or leaves the print and sends nothing.                          *)
Sends(tx, d) ==
  \/ d.state \notin Printing /\ d.tx = tx
  \/ /\ d.state \in Printing /\ d.buffer # <<>>
     /\ d.tx = Append(tx, LineCode(Head(d.buffer)))

LEMMA ResetPrintEffect ==
  ASSUME NEW d \in Driver
  PROVE  LET e == ResetPrint(d)
         IN  /\ e.buffer = d.buffer /\ e.tx = d.tx /\ e.totalLinesSent = d.totalLinesSent
             /\ e.currentLine = IF Online(d) THEN 0 ELSE d.currentLine
<1>1. CASE Online(d)
  <2> DEFINE idle == SetState(d, "idle")
  <2>1. /\ idle \in Driver /\ idle.buffer = d.buffer /\ idle.tx = d.tx
        /\ idle.totalLinesSent = d.totalLinesSent
    BY StatesDiffer, SetStateFacts
  <2>2. ResetPrint(d) = SetCurrentLine(idle, 0)
    BY <1>1 DEF ResetPrint
  <2> HIDE DEF idle
  <2>3. LET e == ResetPrint(d)
        IN  /\ e.buffer = d.buffer /\ e.tx = d.tx /\ e.totalLinesSent = d.totalLinesSent
            /\ e.currentLine = Smaller(0, d.totalLinesSent)
    BY <2>1, <2>2, SetCurrentLineFacts
  <2>4. Smaller(0, d.totalLinesSent) = 0
    BY DEF Smaller, Driver
  <2> QED
    BY <1>1, <2>3, <2>4
<1>2. CASE ~Online(d)
  BY <1>2 DEF ResetPrint
<1> QED
  BY <1>1, <1>2

LEMMA PrintNextLineEffect ==
  ASSUME NEW d \in Driver
  PROVE  LET e == PrintNextLine(d)
         IN  /\ e.buffer = d.buffer /\ e.totalLinesSent = d.totalLinesSent
             /\ d.buffer # <<>> =>
                  /\ e.state = d.state
                  /\ e.tx = Append(d.tx, LineCode(Head(d.buffer)))
                  /\ e.currentLine = Smaller(d.currentLine + 1, d.totalLinesSent)
             /\ d.buffer = <<>> => e.state \notin Printing /\ e.tx = d.tx
<1>1. CASE d.buffer # <<>>
  <2> DEFINE code == LineCode(Head(d.buffer))
             sent == SendCode(d, code)
             line == d.currentLine + 1
  <2>1. code \in Code /\ line \in Int
    BY <1>1 DEF Driver, LineCode, Code
  <2>2. PrintNextLine(d) = SetCurrentLine(sent, line)
    BY <1>1 DEF PrintNextLine
  <2> HIDE DEF code, line
  <2>3. /\ sent \in Driver /\ sent.state = d.state /\ sent.buffer = d.buffer
        /\ sent.tx = Append(d.tx, code) /\ sent.totalLinesSent = d.totalLinesSent
    BY <2>1, SendCodeFacts
  <2> HIDE DEF sent
  <2> DEFINE next == SetCurrentLine(sent, line)
  <2>4. /\ next.buffer = sent.buffer /\ next.totalLinesSent = sent.totalLinesSent
        /\ next.state = sent.state /\ next.tx = sent.tx
        /\ next.currentLine = Smaller(line, sent.totalLinesSent)
    BY ONLY <2>1, <2>3, SetCurrentLineFacts
  <2>5. PrintNextLine(d) = next
    BY <2>2
  <2> HIDE DEF next
  <2> QED
    BY <1>1, <2>3, <2>4, <2>5 DEF code, line
<1>2. CASE d.buffer = <<>>
  BY <1>2, ResetPrintFacts, ResetPrintEffect DEF PrintNextLine
<1> QED
  BY <1>1, <1>2

LEMMA PrintNextLineSends ==
  ASSUME NEW d \in Driver, d.state \in Printing
  PROVE  Sends(d.tx, PrintNextLine(d))
<1> DEFINE e == PrintNextLine(d)
<1>1. /\ e.buffer = d.buffer
      /\ d.buffer # <<>> => e.state = d.state /\ e.tx = Append(d.tx, LineCode(Head(d.buffer)))
      /\ d.buffer = <<>> => e.state \notin Printing /\ e.tx = d.tx
  BY PrintNextLineEffect
<1> HIDE DEF e
<1>2. Sends(d.tx, e)
  BY <1>1 DEF Sends
<1> QED
  BY <1>2 DEF e

(* The line a print begins with counts as the first. *)
LEMMA StartPrintEffect ==
  ASSUME NEW d \in Driver, NEW state \in Printing
  PROVE  LET e == StartPrint(d, state)
         IN  /\ e.buffer = d.buffer /\ e.totalLinesSent = d.totalLinesSent
             /\ Sends(d.tx, e)
             /\ (e.state \in Printing /\ d.state \notin Printing) =>
                  e.currentLine = Smaller(1, d.totalLinesSent)
<1>1. CASE Online(d)
  <2> DEFINE before == IF d.state \in Printing THEN d ELSE ResetPrint(d)
             entered == SetState(before, state)
             line == before.currentLine + 1
  <2>1. /\ before \in Driver /\ before.buffer = d.buffer /\ before.tx = d.tx
        /\ before.totalLinesSent = d.totalLinesSent
        /\ d.state \notin Printing => before.currentLine = 0
    BY <1>1, ResetPrintFacts, ResetPrintEffect
  <2>2. StartPrint(d, state) = PrintNextLine(entered)
    BY <1>1 DEF StartPrint, EnterPrint
  <2>3. d.state \notin Printing => line = 1
    BY <2>1
  <2> HIDE DEF before
  <2> state \in State
    BY StatesDiffer
  <2>4. /\ entered \in Driver /\ entered.state = state /\ entered.buffer = d.buffer
        /\ entered.tx = d.tx /\ entered.totalLinesSent = d.totalLinesSent
        /\ entered.currentLine = before.currentLine
    BY ONLY <2>1, state \in State, SetStateFacts DEF entered
  <2> HIDE DEF entered
  <2> DEFINE e == PrintNextLine(entered)
  <2>5. /\ e.buffer = d.buffer /\ e.totalLinesSent = d.totalLinesSent
        /\ d.buffer # <<>> => e.currentLine = Smaller(line, d.totalLinesSent)
        /\ d.buffer = <<>> => e.state \notin Printing
    BY <2>4, PrintNextLineEffect
  <2>6. Sends(d.tx, e)
    BY <2>4, PrintNextLineSends
  <2> HIDE DEF e, line
  <2>7. (e.state \in Printing /\ d.state \notin Printing) =>
          e.currentLine = Smaller(1, d.totalLinesSent)
    BY <2>3, <2>5
  <2> QED
    BY <2>2, <2>5, <2>6, <2>7 DEF e
<1>2. CASE ~Online(d)
  <2>1. d.state \notin Printing /\ StartPrint(d, state) = d
    BY <1>2, StatesDiffer DEF StartPrint, Online, Driver
  <2> QED
    BY <2>1 DEF Sends
<1> QED
  BY <1>1, <1>2

LEMMA AppendGCodeEffect ==
  ASSUME NEW d \in Driver, NEW lines \in Seq(Nat)
  PROVE  LET e == AppendGCode(d, lines)
         IN  /\ e.buffer = d.buffer \o lines /\ e.tx = d.tx
             /\ e.totalLinesSent = d.totalLinesSent + Len(lines)
             /\ e.currentLine = d.currentLine
             /\ e.state \in Printing <=> d.state \in Printing
<1> DEFINE longer == AppendBuffer(d, lines)
<1>1. /\ longer \in Driver /\ longer.state = d.state
      /\ longer.buffer = d.buffer \o lines /\ longer.tx = d.tx
      /\ longer.totalLinesSent = d.totalLinesSent + Len(lines)
      /\ longer.currentLine = d.currentLine
  BY AppendBufferFacts
<1>2. AppendGCode(d, lines) = IF d.state = "idle" THEN SetState(longer, "buffering") ELSE longer
  BY DEF AppendGCode
<1> HIDE DEF longer
<1>3. CASE d.state = "idle"
  <2> DEFINE e == SetState(longer, "buffering")
  <2>1. "buffering" \in State /\ "buffering" \notin Printing /\ "idle" \notin Printing
    BY StatesDiffer
  <2>2. /\ e.state = "buffering" /\ e.buffer = longer.buffer /\ e.tx = longer.tx
        /\ e.totalLinesSent = longer.totalLinesSent /\ e.currentLine = longer.currentLine
    BY <1>1, <2>1, SetStateFacts
  <2>3. AppendGCode(d, lines) = e
    BY <1>2, <1>3
  <2> HIDE DEF e
  <2> QED
    BY <1>1, <1>3, <2>1, <2>2, <2>3
<1>4. CASE d.state # "idle"
  BY <1>1, <1>2, <1>4
<1> QED
  BY <1>3, <1>4

LEMMA ClearGCodeEffect ==
  ASSUME NEW d \in Driver
  PROVE  ClearGCode(d).buffer = <<>> /\ ClearGCode(d).tx = d.tx
<1> DEFINE cleared == ClearBuffer(d)
           none == <<>>
<1>1. cleared \in Driver /\ cleared.buffer = none /\ cleared.tx = d.tx
  BY ClearBufferFacts
<1>2. ClearGCode(d) =
        IF d.state \in {"buffering"} \cup Printing THEN SetState(cleared, "idle") ELSE cleared
  BY DEF ClearGCode
<1> HIDE DEF cleared, none
<1>3. SetState(cleared, "idle").buffer = none /\ SetState(cleared, "idle").tx = d.tx
  BY <1>1, StatesDiffer, SetStateFacts
<1>4. ClearGCode(d).buffer = none /\ ClearGCode(d).tx = d.tx
  BY <1>1, <1>2, <1>3
<1> QED
  BY <1>4 DEF none

LEMMA StopPrintEffect ==
  ASSUME NEW d \in Driver, NEW lines \in Seq(Nat)
  PROVE  LET e == StopPrint(d, lines)
         IN  /\ e.buffer = lines /\ e.totalLinesSent = Len(lines)
             /\ Sends(d.tx, e)
             /\ e.state \in Printing => e.currentLine = Smaller(1, Len(lines))
<1> DEFINE reset == ResetPrint(d)
           cleared == ClearBuffer(reset)
           set == AppendGCode(cleared, lines)
           none == <<>>
<1>1. reset \in Driver /\ reset.tx = d.tx /\ reset.state \notin Printing
  BY ResetPrintFacts
<1> HIDE DEF reset
<1>2. /\ cleared \in Driver /\ cleared.tx = d.tx /\ cleared.state \notin Printing
      /\ cleared.buffer = none /\ cleared.totalLinesSent = 0
  BY <1>1, ClearBufferFacts
<1>3. none \o lines = lines /\ Len(lines) \in Nat
  BY ConcatEmptySeq
<1> HIDE DEF cleared, none
<1>4. /\ set \in Driver /\ set.tx = d.tx /\ set.state \notin Printing
      /\ set.buffer = none \o lines /\ set.totalLinesSent = 0 + Len(lines)
  <2>1. set \in Driver
    BY ONLY <1>2, lines \in Seq(Nat), AppendGCodeFacts
  <2>2. /\ set.buffer = cleared.buffer \o lines /\ set.tx = cleared.tx
        /\ set.totalLinesSent = cleared.totalLinesSent + Len(lines)
        /\ set.state \in Printing <=> cleared.state \in Printing
    <3>1. cleared \in Driver
      BY <1>2
    <3> QED
      BY ONLY <3>1, lines \in Seq(Nat), AppendGCodeEffect, ZenonT(30)
  <2> HIDE DEF set
  <2> QED
    BY <1>2, <2>1, <2>2
<1>5. StopPrint(d, lines) = StartPrint(set, "stopping")
  BY DEF StopPrint, SetGCode, set, cleared, reset
<1> HIDE DEF set
<1>6. "stopping" \in Printing
  BY DEF Printing
<1>7. set.buffer = lines /\ set.totalLinesSent = Len(lines)
  BY <1>3, <1>4
<1> DEFINE e == StartPrint(set, "stopping")
<1>8. /\ e.buffer = set.buffer /\ e.totalLinesSent = set.totalLinesSent
      /\ Sends(set.tx, e)
      /\ (e.state \in Printing /\ set.state \notin Printing) =>
           e.currentLine = Smaller(1, set.totalLinesSent)
  BY ONLY <1>4, <1>6, StartPrintEffect
<1> HIDE DEF e
<1> QED
  BY <1>4, <1>5, <1>7, <1>8 DEF e

(* An "ok" ends the line at the head of the buffer, a "Resend:" does not.  *)
LEMMA ReadOkEffect ==
  ASSUME NEW d \in Driver, d.state \in Printing, d.buffer # <<>>
  PROVE  LET e == ReadOk(d)
         IN  /\ e.buffer = Tail(d.buffer) /\ e.totalLinesSent = d.totalLinesSent
             /\ Sends(d.tx, e)
             /\ e.state \in Printing =>
                  e.currentLine = Smaller(d.currentLine + 1, d.totalLinesSent)
<1> DEFINE erased == EraseLine(d)
           e == PrintNextLine(erased)
<1>1. /\ erased \in Driver /\ erased.state = d.state /\ erased.tx = d.tx
      /\ erased.buffer = Tail(d.buffer) /\ erased.currentLine = d.currentLine
      /\ erased.totalLinesSent = d.totalLinesSent
  BY EraseLineFacts
<1>2. ReadOk(d) = e
  BY DEF ReadOk
<1> HIDE DEF erased
<1>3. /\ e.buffer = erased.buffer /\ e.totalLinesSent = erased.totalLinesSent
      /\ erased.buffer # <<>> =>
           e.currentLine = Smaller(erased.currentLine + 1, erased.totalLinesSent)
      /\ erased.buffer = <<>> => e.state \notin Printing
  BY <1>1, PrintNextLineEffect
<1>4. Sends(erased.tx, e)
  BY <1>1, PrintNextLineSends
<1> HIDE DEF e
<1> QED
  BY <1>1, <1>2, <1>3, <1>4

LEMMA ReadResendEffect ==
  ASSUME NEW d \in Driver, d.state \in Printing, d.buffer # <<>>
  PROVE  LET e == ReadResend(d)
         IN  /\ e.buffer = d.buffer /\ e.totalLinesSent = d.totalLinesSent
             /\ Sends(d.tx, e)
             /\ d.currentLine <= d.totalLinesSent => e.currentLine = d.currentLine
<1> DEFINE line == d.currentLine - 1
           back == SetCurrentLine(d, line)
           e == PrintNextLine(back)
<1>1. line \in Int /\ ReadResend(d) = e
  BY DEF ReadResend, Driver
<1>2. d.currentLine \in Int /\ d.totalLinesSent \in Nat
  BY DEF Driver
<1> HIDE DEF line
<1>3. /\ back \in Driver /\ back.state = d.state /\ back.tx = d.tx
      /\ back.buffer = d.buffer /\ back.totalLinesSent = d.totalLinesSent
      /\ back.currentLine = Smaller(line, d.totalLinesSent)
  BY <1>1, SetCurrentLineFacts
<1> HIDE DEF back
<1>4. /\ e.buffer = d.buffer /\ e.totalLinesSent = d.totalLinesSent
      /\ e.currentLine = Smaller(back.currentLine + 1, d.totalLinesSent)
  BY <1>3, PrintNextLineEffect
<1>5. Sends(d.tx, e)
  BY <1>3, PrintNextLineSends
<1> HIDE DEF e
<1>6. d.currentLine <= d.totalLinesSent => e.currentLine = d.currentLine
  BY <1>2, <1>3, <1>4 DEF Smaller, line
<1> QED
  BY <1>1, <1>4, <1>5, <1>6

-----------------------------------------------------------------------------
(* What is on its way between the driver and the printer while clients are *)
(* quiet: one code at most that is to be answered by "ok" or "Resend:", or *)
(* one such answer, and never both.  During a print that is the line at    *)
(* the head of the buffer, or the answer to it.                            *)
Owes(code)     == code.kind # "M105"
Causes(answer) == answer \in {"ok", "Resend"}

OneInFlight(codes, answers) ==
  /\ \A i, j \in 1..Len(codes) : Owes(codes[i]) /\ Owes(codes[j]) => i = j
  /\ \A i, j \in 1..Len(answers) : Causes(answers[i]) /\ Causes(answers[j]) => i = j
  /\ \A i \in 1..Len(codes), j \in 1..Len(answers) : ~(Owes(codes[i]) /\ Causes(answers[j]))

Flight(d, answers, printed) ==
  /\ OneInFlight(d.tx, answers)
  /\ \A i \in 1..Len(d.tx) : Owes(d.tx[i]) =>
       d.tx[i] = IF d.state \in Printing THEN LineCode(Head(d.buffer)) ELSE M104
  /\ \A i \in 1..Len(answers) :
       /\ answers[i] = "ok" /\ d.state \in Printing => printed = Head(d.buffer)
       /\ answers[i] = "Resend" => d.state \in Printing

(* The buffer holds the lines that were appended last, in their order. *)
EndsAt(lines, last) ==
  /\ Len(lines) <= last
  /\ \A i \in 1..Len(lines) : lines[i] = last - Len(lines) + i

Numbered == EndsAt(drv.buffer, appended)

(* The head of the buffer, or the last line there was.  The printer does   *)
(* not get past it.                                                        *)
Front(d, last) == IF d.buffer = <<>> THEN last ELSE last - Len(d.buffer) + 1

Behind == lastPrinted <= Front(drv, appended)

InStep == quiet => Behind /\ (~exited => Flight(drv, rx, lastPrinted))

LEMMA OwedFacts ==
  ASSUME NEW codes, NEW answers
  PROVE  /\ AwaitsAnswer(codes) <=> \E i \in 1..Len(codes) : Owes(codes[i])
         /\ CausesLine(answers) <=> \E i \in 1..Len(answers) : Causes(answers[i])
BY DEF AwaitsAnswer, CausesLine, Owes, Causes

LEMMA NothingInFlight ==
  ASSUME NEW d, NEW answers, NEW printed,
         ~AwaitsAnswer(d.tx), ~CausesLine(answers)
  PROVE  Flight(d, answers, printed)
<1>1. \A i \in 1..Len(d.tx) : ~Owes(d.tx[i])
  BY OwedFacts
<1>2. \A i \in 1..Len(answers) : ~Causes(answers[i])
  BY OwedFacts
<1>3. \A i \in 1..Len(answers) : answers[i] # "ok" /\ answers[i] # "Resend"
  BY <1>2 DEF Causes
<1> QED
  BY <1>1, <1>2, <1>3 DEF Flight, OneInFlight

LEMMA AppendedCodes ==
  ASSUME NEW S, NEW s \in Seq(S), NEW e \in S
  PROVE  /\ Append(s, e) \in Seq(S) /\ Len(Append(s, e)) = Len(s) + 1 /\ Len(s) \in Nat
         /\ Append(s, e)[Len(s) + 1] = e
         /\ \A i \in 1..Len(s) : Append(s, e)[i] = s[i]
OBVIOUS

LEMMA RemainingCodes ==
  ASSUME NEW S, NEW s \in Seq(S), s # <<>>
  PROVE  /\ Tail(s) \in Seq(S) /\ Len(Tail(s)) = Len(s) - 1
         /\ Len(s) \in Nat /\ Len(s) # 0 /\ Head(s) = s[1] /\ Head(s) \in S
         /\ \A i \in 1..Len(Tail(s)) : Tail(s)[i] = s[i + 1] /\ i + 1 \in 1..Len(s)
<1>1. Tail(s) \in Seq(S) /\ Len(Tail(s)) = Len(s) - 1 /\ Len(s) \in Nat /\ Len(s) # 0
  OBVIOUS
<1>2. Head(s) = s[1] /\ Head(s) \in S /\ \A i \in 1..Len(Tail(s)) : Tail(s)[i] = s[i + 1]
  OBVIOUS
<1>3. \A i \in 1..Len(Tail(s)) : i + 1 \in 1..Len(s)
  BY <1>1
<1> QED
  BY <1>1, <1>2, <1>3

(* A function that begins or continues a print, when nothing is in flight *)
LEMMA SendsFlight ==
  ASSUME NEW d \in Driver, NEW codes \in Seq(Code), NEW answers, NEW printed,
         Sends(codes, d), ~AwaitsAnswer(codes), ~CausesLine(answers)
  PROVE  Flight(d, answers, printed)
<1>1. CASE d.state \notin Printing
  BY <1>1, NothingInFlight DEF Sends
<1>2. CASE d.state \in Printing
  <2> DEFINE code == LineCode(Head(d.buffer))
  <2>1. d.buffer \in Seq(Nat) /\ d.buffer # <<>> /\ d.tx = Append(codes, code)
    BY <1>2 DEF Sends, Driver
  <2>2. code \in Code
    BY <2>1 DEF LineCode, Code
  <2> HIDE DEF code
  <2>3. /\ Len(d.tx) = Len(codes) + 1 /\ Len(codes) \in Nat
        /\ d.tx[Len(codes) + 1] = code
        /\ \A i \in 1..Len(codes) : d.tx[i] = codes[i]
    BY <2>1, <2>2, AppendedCodes
  <2>4. \A i \in 1..Len(d.tx) : Owes(d.tx[i]) => i = Len(codes) + 1
    <3> SUFFICES ASSUME NEW i \in 1..Len(d.tx), Owes(d.tx[i]), i # Len(codes) + 1
                 PROVE  FALSE
      OBVIOUS
    <3>1. i \in 1..Len(codes)
      BY <2>3
    <3> QED
      BY <2>3, <3>1, OwedFacts
  <2>5. \A i \in 1..Len(answers) : ~Causes(answers[i])
    BY OwedFacts
  <2>6. \A i \in 1..Len(answers) : answers[i] # "ok" /\ answers[i] # "Resend"
    BY <2>5 DEF Causes
  <2>7. OneInFlight(d.tx, answers)
    BY <2>4, <2>5 DEF OneInFlight
  <2>8. \A i \in 1..Len(d.tx) : Owes(d.tx[i]) =>
          d.tx[i] = IF d.state \in Printing THEN LineCode(Head(d.buffer)) ELSE M104
    BY <1>2, <2>3, <2>4 DEF code
  <2> QED
    BY <2>6, <2>7, <2>8 DEF Flight
<1> QED
  BY <1>1, <1>2

Line(code) == code.kind = "line"

(* The line has been printed, or is on its way to the printer. *)
Sent(codes, printed, m) ==
  m <= printed \/ \E i \in 1..Len(codes) : codes[i] = LineCode(m)

(* Without refused lines and resets the printer gets the lines in their    *)
(* order, those before the head of the buffer have been sent, and during a *)
(* print so has the head.                                                  *)
Sorted(codes, printed, limit) ==
  /\ \A i, j \in 1..Len(codes) :
       Line(codes[i]) /\ Line(codes[j]) /\ i <= j => codes[i].line <= codes[j].line
  /\ \A i \in 1..Len(codes) :
       Line(codes[i]) => printed <= codes[i].line /\ codes[i].line <= limit
  /\ printed <= limit

AllSent(d, printed, given, last) ==
  /\ \A m \in (given + 1)..(last - Len(d.buffer)) : Sent(d.tx, printed, m)
  /\ d.state \in Printing => Sent(d.tx, printed, Head(d.buffer))

NothingRejected(answers) == \A i \in 1..Len(answers) : answers[i] # "Resend"

Orderly ==
  resends = 0 /\ resets = 0 =>
    /\ NothingRejected(rx)
    /\ Sorted(drv.tx, lastPrinted, Front(drv, appended))
    /\ AllSent(drv, lastPrinted, givenUp, appended)

(* getCurrentLine() is not ahead of the lines that have left the buffer. *)
Advance ==
  /\ Len(drv.buffer) <= drv.totalLinesSent
  /\ (quiet /\ resets = 0 /\ drv.state \in Printing) =>
       drv.currentLine <= drv.totalLinesSent - Len(drv.buffer) + 1

-----------------------------------------------------------------------------
(* The steps once more, by what they do to the buffer, the codes and the   *)
(* replies; the rest of a step has no part in the order of the lines.      *)
Going == drv.state \in Printing

SameBuffer == drv'.buffer = drv.buffer /\ drv'.totalLinesSent = drv.totalLinesSent
SameDriver == SameBuffer /\ drv'.currentLine = drv.currentLine /\ (Going' <=> Going)
SameCodes  == drv'.tx = drv.tx
SameLines  == UNCHANGED <<appended, givenUp>>
Others     == UNCHANGED <<quiet, exited, resends, resets>>

Appends(k) ==
  /\ drv'.buffer = drv.buffer \o NewLines(k)
  /\ drv'.totalLinesSent = drv.totalLinesSent + k
  /\ drv'.currentLine = drv.currentLine /\ (Going' <=> Going) /\ SameCodes
  /\ appended' = appended + k
  /\ UNCHANGED <<rx, givenUp, lastPrinted, executions>> /\ Others

Clears ==
  /\ MayCommand
  /\ drv'.buffer = <<>> /\ ~Going' /\ SameCodes
  /\ givenUp' = appended
  /\ UNCHANGED <<rx, appended, lastPrinted, executions>> /\ Others

Starts ==
  /\ MayCommand
  /\ SameBuffer /\ Sends(drv.tx, drv')
  /\ Going' /\ ~Going => drv'.currentLine = Smaller(1, drv.totalLinesSent)
  /\ UNCHANGED <<rx, lastPrinted, executions>> /\ SameLines /\ Others

Stops(k) ==
  /\ MayCommand
  /\ drv'.buffer = NewLines(k) /\ drv'.totalLinesSent = k /\ Sends(drv.tx, drv')
  /\ Going' => drv'.currentLine = Smaller(1, k)
  /\ appended' = appended + k /\ givenUp' = appended
  /\ UNCHANGED <<rx, lastPrinted, executions>> /\ Others

Heats ==
  /\ MayCommand /\ (quiet => ~Going)
  /\ SameDriver /\ drv'.tx = Append(drv.tx, M104)
  /\ UNCHANGED <<rx, lastPrinted, executions>> /\ SameLines /\ Others

Asks ==
  /\ SameDriver /\ drv'.tx = Append(drv.tx, M105)
  /\ UNCHANGED <<rx, lastPrinted, executions>> /\ SameLines /\ Others

Reads ==
  /\ ~exited /\ rx # <<>> /\ rx' = Tail(rx)
  /\ UNCHANGED <<lastPrinted, executions>> /\ SameLines /\ Others

Acknowledged ==
  /\ Reads /\ Head(rx) = "ok" /\ Going
  /\ drv'.buffer = Tail(drv.buffer) /\ drv'.totalLinesSent = drv.totalLinesSent
  /\ Sends(drv.tx, drv')
  /\ Going' => drv'.currentLine = Smaller(drv.currentLine + 1, drv.totalLinesSent)

Rejected ==
  /\ Reads /\ Head(rx) = "Resend" /\ SameBuffer
  /\ ~Going => ~Going'
  /\ Going => /\ Sends(drv.tx, drv')
              /\ drv.currentLine <= drv.totalLinesSent => drv'.currentLine = drv.currentLine

Passed ==
  /\ Reads /\ (Causes(Head(rx)) => Head(rx) = "ok" /\ ~Going)
  /\ SameDriver /\ SameCodes

Lost ==
  /\ exited' = TRUE /\ ~Going'
  /\ SameBuffer /\ SameCodes /\ SameLines
  /\ UNCHANGED <<rx, lastPrinted, executions, quiet, resends, resets>>

Executed(reply) ==
  /\ ~exited /\ drv.tx # <<>> /\ drv'.tx = Tail(drv.tx)
  /\ Owes(Head(drv.tx)) \/ reply = "T"
  /\ rx' = Append(rx, reply)
  /\ lastPrinted' = IF Line(Head(drv.tx)) THEN Head(drv.tx).line ELSE lastPrinted
  /\ executions' = executions + IF quiet /\ Line(Head(drv.tx)) THEN 1 ELSE 0
  /\ Line(Head(drv.tx)) /\ QueryLines = {} => reply = "ok"
  /\ SameDriver /\ SameLines /\ Others

Refused ==
  /\ ~exited /\ drv.tx # <<>> /\ Line(Head(drv.tx)) /\ drv'.tx = Tail(drv.tx)
  /\ rx' = Append(rx, "Resend")
  /\ resends' = resends + 1
  /\ SameDriver /\ SameLines
  /\ UNCHANGED <<lastPrinted, executions, quiet, exited, resets>>

Reports ==
  /\ rx' = Append(rx, "T")
  /\ UNCHANGED <<drv, lastPrinted, executions>> /\ SameLines /\ Others

Resets ==
  /\ drv'.tx = <<>> /\ rx' = Append(rx, "start")
  /\ resets' = resets + 1
  /\ SameDriver /\ SameLines
  /\ UNCHANGED <<lastPrinted, executions, quiet, exited, resends>>

Rests == UNCHANGED <<drv, rx, lastPrinted, executions>> /\ SameLines /\ Others

Kind ==
  \/ \E k \in Nat : Appends(k) \/ Stops(k)
  \/ Clears \/ Starts \/ Heats \/ Asks
  \/ Acknowledged \/ Rejected \/ Passed \/ Lost
  \/ \E reply \in {"T", "ok"} : Executed(reply)
  \/ Refused \/ Reports \/ Resets \/ Rests

LEMMA NewLinesFacts ==
  ASSUME appended \in Nat, NEW k \in Nat
  PROVE  /\ NewLines(k) \in Seq(Nat) /\ Len(NewLines(k)) = k
         /\ \A i \in 1..k : NewLines(k)[i] = appended + i
BY DEF NewLines

LEMMA CommandKinds ==
  ASSUME Inductive, Command
  PROVE  Kind
<1> drv \in Driver /\ appended \in Nat
  BY DEF Inductive, TypeOK
<1>1. ASSUME NEW k \in 0..MaxChunk, GCodeAppend(k)
      PROVE  Kind
  <2>1. k \in Nat
    BY BoundAssumption
  <2>2. NewLines(k) \in Seq(Nat) /\ Len(NewLines(k)) = k
    BY <2>1, NewLinesFacts
  <2>3. drv' = AppendGCode(drv, NewLines(k))
    BY <1>1 DEF GCodeAppend
  <2>4. /\ drv'.buffer = drv.buffer \o NewLines(k) /\ drv'.tx = drv.tx
        /\ drv'.totalLinesSent = drv.totalLinesSent + k
        /\ drv'.currentLine = drv.currentLine /\ (Going' <=> Going)
    BY <2>2, <2>3, AppendGCodeEffect DEF Going
  <2>5. Appends(k)
    BY <1>1, <2>4 DEF GCodeAppend, CommandFrame, Appends, SameCodes, Others
  <2> QED
    BY <2>1, <2>5 DEF Kind
<1>2. CASE GCodeClear
  <2>1. drv'.buffer = <<>> /\ drv'.tx = drv.tx /\ ~Going'
    BY <1>2, ClearGCodeFacts, ClearGCodeEffect DEF GCodeClear, Going
  <2>2. Clears
    BY <1>2, <2>1 DEF GCodeClear, CommandFrame, Clears, SameCodes, Others
  <2> QED
    BY <2>2 DEF Kind
<1>3. CASE GCodeStartPrint
  <2>1. "printing" \in Printing /\ drv' = StartPrint(drv, "printing")
    BY <1>3 DEF GCodeStartPrint, Printing
  <2>2. /\ SameBuffer /\ Sends(drv.tx, drv')
        /\ Going' /\ ~Going => drv'.currentLine = Smaller(1, drv.totalLinesSent)
    BY <2>1, StartPrintEffect DEF SameBuffer, Going
  <2>3. Starts
    BY <1>3, <2>2 DEF GCodeStartPrint, CommandFrame, Starts, SameLines, Others
  <2> QED
    BY <2>3 DEF Kind
<1>4. ASSUME NEW k \in 0..MaxChunk, GCodeStopPrint(k)
      PROVE  Kind
  <2>1. k \in Nat
    BY BoundAssumption
  <2>2. NewLines(k) \in Seq(Nat) /\ Len(NewLines(k)) = k
    BY <2>1, NewLinesFacts
  <2>3. drv' = StopPrint(drv, NewLines(k))
    BY <1>4 DEF GCodeStopPrint
  <2>4. /\ drv'.buffer = NewLines(k) /\ drv'.totalLinesSent = k /\ Sends(drv.tx, drv')
        /\ Going' => drv'.currentLine = Smaller(1, k)
    BY <2>2, <2>3, StopPrintEffect DEF Going
  <2>5. Stops(k)
    BY <1>4, <2>4 DEF GCodeStopPrint, CommandFrame, Stops, Others
  <2> QED
    BY <2>1, <2>5 DEF Kind
<1>5. CASE Heatup
  <2>1. drv' = SendCode(drv, M104) /\ M104 \in Code
    BY <1>5, CodesAreCodes DEF Heatup
  <2>2. SameDriver /\ drv'.tx = Append(drv.tx, M104)
    BY <2>1, SendCodeFacts DEF SameDriver, SameBuffer, Going
  <2>3. Heats
    BY <1>5, <2>2 DEF Heatup, CommandFrame, histories, Heats, SameLines, Others, Going
  <2> QED
    BY <2>3 DEF Kind
<1> QED
  BY <1>1, <1>2, <1>3, <1>4, <1>5 DEF Command

LEMMA UpdateKinds ==
  ASSUME Inductive, CheckTemperature \/ Receive \/ PortLost
  PROVE  Kind
<1> drv \in Driver
  BY DEF Inductive, TypeOK
<1>1. CASE CheckTemperature
  <2>1. drv' = drv \/ drv' = SendCode(drv, M105)
    BY <1>1 DEF CheckTemperature
  <2>2. UNCHANGED <<rx, lastPrinted, executions>> /\ SameLines /\ Others
    BY <1>1 DEF CheckTemperature, histories, SameLines, Others
  <2>3. CASE drv' = drv
    BY <2>2, <2>3 DEF Rests, Kind
  <2>4. CASE drv' = SendCode(drv, M105)
    <3>1. SameDriver /\ drv'.tx = Append(drv.tx, M105)
      BY <2>4, SendCodeFacts, CodesAreCodes DEF SameDriver, SameBuffer, Going
    <3> QED
      BY <2>2, <3>1 DEF Asks, Kind
  <2> QED
    BY <2>1, <2>3, <2>4
<1>2. CASE Receive
  <2>1. Reads
    BY <1>2 DEF Receive, ReceiveTemperature, ReceiveOk, ReceiveResend, ReceiveStart,
                Replied, histories, Reads, SameLines, Others
  <2>2. CASE ReceiveTemperature
    <3>1. ~exited /\ Head(rx) = "T"
      BY <2>2 DEF ReceiveTemperature, Replied
    <3>2. SameDriver /\ SameCodes
      <4>1. CASE checkConnection
        <5>1. ~Going
          BY <3>1, <4>1, StatesDiffer
             DEF Inductive, OnlineWhenChecked, Online, Going, Printing, Offline
        <5>2. drv' = SetState(drv, "idle") /\ "idle" \in State \ Printing
          BY <2>2, <4>1, StatesDiffer DEF ReceiveTemperature
        <5>3. /\ drv'.state = "idle" /\ drv'.buffer = drv.buffer /\ drv'.tx = drv.tx
              /\ drv'.currentLine = drv.currentLine
              /\ drv'.totalLinesSent = drv.totalLinesSent
          BY <5>2, SetStateFacts
        <5> QED
          BY <5>1, <5>2, <5>3 DEF SameDriver, SameBuffer, SameCodes, Going
      <4>2. CASE ~checkConnection
        <5>1. drv' = drv
          BY <2>2, <4>2 DEF ReceiveTemperature
        <5> QED
          BY <5>1 DEF SameDriver, SameBuffer, SameCodes, Going
      <4> QED
        BY <4>1, <4>2
    <3> QED
      BY <2>1, <3>1, <3>2 DEF Passed, Causes, Kind
  <2>3. CASE ReceiveOk
    <3>1. Head(rx) = "ok" /\ drv' = ReadOk(drv)
      BY <2>3 DEF ReceiveOk, Replied
    <3>2. CASE Going
      <4>1. drv.buffer # <<>>
        BY <3>2 DEF Inductive, PrintingHasLine, Going
      <4>2. Acknowledged
        BY <2>1, <3>1, <3>2, <4>1, ReadOkEffect DEF Acknowledged, Going
      <4> QED
        BY <4>2 DEF Kind
    <3>3. CASE ~Going
      <4>1. drv' = drv
        BY <3>1, <3>3 DEF ReadOk, Going
      <4> QED
        BY <2>1, <3>1, <3>3, <4>1 DEF Passed, SameDriver, SameBuffer, SameCodes, Going, Kind
    <3> QED
      BY <3>2, <3>3
  <2>4. CASE ReceiveResend
    <3>1. Head(rx) = "Resend" /\ drv' = ReadResend(drv)
      BY <2>4 DEF ReceiveResend, Replied
    <3>2. CASE Going
      <4>1. drv.buffer # <<>>
        BY <3>2 DEF Inductive, PrintingHasLine, Going
      <4>2. Rejected
        BY <2>1, <3>1, <3>2, <4>1, ReadResendEffect DEF Rejected, SameBuffer, Going
      <4> QED
        BY <4>2 DEF Kind
    <3>3. CASE ~Going
      <4> DEFINE line == drv.currentLine - 1
                 back == SetCurrentLine(drv, line)
      <4>1. line \in Int /\ drv' = PrintNextLine(back)
        BY <3>1 DEF ReadResend, Driver
      <4> HIDE DEF line
      <4>2. /\ back \in Driver /\ back.state = drv.state /\ back.buffer = drv.buffer
            /\ back.totalLinesSent = drv.totalLinesSent
        BY <4>1, SetCurrentLineFacts
      <4> HIDE DEF back
      <4>3. SameBuffer /\ ~Going'
        BY <3>3, <4>1, <4>2, PrintNextLineEffect DEF SameBuffer, Going
      <4> QED
        BY <2>1, <3>1, <3>3, <4>3 DEF Rejected, Kind
    <3> QED
      BY <3>2, <3>3
  <2>5. CASE ReceiveStart
    <3>1. Head(rx) = "start" /\ drv' = drv
      BY <2>5 DEF ReceiveStart, Replied
    <3> QED
      BY <2>1, <3>1 DEF Passed, Causes, SameDriver, SameBuffer, SameCodes, Going, Kind
  <2> QED
    BY <1>2, <2>2, <2>3, <2>4, <2>5 DEF Receive
<1>3. CASE PortLost
  <2>1. drv' = SetState(drv, "disconnected") /\ "disconnected" \in State \ Printing
    BY <1>3, StatesDiffer DEF PortLost
  <2>2. SameBuffer /\ SameCodes /\ ~Going'
    BY <2>1, SetStateFacts DEF SameBuffer, SameCodes, Going
  <2> QED
    BY <1>3, <2>2 DEF PortLost, histories, Lost, SameLines, Kind
<1> QED
  BY <1>1, <1>2, <1>3

LEMMA TakesEffect ==
  ASSUME NEW d \in Driver, NEW codes \in Seq(Code)
  PROVE  LET e == [d EXCEPT !.tx = codes]
         IN  /\ e.state = d.state /\ e.buffer = d.buffer /\ e.tx = codes
             /\ e.currentLine = d.currentLine /\ e.totalLinesSent = d.totalLinesSent
BY DEF Driver

LEMMA PrinterKinds ==
  ASSUME Inductive, Printer
  PROVE  Kind
<1> drv \in Driver
  BY DEF Inductive, TypeOK
<1>1. CASE PrinterAccepts
  <2>1. drv.tx # <<>> /\ drv' = [drv EXCEPT !.tx = Tail(@)] /\ ~exited
    BY <1>1 DEF PrinterAccepts, Understands
  <2>2. Tail(drv.tx) \in Seq(Code) /\ Head(drv.tx) \in Code
    BY <2>1 DEF Driver
  <2>3. SameDriver /\ drv'.tx = Tail(drv.tx)
    BY <2>1, <2>2, TakesEffect DEF SameDriver, SameBuffer, Going
  <2>4. PICK reply \in {"T", "ok"} :
          /\ rx' = Append(rx, reply)
          /\ Head(drv.tx).kind = "M105" => reply = "T"
          /\ Line(Head(drv.tx)) /\ QueryLines = {} => reply = "ok"
    BY <1>1 DEF PrinterAccepts, Line
  <2>5. /\ lastPrinted' = IF Line(Head(drv.tx)) THEN Head(drv.tx).line ELSE lastPrinted
        /\ executions' = executions + IF quiet /\ Line(Head(drv.tx)) THEN 1 ELSE 0
    BY <1>1 DEF PrinterAccepts, Line
  <2>6. SameLines /\ Others
    BY <1>1 DEF PrinterAccepts, PrinterFrame, SameLines, Others
  <2>7. Executed(reply)
    BY <2>1, <2>3, <2>4, <2>5, <2>6 DEF Executed, Owes
  <2> QED
    BY <2>7 DEF Kind
<1>2. CASE PrinterRefuses
  <2>1. drv.tx # <<>> /\ drv' = [drv EXCEPT !.tx = Tail(@)]
    BY <1>2 DEF PrinterRefuses
  <2>2. Tail(drv.tx) \in Seq(Code)
    BY <2>1 DEF Driver
  <2>3. SameDriver /\ drv'.tx = Tail(drv.tx)
    BY <2>1, <2>2, TakesEffect DEF SameDriver, SameBuffer, Going
  <2> QED
    BY <1>2, <2>3 DEF PrinterRefuses, PrinterFrame, Understands, Line, SameLines, Refused, Kind
<1>3. CASE PrinterHeats
  BY <1>3 DEF PrinterHeats, PrinterFrame, Reports, SameLines, Others, Kind
<1>4. CASE PrinterResets
  <2> DEFINE none == <<>>
  <2>1. none \in Seq(Code)
    OBVIOUS
  <2>2. drv' = [drv EXCEPT !.tx = none]
    BY <1>4 DEF PrinterResets
  <2> HIDE DEF none
  <2>3. SameDriver /\ drv'.tx = none
    BY <2>1, <2>2, TakesEffect DEF SameDriver, SameBuffer, Going
  <2> QED
    BY <1>4, <2>3 DEF PrinterResets, PrinterFrame, SameLines, Resets, Kind, none
<1> QED
  BY <1>1, <1>2, <1>3, <1>4 DEF Printer, PrinterAnswers

LEMMA StepKinds ==
  ASSUME Inductive, [Next]_vars
  PROVE  Kind
<1>1. CASE UNCHANGED vars
  BY <1>1 DEF vars, histories, Rests, SameLines, Others, Kind
<1> QED
  BY <1>1, CommandKinds, UpdateKinds, PrinterKinds DEF Next

-----------------------------------------------------------------------------
LEMMA NumberedInit == Init => Numbered
<1> SUFFICES ASSUME Init PROVE Numbered
  OBVIOUS
<1> DEFINE none == <<>>
<1>1. drv.buffer = none /\ appended = 0 /\ Len(none) = 0
  BY DEF Init
<1> HIDE DEF none
<1> QED
  BY <1>1 DEF Numbered, EndsAt

LEMMA NumberedStep ==
  ASSUME Inductive, Inductive', Numbered, Kind
  PROVE  Numbered'
<1> DEFINE b == drv.buffer  n == Len(b)
<1>1. /\ b \in Seq(Nat) /\ n \in Nat /\ appended \in Nat /\ n <= appended
      /\ \A i \in 1..n : b[i] = appended - n + i
  BY DEF Inductive, TypeOK, Driver, Numbered, EndsAt
<1>2. CASE SameBuffer /\ appended' = appended
  BY <1>2 DEF Numbered, SameBuffer
<1>3. ASSUME NEW k \in Nat, Appends(k) PROVE Numbered'
  <2> DEFINE lines == NewLines(k)
  <2>1. /\ lines \in Seq(Nat) /\ Len(lines) = k
        /\ \A i \in 1..k : lines[i] = appended + i
    BY <1>1, NewLinesFacts
  <2>2. drv'.buffer = b \o lines /\ appended' = appended + k
    BY <1>3 DEF Appends
  <2> HIDE DEF b, lines
  <2>3. /\ Len(b \o lines) = n + k
        /\ \A i \in 1..(n + k) :
             (b \o lines)[i] = IF i <= n THEN b[i] ELSE lines[i - n]
    BY <1>1, <2>1
  <2> HIDE DEF n
  <2>4. \A i \in 1..(n + k) : (b \o lines)[i] = appended + k - (n + k) + i
    <3> TAKE i \in 1..(n + k)
    <3>1. CASE i <= n
      <4>1. i \in 1..n
        BY <1>1, <3>1
      <4> QED
        BY <1>1, <2>3, <3>1, <4>1
    <3>2. CASE ~(i <= n)
      <4> DEFINE j == i - n
      <4>1. j \in 1..k /\ (b \o lines)[i] = lines[j]
        BY <1>1, <2>3, <3>2
      <4>2. lines[j] = appended + j
        BY <2>1, <4>1
      <4> QED
        BY <1>1, <4>1, <4>2
    <3> QED
      BY <3>1, <3>2
  <2>5. n + k <= appended + k
    BY <1>1
  <2> DEFINE c == b \o lines
  <2>6. drv'.buffer = c /\ Len(c) = n + k
    BY <2>2, <2>3
  <2>7. \A i \in 1..(n + k) : c[i] = appended + k - (n + k) + i
    BY <2>4
  <2> HIDE DEF c
  <2> DEFINE last == appended + k  total == n + k
  <2>8. /\ appended' = last /\ Len(c) = total /\ total <= last
        /\ last \in Nat /\ total \in Nat
    BY <1>1, <2>2, <2>5, <2>6
  <2>9. \A i \in 1..total : c[i] = last - total + i
    <3> TAKE i \in 1..total
    <3>1. c[i] = appended + k - (n + k) + i
      BY <2>7
    <3>2. appended + k - (n + k) + i = last - total + i
      BY <1>1
    <3> QED
      BY <3>1, <3>2
  <2> HIDE DEF last, total
  <2> QED
    <3>1. EndsAt(c, last)
      BY <2>8, <2>9 DEF EndsAt
    <3> QED
      BY <2>6, <2>8, <3>1 DEF Numbered
<1>4. ASSUME NEW k \in Nat, Stops(k) PROVE Numbered'
  <2> DEFINE lines == NewLines(k)
  <2>1. /\ lines \in Seq(Nat) /\ Len(lines) = k
        /\ \A i \in 1..k : lines[i] = appended + i
    BY <1>1, NewLinesFacts
  <2>2. drv'.buffer = lines /\ appended' = appended + k
    BY <1>4 DEF Stops
  <2> HIDE DEF lines
  <2> DEFINE last == appended + k
  <2>3. appended' = last /\ k <= last /\ \A i \in 1..k : appended + i = last - k + i
    BY <1>1, <2>2
  <2> HIDE DEF last
  <2>4. EndsAt(lines, last)
    BY <2>1, <2>3 DEF EndsAt
  <2> QED
    BY <2>2, <2>3, <2>4 DEF Numbered
<1>5. CASE Clears
  <2> DEFINE none == <<>>
  <2>1. drv'.buffer = none /\ Len(none) = 0 /\ appended' = appended
    BY <1>5 DEF Clears
  <2> HIDE DEF none
  <2> QED
    BY <1>1, <2>1 DEF Numbered, EndsAt
<1>6. CASE Acknowledged
  <2>1. b # <<>> /\ drv'.buffer = Tail(b) /\ appended' = appended
    BY <1>6 DEF Acknowledged, Reads, SameLines, Inductive, PrintingHasLine, Going
  <2> HIDE DEF b
  <2>2. /\ Len(Tail(b)) = n - 1 /\ n # 0
        /\ \A i \in 1..(n - 1) : Tail(b)[i] = b[i + 1] /\ i + 1 \in 1..n
    <3>1. /\ Len(Tail(b)) = n - 1 /\ n # 0
          /\ \A i \in 1..Len(Tail(b)) : Tail(b)[i] = b[i + 1] /\ i + 1 \in 1..n
      BY <1>1, <2>1, RemainingCodes
    <3> QED
      BY <3>1
  <2> HIDE DEF n
  <2>3. \A i \in 1..(n - 1) : Tail(b)[i] = appended - (n - 1) + i
    <3> TAKE i \in 1..(n - 1)
    <3> DEFINE j == i + 1
    <3>1. j \in 1..n /\ Tail(b)[i] = b[j]
      BY <2>2
    <3>2. b[j] = appended - n + j
      BY <1>1, <3>1
    <3>3. appended - n + j = appended - (n - 1) + i
      BY <1>1
    <3> HIDE DEF j
    <3> QED
      BY ONLY <3>1, <3>2, <3>3
  <2>4. n - 1 <= appended
    BY <1>1
  <2> QED
    BY <2>1, <2>2, <2>3, <2>4 DEF Numbered, EndsAt
<1>7. CASE Starts \/ Heats \/ Asks
  BY <1>2, <1>7 DEF Starts, Heats, Asks, SameDriver, SameLines
<1>8. CASE Rejected \/ Passed
  BY <1>2, <1>8 DEF Rejected, Passed, Reads, SameDriver, SameLines
<1>9. ASSUME NEW reply, Executed(reply) PROVE Numbered'
  BY <1>2, <1>9 DEF Executed, SameDriver, SameLines
<1>10. CASE Lost \/ Refused \/ Resets
  BY <1>2, <1>10 DEF Lost, Refused, Resets, SameDriver, SameLines
<1>11. CASE Reports \/ Rests
  BY <1>2, <1>11 DEF Reports, Rests, SameLines, SameBuffer
<1> QED
  BY <1>3, <1>4, <1>5, <1>6, <1>7, <1>8, <1>9, <1>10, <1>11 DEF Kind

(* The head of the buffer *)
LEMMA FrontFacts ==
  ASSUME NEW d \in Driver, NEW last \in Nat, EndsAt(d.buffer, last)
  PROVE  LET n == Len(d.buffer)
             f == Front(d, last)
         IN  /\ d.buffer \in Seq(Nat) /\ n \in Nat /\ (d.buffer = <<>> <=> n = 0)
             /\ f \in Nat /\ f <= last
             /\ f = IF n = 0 THEN last ELSE last - n + 1
             /\ d.buffer # <<>> => Head(d.buffer) = f
<1> DEFINE b == d.buffer  n == Len(b)
<1>1. b \in Seq(Nat)
  BY DEF Driver
<1>2. n <= last /\ \A i \in 1..n : b[i] = last - n + i
  BY DEF EndsAt
<1> HIDE DEF b
<1>3. n \in Nat /\ (b = <<>> <=> n = 0) /\ (b # <<>> => Head(b) = b[1])
  BY <1>1, EmptySeq
<1>4. Front(d, last) = IF n = 0 THEN last ELSE last - n + 1
  BY <1>3 DEF Front, b
<1> HIDE DEF n
<1>5. CASE n = 0
  BY <1>1, <1>3, <1>4, <1>5 DEF b, n
<1>6. CASE n # 0
  <2>1. 1 \in 1..n /\ last - n + 1 \in Nat /\ last - n + 1 <= last
    BY <1>2, <1>3, <1>6
  <2>2. Head(b) = last - n + 1
    BY <1>2, <1>3, <1>6, <2>1
  <2> QED
    BY <1>1, <1>3, <1>4, <1>6, <2>1, <2>2 DEF b, n
<1> QED
  BY <1>5, <1>6

(* No step takes the front back. *)
LEMMA FrontAdvances ==
  ASSUME Inductive, Inductive', Numbered, Numbered', Kind
  PROVE  Front(drv, appended) <= Front(drv', appended')
<1> DEFINE n == Len(drv.buffer)  m == Len(drv'.buffer)
           f == Front(drv, appended)  g == Front(drv', appended')
<1>1. /\ n \in Nat /\ appended \in Nat /\ f \in Nat /\ f <= appended
      /\ f = IF n = 0 THEN appended ELSE appended - n + 1
  <2>1. drv \in Driver /\ appended \in Nat /\ EndsAt(drv.buffer, appended)
    BY DEF Inductive, TypeOK, Numbered
  <2> QED
    BY <2>1, FrontFacts
<1>2. /\ m \in Nat /\ appended' \in Nat /\ g \in Nat /\ g <= appended'
      /\ g = IF m = 0 THEN appended' ELSE appended' - m + 1
  <2>1. drv' \in Driver /\ appended' \in Nat /\ EndsAt(drv'.buffer, appended')
    BY DEF Inductive, TypeOK, Numbered
  <2> QED
    BY <2>1, FrontFacts
<1>3. \/ \E k \in Nat : m = n + k /\ appended' = appended + k
      \/ \E k \in Nat : m = k /\ appended' = appended + k
      \/ m = 0 /\ appended' = appended
      \/ n # 0 /\ m = n - 1 /\ appended' = appended
  <2> drv.buffer \in Seq(Nat) /\ appended \in Nat
    BY DEF Inductive, TypeOK, Driver
  <2> HIDE DEF f, g
  <2>1. CASE SameBuffer /\ appended' = appended
    <3>1. m = n + 0 /\ appended' = appended + 0
      BY <1>1, <2>1 DEF SameBuffer
    <3> QED
      BY <3>1
  <2>2. ASSUME NEW k \in Nat, Appends(k)
        PROVE  m = n + k /\ appended' = appended + k
    <3>1. NewLines(k) \in Seq(Nat) /\ Len(NewLines(k)) = k
      BY NewLinesFacts
    <3>2. drv'.buffer = drv.buffer \o NewLines(k) /\ appended' = appended + k
      BY <2>2 DEF Appends
    <3> DEFINE b == drv.buffer  lines == NewLines(k)
    <3>3. b \in Seq(Nat) /\ lines \in Seq(Nat)
      BY <3>1
    <3>4. Len(lines) = k /\ drv'.buffer = b \o lines
      BY <3>1, <3>2
    <3> HIDE DEF b, lines
    <3>5. Len(b \o lines) = Len(b) + Len(lines)
      BY ONLY <3>3
    <3> QED
      BY <3>2, <3>4, <3>5 DEF b
  <2>3. ASSUME NEW k \in Nat, Stops(k)
        PROVE  m = k /\ appended' = appended + k
    <3>1. NewLines(k) \in Seq(Nat) /\ Len(NewLines(k)) = k
      BY NewLinesFacts
    <3> QED
      BY <2>3, <3>1 DEF Stops
  <2>4. CASE Clears
    <3> DEFINE none == <<>>
    <3>1. drv'.buffer = none /\ Len(none) = 0 /\ appended' = appended
      BY <2>4 DEF Clears
    <3> QED
      BY <3>1
  <2>5. CASE Acknowledged
    <3>1. /\ drv.buffer # <<>> /\ drv'.buffer = Tail(drv.buffer)
          /\ appended' = appended
      BY <2>5 DEF Acknowledged, Reads, SameLines, Inductive, PrintingHasLine, Going
    <3> QED
      BY <3>1, RemainingCodes
  <2>6. CASE Starts \/ Heats \/ Asks
    BY <2>1, <2>6 DEF Starts, Heats, Asks, SameDriver, SameLines
  <2>7. CASE Rejected \/ Passed
    BY <2>1, <2>7 DEF Rejected, Passed, Reads, SameDriver, SameLines
  <2>8. CASE \E reply \in {"T", "ok"} : Executed(reply)
    BY <2>1, <2>8 DEF Executed, SameDriver, SameLines
  <2>9. CASE Lost \/ Refused \/ Resets
    BY <2>1, <2>9 DEF Lost, Refused, Resets, SameDriver, SameLines
  <2>10. CASE Reports \/ Rests
    BY <2>1, <2>10 DEF Reports, Rests, SameLines, SameBuffer
  <2> HIDE DEF n, m
  <2> QED
    BY <2>2, <2>3, <2>4, <2>5, <2>6, <2>7, <2>8, <2>9, <2>10 DEF Kind
<1> HIDE DEF n, m, f, g
<1>4. f <= g
  <2>1. CASE \E k \in Nat : m = n + k /\ appended' = appended + k
    <3>1. PICK k \in Nat : m = n + k /\ appended' = appended + k
      BY <2>1
    <3>2. CASE n = 0
      BY ONLY <1>1, <1>2, <3>1, <3>2
    <3>3. CASE n # 0
      BY ONLY <1>1, <1>2, <3>1, <3>3
    <3> QED
      BY <3>2, <3>3
  <2>2. CASE \E k \in Nat : m = k /\ appended' = appended + k
    <3>1. PICK k \in Nat : m = k /\ appended' = appended + k
      BY <2>2
    <3> QED
      BY ONLY <1>1, <1>2, <3>1
  <2>3. CASE m = 0 /\ appended' = appended
    BY ONLY <1>1, <1>2, <2>3
  <2>4. CASE n # 0 /\ m = n - 1 /\ appended' = appended
    BY ONLY <1>1, <1>2, <2>4
  <2> QED
    BY <1>3, <2>1, <2>2, <2>3, <2>4
<1> QED
  BY <1>4 DEF f, g

-----------------------------------------------------------------------------
(* The driver and the printer stay in step. *)

(* Flight looks at the codes, at whether a print is under way and at its   *)
(* line, no more.                                                          *)
LEMMA FlightOfLike ==
  ASSUME NEW d, NEW e, NEW answers, NEW printed, Flight(d, answers, printed),
         e.tx = d.tx, e.state \in Printing <=> d.state \in Printing,
         d.state \in Printing => Head(e.buffer) = Head(d.buffer)
  PROVE  Flight(e, answers, printed)
<1>1. CASE d.state \in Printing
  BY <1>1 DEF Flight
<1>2. CASE d.state \notin Printing
  BY <1>2 DEF Flight
<1> QED
  BY <1>1, <1>2

(* A reply is read. *)
LEMMA FlightAfterReply ==
  ASSUME NEW d, NEW answers \in Seq(Reply), answers # <<>>, NEW printed,
         Flight(d, answers, printed)
  PROVE  /\ Flight(d, Tail(answers), printed)
         /\ Causes(Head(answers)) => ~AwaitsAnswer(d.tx) /\ ~CausesLine(Tail(answers))
<1> DEFINE rest == Tail(answers)  n == Len(answers)  m == Len(rest)
<1>1. /\ n \in Nat /\ n # 0 /\ m = n - 1 /\ Head(answers) = answers[1]
      /\ \A i \in 1..m : rest[i] = answers[i + 1] /\ i + 1 \in 1..n
  BY RemainingCodes
<1> HIDE DEF rest, m
<1>2. /\ \A i, j \in 1..Len(d.tx) : Owes(d.tx[i]) /\ Owes(d.tx[j]) => i = j
      /\ \A i, j \in 1..n : Causes(answers[i]) /\ Causes(answers[j]) => i = j
      /\ \A i \in 1..Len(d.tx), j \in 1..n : ~(Owes(d.tx[i]) /\ Causes(answers[j]))
  BY DEF Flight, OneInFlight
<1>3. \A i \in 1..n :
        /\ answers[i] = "ok" /\ d.state \in Printing => printed = Head(d.buffer)
        /\ answers[i] = "Resend" => d.state \in Printing
  BY DEF Flight
<1> HIDE DEF n
<1>4. OneInFlight(d.tx, rest)
  <2>1. \A i, j \in 1..m : Causes(rest[i]) /\ Causes(rest[j]) => i = j
    <3> TAKE i, j \in 1..m
    <3> HAVE Causes(rest[i]) /\ Causes(rest[j])
    <3>1. i + 1 \in 1..n /\ j + 1 \in 1..n /\ Causes(answers[i + 1]) /\ Causes(answers[j + 1])
      BY <1>1
    <3>2. i + 1 = j + 1
      BY <1>2, <3>1
    <3> QED
      BY <3>2
  <2>2. \A i \in 1..Len(d.tx), j \in 1..m : ~(Owes(d.tx[i]) /\ Causes(rest[j]))
    BY <1>1, <1>2
  <2> QED
    BY <1>2, <2>1, <2>2 DEF OneInFlight, m
<1>5. \A i \in 1..m :
        /\ rest[i] = "ok" /\ d.state \in Printing => printed = Head(d.buffer)
        /\ rest[i] = "Resend" => d.state \in Printing
  BY <1>1, <1>3
<1>6. Flight(d, rest, printed)
  BY <1>4, <1>5 DEF Flight, m
<1>7. ASSUME Causes(Head(answers))
      PROVE  ~AwaitsAnswer(d.tx) /\ ~CausesLine(rest)
  <2>1. 1 \in 1..n /\ Causes(answers[1])
    BY <1>1, <1>7
  <2>2. \A i \in 1..Len(d.tx) : ~Owes(d.tx[i])
    BY <1>2, <2>1
  <2>3. \A i \in 1..m : ~Causes(rest[i])
    <3> SUFFICES ASSUME NEW i \in 1..m, Causes(rest[i]) PROVE FALSE
      OBVIOUS
    <3>1. i + 1 \in 1..n /\ Causes(answers[i + 1])
      BY <1>1
    <3>2. 1 = i + 1
      BY <1>2, <2>1, <3>1
    <3> QED
      BY <1>1, <3>2
  <2> QED
    BY <2>2, <2>3, OwedFacts DEF m
<1> QED
  BY <1>6, <1>7 DEF rest

(* A report, or the message of a reset, arrives. *)
LEMMA FlightWithReport ==
  ASSUME NEW d, NEW answers \in Seq(Reply), NEW printed, NEW reply \in Reply,
         Flight(d, answers, printed), ~Causes(reply)
  PROVE  Flight(d, Append(answers, reply), printed)
<1> DEFINE more == Append(answers, reply)  n == Len(answers)
<1>1. n \in Nat /\ Len(more) = n + 1 /\ more[n + 1] = reply
  BY AppendedCodes
<1>2. \A i \in 1..n : more[i] = answers[i]
  BY AppendedCodes
<1> HIDE DEF more
<1>3. reply # "ok" /\ reply # "Resend"
  BY DEF Causes
<1>4. \A i \in 1..Len(more) : Causes(more[i]) => i \in 1..n /\ more[i] = answers[i]
  <2> TAKE i \in 1..Len(more)
  <2> HAVE Causes(more[i])
  <2>1. i # n + 1
    BY <1>1
  <2> QED
    BY <1>1, <1>2, <2>1
<1>5. \A i \in 1..Len(more) : more[i] \in {"ok", "Resend"} => i \in 1..n /\ more[i] = answers[i]
  BY <1>4 DEF Causes
<1> HIDE DEF n
<1>6. OneInFlight(d.tx, more)
  BY <1>4 DEF Flight, OneInFlight, n
<1> QED
  BY <1>5, <1>6 DEF Flight, more, n

(* The temperature is asked for. *)
LEMMA FlightWithCheck ==
  ASSUME NEW d \in Driver, NEW e, NEW answers, NEW printed, Flight(d, answers, printed),
         e.tx = Append(d.tx, M105), e.buffer = d.buffer,
         e.state \in Printing <=> d.state \in Printing
  PROVE  Flight(e, answers, printed)
<1> DEFINE n == Len(d.tx)
<1>1. d.tx \in Seq(Code) /\ M105 \in Code
  BY CodesAreCodes DEF Driver
<1>2. /\ n \in Nat /\ Len(e.tx) = n + 1 /\ e.tx[n + 1] = M105
      /\ \A i \in 1..n : e.tx[i] = d.tx[i]
  BY <1>1, AppendedCodes
<1>3. ~Owes(M105)
  BY DEF Owes, M105
<1>4. \A i \in 1..Len(e.tx) : Owes(e.tx[i]) => i \in 1..n /\ e.tx[i] = d.tx[i]
  BY <1>2, <1>3
<1> HIDE DEF n
<1>5. OneInFlight(e.tx, answers)
  BY <1>4 DEF Flight, OneInFlight, n
<1>6. \A i \in 1..Len(e.tx) : Owes(e.tx[i]) =>
        e.tx[i] = IF e.state \in Printing THEN LineCode(Head(e.buffer)) ELSE M104
  BY <1>4 DEF Flight, n
<1> QED
  BY <1>5, <1>6 DEF Flight

(* The printer is heated while nothing is in flight. *)
LEMMA FlightWithHeat ==
  ASSUME NEW d \in Driver, NEW e, NEW answers, NEW printed,
         e.tx = Append(d.tx, M104), e.state \notin Printing,
         ~AwaitsAnswer(d.tx), ~CausesLine(answers)
  PROVE  Flight(e, answers, printed)
<1> DEFINE n == Len(d.tx)
<1>1. d.tx \in Seq(Code) /\ M104 \in Code
  BY CodesAreCodes DEF Driver
<1>2. /\ n \in Nat /\ Len(e.tx) = n + 1 /\ e.tx[n + 1] = M104
      /\ \A i \in 1..n : e.tx[i] = d.tx[i]
  BY <1>1, AppendedCodes
<1>3. \A i \in 1..n : ~Owes(d.tx[i])
  BY OwedFacts
<1>4. \A i \in 1..Len(e.tx) : Owes(e.tx[i]) => i = n + 1
  BY <1>2, <1>3
<1>5. \A i \in 1..Len(answers) : ~Causes(answers[i])
  BY OwedFacts
<1>6. \A i \in 1..Len(answers) : answers[i] # "ok" /\ answers[i] # "Resend"
  BY <1>5 DEF Causes
<1>7. OneInFlight(e.tx, answers)
  BY <1>4, <1>5 DEF OneInFlight
<1> QED
  BY <1>2, <1>4, <1>6, <1>7 DEF Flight

(* The printer takes a code and answers it. *)
LEMMA FlightAnswered ==
  ASSUME NEW d \in Driver, d.tx # <<>>, NEW e, NEW answers \in Seq(Reply),
         NEW printed, NEW now, NEW reply \in Reply, Flight(d, answers, printed),
         e.tx = Tail(d.tx), e.buffer = d.buffer,
         e.state \in Printing <=> d.state \in Printing,
         Owes(Head(d.tx)) \/ (~Causes(reply) /\ now = printed),
         reply = "ok" /\ d.state \in Printing => now = Head(d.tx).line,
         reply = "Resend" => d.state \in Printing
  PROVE  Flight(e, Append(answers, reply), now)
<1> DEFINE more == Append(answers, reply)
           n == Len(d.tx)  m == Len(answers)
<1>1. /\ n \in Nat /\ n # 0 /\ Head(d.tx) = d.tx[1] /\ Len(e.tx) = n - 1
      /\ \A i \in 1..(n - 1) : e.tx[i] = d.tx[i + 1] /\ i + 1 \in 1..n
  <2>1. d.tx \in Seq(Code)
    BY DEF Driver
  <2> QED
    BY <2>1, RemainingCodes
<1>2. /\ m \in Nat /\ Len(more) = m + 1 /\ more[m + 1] = reply
      /\ \A j \in 1..m : more[j] = answers[j]
  BY AppendedCodes
<1> HIDE DEF more
<1>3. /\ \A i, j \in 1..n : Owes(d.tx[i]) /\ Owes(d.tx[j]) => i = j
      /\ \A i, j \in 1..m : Causes(answers[i]) /\ Causes(answers[j]) => i = j
      /\ \A i \in 1..n, j \in 1..m : ~(Owes(d.tx[i]) /\ Causes(answers[j]))
  BY DEF Flight, OneInFlight
<1>4. /\ \A i \in 1..n : Owes(d.tx[i]) =>
           d.tx[i] = IF d.state \in Printing THEN LineCode(Head(d.buffer)) ELSE M104
      /\ \A j \in 1..m :
           /\ answers[j] = "ok" /\ d.state \in Printing => printed = Head(d.buffer)
           /\ answers[j] = "Resend" => d.state \in Printing
  BY DEF Flight
<1> HIDE DEF n, m
<1>5. \A i \in 1..Len(e.tx) : Owes(e.tx[i]) =>
        e.tx[i] = IF e.state \in Printing THEN LineCode(Head(e.buffer)) ELSE M104
  BY <1>1, <1>4
<1>6. CASE Owes(Head(d.tx))
  <2>1. 1 \in 1..n /\ Owes(d.tx[1])
    BY <1>1, <1>6
  <2>2. \A i \in 1..Len(e.tx) : ~Owes(e.tx[i])
    <3> SUFFICES ASSUME NEW i \in 1..Len(e.tx), Owes(e.tx[i]) PROVE FALSE
      OBVIOUS
    <3>1. i + 1 \in 1..n /\ Owes(d.tx[i + 1])
      BY <1>1
    <3>2. 1 = i + 1
      BY <1>3, <2>1, <3>1
    <3> QED
      BY <1>1, <3>2
  <2>3. \A j \in 1..m : ~Causes(answers[j])
    BY <1>3, <2>1
  <2>4. \A j \in 1..Len(more) : Causes(more[j]) => j = m + 1
    BY <1>2, <2>3
  <2>5. OneInFlight(e.tx, more)
    BY <2>2, <2>4 DEF OneInFlight
  <2>6. \A j \in 1..Len(more) : more[j] \in {"ok", "Resend"} => more[j] = reply
    BY <1>2, <2>4 DEF Causes
  <2>7. reply = "ok" /\ d.state \in Printing => now = Head(d.buffer)
    <3> SUFFICES ASSUME reply = "ok", d.state \in Printing PROVE now = Head(d.buffer)
      OBVIOUS
    <3>1. d.tx[1] = LineCode(Head(d.buffer)) /\ now = d.tx[1].line
      BY <1>1, <1>4, <2>1
    <3> QED
      BY <3>1 DEF LineCode
  <2> QED
    BY <1>5, <2>5, <2>6, <2>7 DEF Flight, more
<1>7. CASE ~Owes(Head(d.tx))
  <2>1. Flight(e, answers, printed)
    <3>1. \A i, j \in 1..Len(e.tx) : Owes(e.tx[i]) /\ Owes(e.tx[j]) => i = j
      <4> TAKE i, j \in 1..Len(e.tx)
      <4> HAVE Owes(e.tx[i]) /\ Owes(e.tx[j])
      <4>1. i + 1 \in 1..n /\ j + 1 \in 1..n /\ Owes(d.tx[i + 1]) /\ Owes(d.tx[j + 1])
        BY <1>1
      <4>2. i + 1 = j + 1
        BY <1>3, <4>1
      <4> QED
        BY <1>1, <4>2
    <3>2. \A i \in 1..Len(e.tx), j \in 1..m : ~(Owes(e.tx[i]) /\ Causes(answers[j]))
      BY <1>1, <1>3
    <3>3. OneInFlight(e.tx, answers)
      BY <1>3, <3>1, <3>2 DEF OneInFlight, m
    <3> QED
      BY <1>4, <1>5, <3>3 DEF Flight, m
  <2> QED
    BY <1>7, <2>1, FlightWithReport
<1> QED
  BY <1>6, <1>7

LEMMA InStepInit == Init => InStep
<1> SUFFICES ASSUME Init PROVE InStep
  OBVIOUS
<1> DEFINE none == <<>>
<1>1. /\ drv.tx = none /\ rx = none /\ drv.buffer = <<>> /\ Len(none) = 0
      /\ appended = 0 /\ lastPrinted = 0
  BY DEF Init
<1> HIDE DEF none
<1>2. ~AwaitsAnswer(drv.tx) /\ ~CausesLine(rx)
  BY <1>1 DEF AwaitsAnswer, CausesLine
<1>3. Behind
  BY <1>1 DEF Behind, Front
<1> QED
  BY <1>2, <1>3, NothingInFlight DEF InStep

(* The next line the printer executes is the head of the buffer. *)
LEMMA LineIsFront ==
  ASSUME Inductive, Numbered, Flight(drv, rx, lastPrinted),
         drv.tx # <<>>, Line(Head(drv.tx))
  PROVE  /\ Going /\ drv.buffer # <<>>
         /\ Head(drv.tx).line = Head(drv.buffer)
         /\ Head(drv.buffer) = Front(drv, appended)
<1>1. drv \in Driver /\ drv.tx \in Seq(Code) /\ appended \in Nat
      /\ EndsAt(drv.buffer, appended)
  BY DEF Inductive, TypeOK, Driver, Numbered
<1>2. Len(drv.tx) \in Nat /\ Len(drv.tx) # 0 /\ Head(drv.tx) = drv.tx[1]
  BY <1>1, RemainingCodes
<1>3. Owes(drv.tx[1]) /\ 1 \in 1..Len(drv.tx)
  BY <1>2 DEF Line, Owes
<1>4. drv.tx[1] = IF Going THEN LineCode(Head(drv.buffer)) ELSE M104
  BY <1>3 DEF Flight, Going
<1>5. Going
  BY <1>2, <1>4 DEF Line, M104
<1>6. Head(drv.tx).line = Head(drv.buffer)
  BY <1>2, <1>4, <1>5 DEF LineCode
<1>7. drv.buffer # <<>>
  BY <1>5 DEF Inductive, PrintingHasLine, Going
<1>8. Head(drv.buffer) = Front(drv, appended)
  BY <1>1, <1>7, FrontFacts
<1> QED
  BY <1>5, <1>6, <1>7, <1>8

LEMMA BehindStep ==
  ASSUME Inductive, Inductive', Numbered, Numbered', Kind, InStep, quiet
  PROVE  Behind'
<1> DEFINE f == Front(drv, appended)  g == Front(drv', appended')
<1>1. f <= g
  BY FrontAdvances
<1>2. f \in Nat /\ g \in Nat /\ lastPrinted \in Nat /\ lastPrinted' \in Nat
  <2>1. drv \in Driver /\ appended \in Nat /\ EndsAt(drv.buffer, appended)
    BY DEF Inductive, TypeOK, Numbered
  <2>2. drv' \in Driver /\ appended' \in Nat /\ EndsAt(drv'.buffer, appended')
    BY DEF Inductive, TypeOK, Numbered
  <2> QED
    BY <2>1, <2>2, FrontFacts DEF Inductive, TypeOK
<1>3. lastPrinted <= f
  BY DEF InStep, Behind
<1>4. lastPrinted' = lastPrinted \/ lastPrinted' = f
  <2>1. ASSUME NEW reply \in {"T", "ok"}, Executed(reply)
        PROVE  lastPrinted' = lastPrinted \/ lastPrinted' = f
    <3>1. CASE ~Line(Head(drv.tx))
      BY <2>1, <3>1 DEF Executed
    <3>2. CASE Line(Head(drv.tx))
      <4>1. Flight(drv, rx, lastPrinted) /\ drv.tx # <<>>
        BY <2>1 DEF Executed, InStep
      <4> QED
        BY <2>1, <3>2, <4>1, LineIsFront DEF Executed
    <3> QED
      BY <3>1, <3>2
  <2>2. ASSUME NEW k \in Nat, Appends(k) \/ Stops(k)
        PROVE  lastPrinted' = lastPrinted
    BY <2>2 DEF Appends, Stops
  <2>3. CASE Clears \/ Starts \/ Heats \/ Asks
    BY <2>3 DEF Clears, Starts, Heats, Asks
  <2>4. CASE Acknowledged \/ Rejected \/ Passed \/ Lost
    BY <2>4 DEF Acknowledged, Rejected, Passed, Lost, Reads
  <2>5. CASE Refused \/ Reports \/ Resets \/ Rests
    BY <2>5 DEF Refused, Reports, Resets, Rests
  <2> QED
    BY <2>1, <2>2, <2>3, <2>4, <2>5 DEF Kind
<1> HIDE DEF f, g
<1>5. lastPrinted' <= g
  BY ONLY <1>1, <1>2, <1>3, <1>4
<1> QED
  BY <1>5 DEF Behind, g

LEMMA FlightStep ==
  ASSUME Inductive, Inductive', Numbered, Kind, InStep, quiet, ~exited, ~exited'
  PROVE  Flight(drv', rx', lastPrinted')
<1>1. /\ drv \in Driver /\ drv' \in Driver /\ rx \in Seq(Reply)
      /\ drv.tx \in Seq(Code) /\ drv.buffer \in Seq(Nat)
  BY DEF Inductive, TypeOK, Driver
<1>2. Flight(drv, rx, lastPrinted)
  BY DEF InStep
<1>3. ASSUME NEW k \in Nat, Appends(k)
      PROVE  Flight(drv', rx', lastPrinted')
  <2>1. /\ drv'.tx = drv.tx /\ rx' = rx /\ lastPrinted' = lastPrinted
        /\ drv'.state \in Printing <=> drv.state \in Printing
        /\ drv'.buffer = drv.buffer \o NewLines(k)
    BY <1>3 DEF Appends, SameCodes, Going
  <2>2. ASSUME drv.state \in Printing
        PROVE  Head(drv'.buffer) = Head(drv.buffer)
    <3> DEFINE b == drv.buffer  lines == NewLines(k)
    <3>1. lines \in Seq(Nat) /\ b \in Seq(Nat) /\ b # <<>>
      BY <1>1, <2>2, NewLinesFacts DEF Inductive, TypeOK, PrintingHasLine
    <3>2. drv'.buffer = b \o lines
      BY <2>1
    <3> HIDE DEF b, lines
    <3>3. Head(b \o lines) = Head(b)
      BY ONLY <3>1
    <3> QED
      BY <3>2, <3>3 DEF b
  <2> QED
    BY <1>2, <2>1, <2>2, FlightOfLike
<1>4. ASSUME NEW k \in Nat, Stops(k)
      PROVE  Flight(drv', rx', lastPrinted')
  <2>1. Sends(drv.tx, drv') /\ ~AwaitsAnswer(drv.tx) /\ ~CausesLine(rx) /\ rx' = rx
    BY <1>4 DEF Stops, MayCommand, Owed
  <2> QED
    BY <1>1, <2>1, SendsFlight
<1>5. CASE Clears
  <2>1. drv'.tx = drv.tx /\ rx' = rx /\ ~AwaitsAnswer(drv.tx) /\ ~CausesLine(rx)
    BY <1>5 DEF Clears, MayCommand, Owed, SameCodes
  <2>2. ~AwaitsAnswer(drv'.tx) /\ ~CausesLine(rx')
    BY <2>1
  <2> QED
    BY <2>2, NothingInFlight
<1>6. CASE Starts
  <2>1. Sends(drv.tx, drv') /\ ~AwaitsAnswer(drv.tx) /\ ~CausesLine(rx) /\ rx' = rx
    BY <1>6 DEF Starts, MayCommand, Owed
  <2> QED
    BY <1>1, <2>1, SendsFlight
<1>7. CASE Heats
  <2>1. /\ drv'.tx = Append(drv.tx, M104) /\ drv'.state \notin Printing
        /\ ~AwaitsAnswer(drv.tx) /\ ~CausesLine(rx) /\ rx' = rx
    BY <1>7 DEF Heats, MayCommand, Owed, SameDriver, Going
  <2> QED
    BY <1>1, <2>1, FlightWithHeat
<1>8. CASE Asks
  <2>1. /\ drv'.tx = Append(drv.tx, M105) /\ drv'.buffer = drv.buffer
        /\ drv'.state \in Printing <=> drv.state \in Printing
        /\ rx' = rx /\ lastPrinted' = lastPrinted
    BY <1>8 DEF Asks, SameDriver, SameBuffer, Going
  <2> QED
    BY <1>1, <1>2, <2>1, FlightWithCheck
<1>9. CASE Acknowledged
  <2>1. rx # <<>> /\ rx' = Tail(rx) /\ Causes(Head(rx)) /\ Sends(drv.tx, drv')
    BY <1>9 DEF Acknowledged, Reads, Causes
  <2>2. ~AwaitsAnswer(drv.tx) /\ ~CausesLine(rx')
    BY <1>1, <1>2, <2>1, FlightAfterReply
  <2> QED
    BY <1>1, <2>1, <2>2, SendsFlight
<1>10. CASE Rejected
  <2>1. rx # <<>> /\ rx' = Tail(rx) /\ Head(rx) = "Resend"
    BY <1>10 DEF Rejected, Reads
  <2>2. Going
    <3>1. 1 \in 1..Len(rx) /\ Head(rx) = rx[1]
      BY <1>1, <2>1, RemainingCodes
    <3> QED
      BY <1>2, <2>1, <3>1 DEF Flight, Going
  <2>3. Sends(drv.tx, drv') /\ Causes(Head(rx))
    BY <1>10, <2>1, <2>2 DEF Rejected, Causes
  <2>4. ~AwaitsAnswer(drv.tx) /\ ~CausesLine(rx')
    BY <1>1, <1>2, <2>1, <2>3, FlightAfterReply
  <2> QED
    BY <1>1, <2>3, <2>4, SendsFlight
<1>11. CASE Passed
  <2>1. /\ rx # <<>> /\ rx' = Tail(rx) /\ lastPrinted' = lastPrinted
        /\ drv'.tx = drv.tx /\ drv'.buffer = drv.buffer
        /\ drv'.state \in Printing <=> drv.state \in Printing
    BY <1>11 DEF Passed, Reads, SameDriver, SameBuffer, SameCodes, Going
  <2>2. Flight(drv, rx', lastPrinted')
    BY <1>1, <1>2, <2>1, FlightAfterReply
  <2> QED
    BY <2>1, <2>2, FlightOfLike
<1>12. ASSUME NEW reply \in {"T", "ok"}, Executed(reply)
       PROVE  Flight(drv', rx', lastPrinted')
  <2>1. /\ drv.tx # <<>> /\ drv'.tx = Tail(drv.tx) /\ drv'.buffer = drv.buffer
        /\ drv'.state \in Printing <=> drv.state \in Printing
        /\ rx' = Append(rx, reply)
    BY <1>12 DEF Executed, SameDriver, SameBuffer, Going
  <2>2. Owes(Head(drv.tx)) \/ (~Causes(reply) /\ lastPrinted' = lastPrinted)
    <3> SUFFICES ASSUME ~Owes(Head(drv.tx))
                 PROVE  ~Causes(reply) /\ lastPrinted' = lastPrinted
      OBVIOUS
    <3>1. reply = "T" /\ Head(drv.tx).kind = "M105"
      BY <1>12 DEF Executed, Owes
    <3>2. ~Causes(reply) /\ ~Line(Head(drv.tx))
      BY <3>1 DEF Causes, Line
    <3> QED
      BY <1>12, <3>2 DEF Executed
  <2>3. ASSUME drv.state \in Printing, reply = "ok"
        PROVE  lastPrinted' = Head(drv.tx).line
    <3>1. Owes(Head(drv.tx))
      BY <1>12, <2>3 DEF Executed
    <3>2. 1 \in 1..Len(drv.tx) /\ Head(drv.tx) = drv.tx[1]
      BY <1>1, <2>1, RemainingCodes
    <3>3. Head(drv.tx) = LineCode(Head(drv.buffer))
      BY <1>2, <2>3, <3>1, <3>2 DEF Flight
    <3>4. Line(Head(drv.tx))
      BY <3>3 DEF Line, LineCode
    <3> QED
      BY <1>12, <3>4 DEF Executed
  <2>4. reply \in Reply /\ (reply = "Resend" => drv.state \in Printing)
    BY DEF Reply
  <2>5. reply = "ok" /\ drv.state \in Printing => lastPrinted' = Head(drv.tx).line
    BY <2>3
  <2> QED
    BY ONLY <1>1, <1>2, <2>1, <2>2, <2>4, <2>5, FlightAnswered
<1>13. CASE Refused
  <2>1. /\ drv.tx # <<>> /\ drv'.tx = Tail(drv.tx) /\ drv'.buffer = drv.buffer
        /\ drv'.state \in Printing <=> drv.state \in Printing
        /\ rx' = Append(rx, "Resend") /\ Line(Head(drv.tx))
    BY <1>13 DEF Refused, SameDriver, SameBuffer, Going
  <2>2. Owes(Head(drv.tx))
    BY <2>1 DEF Owes, Line
  <2>3. drv.state \in Printing
    BY <1>2, <2>1, LineIsFront DEF Going
  <2>4. "Resend" \in Reply /\ "Resend" # "ok"
    BY DEF Reply
  <2> QED
    BY <1>1, <1>2, <2>1, <2>2, <2>3, <2>4, FlightAnswered
<1>14. CASE Reports
  <2>1. drv' = drv /\ rx' = Append(rx, "T") /\ lastPrinted' = lastPrinted
    BY <1>14 DEF Reports
  <2>2. "T" \in Reply /\ ~Causes("T")
    BY DEF Reply, Causes
  <2> QED
    BY <1>1, <1>2, <2>1, <2>2, FlightWithReport
<1>15. CASE Resets
  <2> DEFINE none == <<>>  cut == [drv EXCEPT !.tx = none]
  <2>1. /\ drv'.tx = none /\ rx' = Append(rx, "start") /\ lastPrinted' = lastPrinted
        /\ Len(none) = 0 /\ drv'.buffer = drv.buffer
        /\ drv'.state \in Printing <=> drv.state \in Printing
    BY <1>15 DEF Resets, SameDriver, SameBuffer, Going
  <2> HIDE DEF none, cut
  <2>2. Flight(drv', rx, lastPrinted)
    <3>1. \A i \in 1..Len(drv'.tx) : FALSE
      BY <2>1
    <3>2. OneInFlight(drv'.tx, rx)
      BY <1>2, <3>1 DEF Flight, OneInFlight
    <3> QED
      BY <1>2, <2>1, <3>1, <3>2 DEF Flight
  <2>3. "start" \in Reply /\ ~Causes("start")
    BY DEF Reply, Causes
  <2> QED
    BY <1>1, <2>1, <2>2, <2>3, FlightWithReport
<1>16. CASE Rests
  BY <1>2, <1>16 DEF Rests
<1>17. CASE Lost
  BY <1>17 DEF Lost
<1> QED
  BY <1>3, <1>4, <1>5, <1>6, <1>7, <1>8, <1>9, <1>10, <1>11, <1>12, <1>13,
     <1>14, <1>15, <1>16, <1>17 DEF Kind

LEMMA KeepsRunning ==
  ASSUME Kind
  PROVE  quiet' = quiet /\ (~exited' => ~exited)
BY DEF Kind, Appends, Stops, Clears, Starts, Heats, Asks, Acknowledged, Rejected, Passed,
       Reads, Lost, Executed, Refused, Reports, Resets, Rests, Others

LEMMA InStepStep ==
  ASSUME Inductive, Inductive', Numbered, Numbered', InStep, Kind
  PROVE  InStep'
<1> SUFFICES ASSUME quiet'
             PROVE  Behind' /\ (~exited' => Flight(drv', rx', lastPrinted'))
  BY DEF InStep
<1>1. quiet /\ (~exited' => ~exited)
  BY KeepsRunning
<1> QED
  BY <1>1, BehindStep, FlightStep

-----------------------------------------------------------------------------
(* The driver is a print job. *)

ReadyToPrint == Inductive /\ Numbered /\ InStep

LEMMA ReadyInit == Init => ReadyToPrint
BY InductiveInit, NumberedInit, InStepInit DEF ReadyToPrint

LEMMA ReadyStep == ReadyToPrint /\ [Next]_vars => ReadyToPrint'
<1> SUFFICES ASSUME ReadyToPrint, [Next]_vars
             PROVE  ReadyToPrint'
  OBVIOUS
<1>1. Inductive /\ Numbered /\ InStep
  BY DEF ReadyToPrint
<1>2. Inductive'
  BY <1>1, InductiveStep
<1>3. Kind
  BY <1>1, StepKinds
<1>4. Numbered'
  BY <1>1, <1>2, <1>3, NumberedStep
<1>5. InStep'
  BY <1>1, <1>2, <1>3, <1>4, InStepStep
<1> QED
  BY <1>2, <1>4, <1>5 DEF ReadyToPrint

(* What is unprinted, of a buffer whose lines end with the one appended    *)
(* last: its head has been printed, or none of its lines has.              *)
Left(buffer, printed) ==
  IF buffer # <<>> /\ Head(buffer) = printed THEN Tail(buffer) ELSE buffer

LEMMA UnprintedIsLeft == Unprinted = Left(drv.buffer, lastPrinted)
BY DEF Unprinted, Left

LEMMA HeadOfConcat ==
  ASSUME NEW b \in Seq(Nat), NEW lines \in Seq(Nat), b # <<>>
  PROVE  /\ b \o lines # <<>> /\ Head(b \o lines) = Head(b)
         /\ Tail(b \o lines) = Tail(b) \o lines
<1>1. Len(b) \in Nat /\ Len(lines) \in Nat /\ Len(b) # 0
  BY EmptySeq
<1>2. b \o lines # <<>> /\ Head(b \o lines) = Head(b)
  OBVIOUS
<1> DEFINE s == Tail(b \o lines)  t == Tail(b) \o lines
           n == Len(b) + Len(lines) - 1
<1>3. s \in Seq(Nat) /\ t \in Seq(Nat) /\ Len(s) = n /\ Len(t) = n /\ n \in Nat
  BY <1>1, <1>2
<1>4. ASSUME NEW i \in 1..n
      PROVE  s[i] = t[i]
  <2>1. s[i] = (b \o lines)[i + 1]
    BY <1>1, <1>2
  <2>2. CASE i + 1 <= Len(b)
    BY <1>1, <2>1, <2>2
  <2>3. CASE ~(i + 1 <= Len(b))
    BY <1>1, <2>1, <2>3
  <2> QED
    BY <2>2, <2>3
<1> HIDE DEF s, t, n
<1>5. s = t
  BY <1>3, <1>4, SeqEqual
<1> QED
  BY <1>2, <1>5 DEF s, t

LEMMA LeftAppended ==
  ASSUME NEW b \in Seq(Nat), NEW lines \in Seq(Nat), NEW printed \in Nat,
         b = <<>> /\ lines # <<>> => Head(lines) # printed
  PROVE  Left(b \o lines, printed) = Left(b, printed) \o lines
<1>1. CASE b = <<>>
  <2> DEFINE none == <<>>
  <2>1. none \o lines = lines
    BY ConcatEmptySeq
  <2>2. b = none /\ (none = <<>>)
    BY <1>1
  <2> HIDE DEF none
  <2>3. b \o lines = lines /\ Left(b, printed) = b
    BY <2>1, <2>2 DEF Left
  <2> QED
    BY <1>1, <2>3 DEF Left
<1>2. CASE b # <<>>
  BY <1>2, HeadOfConcat DEF Left
<1> QED
  BY <1>1, <1>2

LEMMA ReadyFacts ==
  ASSUME ReadyToPrint, quiet
  PROVE  /\ drv \in Driver /\ drv.buffer \in Seq(Nat) /\ drv.tx \in Seq(Code)
         /\ rx \in Seq(Reply) /\ lastPrinted \in Nat /\ executions \in Nat
         /\ appended \in Nat
         /\ EndsAt(drv.buffer, appended)
         /\ lastPrinted <= Front(drv, appended) /\ Front(drv, appended) <= appended
         /\ Front(drv, appended) \in Nat
         /\ drv.buffer # <<>> => Head(drv.buffer) = Front(drv, appended)
         /\ ~exited => Flight(drv, rx, lastPrinted)
<1>1. /\ drv \in Driver /\ drv.buffer \in Seq(Nat) /\ drv.tx \in Seq(Code)
      /\ rx \in Seq(Reply) /\ lastPrinted \in Nat /\ executions \in Nat
      /\ appended \in Nat
  BY DEF ReadyToPrint, Inductive, TypeOK, Driver
<1>2. EndsAt(drv.buffer, appended) /\ lastPrinted <= Front(drv, appended)
      /\ (~exited => Flight(drv, rx, lastPrinted))
  BY DEF ReadyToPrint, Numbered, InStep, Behind
<1>3. /\ Front(drv, appended) <= appended /\ Front(drv, appended) \in Nat
      /\ drv.buffer # <<>> => Head(drv.buffer) = Front(drv, appended)
  BY <1>1, <1>2, FrontFacts
<1> QED
  BY <1>1, <1>2, <1>3

(* With quiet clients a line that has been executed and is still in the    *)
(* buffer is the line of a print, and its acknowledgement has not been     *)
(* read.  So no command can send it again.                                 *)
Acknowledging(d, answers, printed) ==
  (d.buffer # <<>> /\ printed = Head(d.buffer)) =>
    d.state \in Printing /\ \E i \in 1..Len(answers) : answers[i] = "ok"

NoneAgain == (quiet /\ ~exited) => Acknowledging(drv, rx, lastPrinted)

LEMMA NoneAgainInit == Init => NoneAgain
<1> SUFFICES ASSUME Init PROVE NoneAgain
  OBVIOUS
<1> DEFINE none == <<>>
<1>1. drv.buffer = none
  BY DEF Init
<1> QED
  BY <1>1 DEF NoneAgain, Acknowledging

(* A reply more, and the driver as before *)
LEMMA AcknowledgingMore ==
  ASSUME Acknowledging(drv, rx, lastPrinted), rx \in Seq(Reply), NEW reply \in Reply,
         drv'.buffer = drv.buffer, Going' <=> Going, lastPrinted' = lastPrinted,
         rx' = Append(rx, reply)
  PROVE  Acknowledging(drv', rx', lastPrinted')
<1> SUFFICES ASSUME drv'.buffer # <<>>, lastPrinted' = Head(drv'.buffer)
             PROVE  Going' /\ \E i \in 1..Len(rx') : rx'[i] = "ok"
  BY DEF Acknowledging, Going
<1>1. Going /\ \E i \in 1..Len(rx) : rx[i] = "ok"
  BY DEF Acknowledging, Going
<1>2. PICK i \in 1..Len(rx) : rx[i] = "ok"
  BY <1>1
<1>3. Len(rx') = Len(rx) + 1 /\ Len(rx) \in Nat /\ rx'[i] = rx[i]
  BY AppendedCodes
<1>4. i \in 1..Len(rx')
  BY <1>3
<1> QED
  BY <1>1, <1>2, <1>3, <1>4

(* The first reply has been read, and it was not the acknowledgement. *)
LEMMA AcknowledgingLess ==
  ASSUME Acknowledging(drv, rx, lastPrinted), rx \in Seq(Reply), rx # <<>>,
         Head(rx) # "ok" \/ ~Going,
         drv'.buffer = drv.buffer, Going => Going', lastPrinted' = lastPrinted,
         rx' = Tail(rx)
  PROVE  Acknowledging(drv', rx', lastPrinted')
<1> SUFFICES ASSUME drv'.buffer # <<>>, lastPrinted' = Head(drv'.buffer)
             PROVE  Going' /\ \E i \in 1..Len(rx') : rx'[i] = "ok"
  BY DEF Acknowledging, Going
<1>1. Going /\ \E i \in 1..Len(rx) : rx[i] = "ok"
  BY DEF Acknowledging, Going
<1>2. PICK i \in 1..Len(rx) : rx[i] = "ok"
  BY <1>1
<1>3. /\ Len(rx') = Len(rx) - 1 /\ Len(rx) \in Nat /\ Head(rx) = rx[1]
      /\ \A j \in 1..Len(rx') : rx'[j] = rx[j + 1]
  BY RemainingCodes
<1>4. i # 1
  BY <1>1, <1>2, <1>3
<1>5. i - 1 \in 1..Len(rx') /\ (i - 1) + 1 = i
  BY <1>3, <1>4
<1>6. rx'[i - 1] = "ok"
  BY <1>2, <1>3, <1>5
<1> QED
  BY <1>1, <1>5, <1>6

(* New lines have not been executed. *)
LEMMA NewLineIsNew ==
  ASSUME ReadyToPrint, quiet, NEW k \in Nat, NewLines(k) # <<>>
  PROVE  Head(NewLines(k)) # lastPrinted
<1> DEFINE lines == NewLines(k)
<1>1. appended \in Nat /\ lastPrinted \in Nat /\ lastPrinted <= appended
  BY ReadyFacts
<1>2. /\ lines \in Seq(Nat) /\ Len(lines) = k /\ \A i \in 1..k : lines[i] = appended + i
  BY <1>1, NewLinesFacts
<1> HIDE DEF lines
<1>3. lines # <<>>
  BY DEF lines
<1>4. k # 0
  BY <1>2, <1>3, EmptySeq
<1>5. Head(lines) = appended + 1
  BY <1>2, <1>3, <1>4
<1> QED
  BY <1>1, <1>5 DEF lines

(* A command that waits for what is owed finds no executed line in the     *)
(* buffer.                                                                 *)
LEMMA CommandFindsNew ==
  ASSUME quiet, MayCommand, NoneAgain
  PROVE  ~(drv.buffer # <<>> /\ lastPrinted = Head(drv.buffer))
<1>1. ~exited /\ ~CausesLine(rx)
  BY DEF MayCommand, Owed
<1>2. ~\E i \in 1..Len(rx) : rx[i] = "ok"
  BY <1>1 DEF CausesLine
<1> QED
  BY <1>1, <1>2 DEF NoneAgain, Acknowledging

(* The line on its way is not one that has been executed. *)
LEMMA LineIsNew ==
  ASSUME ReadyToPrint, NoneAgain, quiet, ~exited, drv.tx # <<>>, Line(Head(drv.tx))
  PROVE  Head(drv.buffer) # lastPrinted
<1>1. /\ Flight(drv, rx, lastPrinted) /\ drv.tx \in Seq(Code)
  BY ReadyFacts
<1>2. Going /\ drv.buffer # <<>>
  BY <1>1, LineIsFront DEF ReadyToPrint
<1>3. 1 \in 1..Len(drv.tx) /\ Head(drv.tx) = drv.tx[1]
  BY <1>1, RemainingCodes
<1>4. Owes(drv.tx[1])
  BY <1>3 DEF Line, Owes
<1>5. \A j \in 1..Len(rx) : ~Causes(rx[j])
  BY <1>1, <1>3, <1>4 DEF Flight, OneInFlight
<1>6. ~\E j \in 1..Len(rx) : rx[j] = "ok"
  BY <1>5 DEF Causes
<1> QED
  BY <1>2, <1>6 DEF NoneAgain, Acknowledging

(* A line that is acknowledged leaves the buffer, and the next is new. *)
LEMMA NextIsNew ==
  ASSUME ReadyToPrint, quiet, Acknowledged
  PROVE  /\ drv.buffer # <<>> /\ lastPrinted = Head(drv.buffer)
         /\ Tail(drv.buffer) # <<>> => Head(Tail(drv.buffer)) # lastPrinted
<1> DEFINE b == drv.buffer  n == Len(b)
<1>1. /\ b \in Seq(Nat) /\ appended \in Nat /\ rx \in Seq(Reply)
      /\ EndsAt(b, appended) /\ ~exited /\ rx # <<>> /\ Head(rx) = "ok" /\ Going
      /\ Flight(drv, rx, lastPrinted)
  BY ReadyFacts DEF Acknowledged, Reads
<1>2. b # <<>>
  BY <1>1 DEF ReadyToPrint, Inductive, PrintingHasLine, Going
<1>3. lastPrinted = Head(b)
  <2>1. 1 \in 1..Len(rx) /\ rx[1] = "ok"
    BY <1>1, RemainingCodes
  <2> QED
    BY <1>1, <2>1 DEF Flight, Going
<1>4. n \in Nat /\ EndsAt(b, appended)
  BY <1>1
<1> HIDE DEF b
<1>5. n <= appended /\ \A i \in 1..n : b[i] = appended - n + i
  BY <1>4 DEF EndsAt
<1> DEFINE t == Tail(b)
<1>6. /\ t \in Seq(Nat) /\ Len(t) = n - 1 /\ n # 0 /\ Head(b) = b[1]
      /\ \A i \in 1..Len(t) : t[i] = b[i + 1] /\ i + 1 \in 1..n
  BY <1>1, <1>2, RemainingCodes
<1> HIDE DEF t
<1>7. ASSUME t # <<>> PROVE Head(t) # Head(b)
  <2>1. Len(t) # 0 /\ Head(t) = t[1]
    BY <1>6, <1>7, EmptySeq
  <2>2. 1 \in 1..Len(t) /\ 1 + 1 \in 1..n /\ 1 \in 1..n /\ t[1] = b[1 + 1]
    BY <1>4, <1>5, <1>6, <2>1
  <2> HIDE DEF n
  <2>3. b[1 + 1] = appended - n + (1 + 1) /\ b[1] = appended - n + 1
    BY <1>5, <2>2
  <2> QED
    BY <1>1, <1>4, <1>5, <1>6, <2>1, <2>2, <2>3
<1> QED
  BY <1>2, <1>3, <1>7 DEF b, t

LEMMA NoneAgainStep ==
  ASSUME ReadyToPrint, ReadyToPrint', NoneAgain, Kind, QueryLines = {}
  PROVE  NoneAgain'
<1> SUFFICES ASSUME quiet', ~exited'
             PROVE  Acknowledging(drv', rx', lastPrinted')
  BY DEF NoneAgain
<1>1. quiet /\ ~exited
  BY KeepsRunning
<1>2. Acknowledging(drv, rx, lastPrinted)
  BY <1>1 DEF NoneAgain
<1>3. rx \in Seq(Reply) /\ drv.buffer \in Seq(Nat) /\ lastPrinted \in Nat
      /\ Flight(drv, rx, lastPrinted)
  BY <1>1, ReadyFacts
<1>4. ASSUME NEW k \in Nat, Appends(k)
      PROVE  Acknowledging(drv', rx', lastPrinted')
  <2> DEFINE lines == NewLines(k)
  <2>1. /\ drv'.buffer = drv.buffer \o lines /\ (Going' <=> Going)
        /\ rx' = rx /\ lastPrinted' = lastPrinted
    BY <1>4 DEF Appends
  <2>2. appended \in Nat
    BY <1>1, ReadyFacts
  <2>3. lines \in Seq(Nat) /\ (lines # <<>> => Head(lines) # lastPrinted)
    BY <1>1, <2>2, NewLinesFacts, NewLineIsNew
  <2> HIDE DEF lines
  <2>4. CASE drv.buffer = <<>>
    <3>1. drv.buffer \o lines = lines
      BY <2>3, <2>4, ConcatEmptySeq
    <3> QED
      BY <2>1, <2>3, <3>1 DEF Acknowledging
  <2>5. CASE drv.buffer # <<>>
    <3>1. Head(drv'.buffer) = Head(drv.buffer)
      BY <1>3, <2>1, <2>3, <2>5, HeadOfConcat
    <3> QED
      BY <1>2, <2>1, <2>5, <3>1 DEF Acknowledging, Going
  <2> QED
    BY <2>4, <2>5
<1>5. ASSUME NEW k \in Nat, Stops(k)
      PROVE  Acknowledging(drv', rx', lastPrinted')
  BY <1>1, <1>5, NewLineIsNew DEF Stops, Acknowledging
<1>6. CASE Clears
  BY <1>6 DEF Clears, Acknowledging
<1>7. CASE Starts \/ Heats
  <2>1. drv'.buffer = drv.buffer /\ lastPrinted' = lastPrinted /\ MayCommand
    BY <1>7 DEF Starts, Heats, SameDriver, SameBuffer
  <2> QED
    BY <1>1, <2>1, CommandFindsNew DEF Acknowledging
<1>8. CASE Asks \/ Rests
  BY <1>2, <1>8 DEF Asks, Rests, SameDriver, SameBuffer, Acknowledging, Going
<1>9. CASE Refused \/ Reports \/ Resets
  <2>1. PICK reply \in Reply : rx' = Append(rx, reply)
    BY <1>9 DEF Refused, Reports, Resets, Reply
  <2>2. drv'.buffer = drv.buffer /\ (Going' <=> Going) /\ lastPrinted' = lastPrinted
    BY <1>9 DEF Refused, Reports, Resets, SameDriver, SameBuffer, Going
  <2> QED
    BY <1>2, <1>3, <2>1, <2>2, AcknowledgingMore
<1>10. CASE Acknowledged
  <2>1. drv'.buffer = Tail(drv.buffer) /\ lastPrinted' = lastPrinted
    BY <1>10 DEF Acknowledged, Reads
  <2> QED
    BY <1>1, <1>10, <2>1, NextIsNew DEF Acknowledging
<1>11. CASE Rejected
  <2>1. /\ rx # <<>> /\ Head(rx) = "Resend" /\ drv'.buffer = drv.buffer
        /\ lastPrinted' = lastPrinted
    BY <1>11 DEF Rejected, Reads, SameBuffer
  <2>2. 1 \in 1..Len(rx) /\ Causes(rx[1]) /\ rx[1] # "ok"
    BY <1>3, <2>1, RemainingCodes DEF Causes
  <2>3. \A i \in 1..Len(rx) : rx[i] # "ok"
    BY <1>3, <2>2 DEF Flight, OneInFlight, Causes
  <2> QED
    BY <1>2, <2>1, <2>3 DEF Acknowledging
<1>12. CASE Passed
  <2>1. /\ rx # <<>> /\ rx' = Tail(rx) /\ drv'.buffer = drv.buffer /\ (Going' <=> Going)
        /\ lastPrinted' = lastPrinted /\ (Causes(Head(rx)) => ~Going)
    BY <1>12 DEF Passed, Reads, SameDriver, SameBuffer
  <2>2. Head(rx) # "ok" \/ ~Going
    BY <2>1 DEF Causes
  <2> QED
    BY <1>2, <1>3, <2>1, <2>2, AcknowledgingLess
<1>13. ASSUME NEW reply \in {"T", "ok"}, Executed(reply)
       PROVE  Acknowledging(drv', rx', lastPrinted')
  <2>1. /\ drv.tx # <<>> /\ rx' = Append(rx, reply)
        /\ drv'.buffer = drv.buffer /\ (Going' <=> Going)
    BY <1>13 DEF Executed, SameDriver, SameBuffer
  <2>2. reply \in Reply
    BY DEF Reply
  <2>3. CASE ~Line(Head(drv.tx))
    <3>1. lastPrinted' = lastPrinted
      BY <1>13, <2>3 DEF Executed
    <3> QED
      BY <1>2, <1>3, <2>1, <2>2, <3>1, AcknowledgingMore
  <2>4. CASE Line(Head(drv.tx))
    <3>1. reply = "ok"
      BY <1>13, <2>4 DEF Executed
    <3>2. Going
      BY <1>3, <2>1, <2>4, LineIsFront DEF ReadyToPrint
    <3>3. Len(rx') = Len(rx) + 1 /\ Len(rx) \in Nat /\ rx'[Len(rx) + 1] = "ok"
      BY <1>3, <2>1, <2>2, <3>1, AppendedCodes
    <3>4. \E i \in 1..Len(rx') : rx'[i] = "ok"
      BY <3>3
    <3> QED
      BY <2>1, <3>2, <3>4 DEF Acknowledging, Going
  <2> QED
    BY <2>3, <2>4
<1>14. ~Lost
  BY DEF Lost
<1> QED
  BY <1>4, <1>5, <1>6, <1>7, <1>8, <1>9, <1>10, <1>11, <1>12, <1>13, <1>14 DEF Kind

(* What a step is for the print job, while clients are quiet *)
JobReceives(k) == /\ k # 0 /\ Unprinted' = Unprinted \o NewLines(k)
                  /\ appended' = appended + k
                  /\ UNCHANGED <<lastPrinted, executions>>
JobReplaces(k) == /\ Unprinted' = NewLines(k)
                  /\ appended' = appended + k
                  /\ UNCHANGED <<lastPrinted, executions>>
JobPrints      == /\ Unprinted # <<>> /\ Unprinted' = Tail(Unprinted)
                  /\ lastPrinted' = Head(Unprinted) /\ executions' = executions + 1
                  /\ appended' = appended
JobRests       == UNCHANGED <<Unprinted, appended, lastPrinted, executions>>

JobGoesOn == \/ \E k \in Nat : JobReceives(k) \/ JobReplaces(k)
             \/ JobPrints \/ JobRests

LEMMA AppendsToJob ==
  ASSUME ReadyToPrint, quiet, NEW k \in Nat, Appends(k)
  PROVE  JobGoesOn
<1> DEFINE b == drv.buffer  lines == NewLines(k)
<1>1. /\ b \in Seq(Nat) /\ appended \in Nat /\ lastPrinted \in Nat
      /\ lastPrinted <= appended
  BY ReadyFacts
<1>2. /\ lines \in Seq(Nat) /\ Len(lines) = k /\ \A i \in 1..k : lines[i] = appended + i
  BY <1>1, NewLinesFacts
<1>3. /\ drv'.buffer = b \o lines /\ appended' = appended + k
      /\ UNCHANGED <<lastPrinted, executions>>
  BY DEF Appends
<1> HIDE DEF b, lines
<1>4. ASSUME lines # <<>> PROVE Head(lines) # lastPrinted
  BY <1>4, NewLineIsNew DEF lines
<1>5. Left(b \o lines, lastPrinted) = Left(b, lastPrinted) \o lines
  BY <1>1, <1>2, <1>4, LeftAppended
<1>6. Unprinted' = Left(b \o lines, lastPrinted) /\ Unprinted = Left(b, lastPrinted)
  BY <1>3, UnprintedIsLeft DEF Unprinted, Left, b
<1>7. CASE k # 0
  <2>1. JobReceives(k)
    BY <1>3, <1>5, <1>6, <1>7 DEF JobReceives, lines
  <2> QED
    BY <2>1 DEF JobGoesOn
<1>8. CASE k = 0
  <2>1. lines = <<>>
    BY <1>2, <1>8, EmptySeq
  <2>2. b \o lines = b
    BY <1>1, <2>1, ConcatEmptySeq
  <2>3. appended' = appended
    BY <1>1, <1>3, <1>8
  <2>4. JobRests
    BY <1>3, <1>6, <2>2, <2>3 DEF JobRests
  <2> QED
    BY <2>4 DEF JobGoesOn
<1> QED
  BY <1>7, <1>8

LEMMA StopsReplaceJob ==
  ASSUME ReadyToPrint, quiet, NEW k \in Nat, Stops(k)
  PROVE  JobGoesOn
<1> DEFINE lines == NewLines(k)
<1>1. appended \in Nat /\ lastPrinted \in Nat /\ lastPrinted <= appended
  BY ReadyFacts
<1>2. /\ lines \in Seq(Nat) /\ Len(lines) = k /\ \A i \in 1..k : lines[i] = appended + i
  BY <1>1, NewLinesFacts
<1>3. /\ drv'.buffer = lines /\ appended' = appended + k
      /\ UNCHANGED <<lastPrinted, executions>>
  BY DEF Stops
<1> HIDE DEF lines
<1>4. ASSUME lines # <<>> PROVE Head(lines) # lastPrinted
  BY <1>4, NewLineIsNew DEF lines
<1>5. Unprinted' = lines
  BY <1>3, <1>4 DEF Unprinted
<1>6. JobReplaces(k)
  BY <1>3, <1>5 DEF JobReplaces, lines
<1> QED
  BY <1>6 DEF JobGoesOn

LEMMA ClearsReplaceJob ==
  ASSUME ReadyToPrint, quiet, Clears
  PROVE  JobGoesOn
<1>1. appended \in Nat
  BY ReadyFacts
<1>2. /\ drv'.buffer = <<>> /\ appended' = appended
      /\ UNCHANGED <<lastPrinted, executions>>
  BY DEF Clears
<1>3. Unprinted' = <<>>
  BY <1>2 DEF Unprinted
<1>4. 0 \in Nat /\ NewLines(0) \in Seq(Nat) /\ Len(NewLines(0)) = 0
  BY <1>1, NewLinesFacts
<1> DEFINE lines == NewLines(0)
<1>5. lines \in Seq(Nat) /\ Len(lines) = 0
  BY <1>4
<1> HIDE DEF lines
<1>6. lines = <<>>
  BY <1>5, EmptySeq
<1>7. appended' = appended + 0
  BY <1>1, <1>2
<1>8. JobReplaces(0)
  BY <1>2, <1>3, <1>6, <1>7 DEF JobReplaces, lines
<1> QED
  BY <1>4, <1>8 DEF JobGoesOn

LEMMA AcknowledgedRestsJob ==
  ASSUME ReadyToPrint, quiet, Acknowledged
  PROVE  JobRests
<1>1. /\ drv'.buffer = Tail(drv.buffer) /\ appended' = appended
      /\ lastPrinted' = lastPrinted /\ executions' = executions
  BY DEF Acknowledged, Reads, SameLines
<1>2. Unprinted = Tail(drv.buffer) /\ Unprinted' = Tail(drv.buffer)
  BY <1>1, NextIsNew DEF Unprinted
<1> QED
  BY <1>1, <1>2 DEF JobRests

LEMMA ExecutedGoesOn ==
  ASSUME ReadyToPrint, NoneAgain, quiet, NEW reply \in {"T", "ok"}, Executed(reply)
  PROVE  JobPrints \/ JobRests
<1>1. /\ drv'.buffer = drv.buffer /\ appended' = appended /\ drv.tx # <<>> /\ ~exited
      /\ Flight(drv, rx, lastPrinted) /\ executions \in Nat
  BY ReadyFacts DEF Executed, SameDriver, SameBuffer, SameLines
<1>2. CASE ~Line(Head(drv.tx))
  <2>1. lastPrinted' = lastPrinted /\ executions' = executions
    BY <1>1, <1>2 DEF Executed
  <2>2. Unprinted' = Unprinted
    BY <1>1, <2>1 DEF Unprinted
  <2> QED
    BY <1>1, <2>1, <2>2 DEF JobRests
<1>3. CASE Line(Head(drv.tx))
  <2>1. lastPrinted' = Head(drv.tx).line /\ executions' = executions + 1
    BY <1>3 DEF Executed
  <2>2. /\ drv.buffer # <<>> /\ lastPrinted' = Head(drv.buffer)
        /\ Head(drv.buffer) # lastPrinted
    BY <1>1, <1>3, <2>1, LineIsFront, LineIsNew DEF ReadyToPrint
  <2>3. Unprinted = drv.buffer /\ Unprinted' = Tail(drv.buffer)
    BY <1>1, <2>2 DEF Unprinted
  <2> QED
    BY <1>1, <2>1, <2>2, <2>3 DEF JobPrints
<1> QED
  BY <1>2, <1>3

LEMMA KindGoesOn ==
  ASSUME ReadyToPrint, NoneAgain, quiet, Kind
  PROVE  JobGoesOn
<1>1. CASE /\ drv'.buffer = drv.buffer /\ appended' = appended
           /\ lastPrinted' = lastPrinted /\ executions' = executions
  <2>1. Unprinted' = Unprinted
    BY <1>1 DEF Unprinted
  <2> QED
    BY <1>1, <2>1 DEF JobRests, JobGoesOn
<1>2. CASE Starts \/ Heats \/ Asks
  BY <1>1, <1>2 DEF Starts, Heats, Asks, SameDriver, SameBuffer, SameLines
<1>3. CASE Rejected \/ Passed \/ Lost
  BY <1>1, <1>3 DEF Rejected, Passed, Lost, Reads, SameDriver, SameBuffer, SameLines
<1>4. CASE Refused \/ Reports \/ Resets \/ Rests
  BY <1>1, <1>4 DEF Refused, Reports, Resets, Rests, SameDriver, SameBuffer, SameLines
<1>5. CASE \E k \in Nat : Appends(k) \/ Stops(k)
  BY <1>5, AppendsToJob, StopsReplaceJob
<1>6. CASE \E reply \in {"T", "ok"} : Executed(reply)
  BY <1>6, ExecutedGoesOn DEF JobGoesOn
<1>7. CASE Clears
  BY <1>7, ClearsReplaceJob
<1>8. CASE Acknowledged
  BY <1>8, AcknowledgedRestsJob DEF JobGoesOn
<1> QED
  BY <1>2, <1>3, <1>4, <1>5, <1>6, <1>7, <1>8 DEF Kind

LEMMA JobStep ==
  ASSUME ReadyToPrint, NoneAgain, Kind
  PROVE  [Job!Next]_<<IF quiet THEN Unprinted ELSE <<>>,
                      IF quiet THEN appended ELSE 0,
                      IF quiet THEN lastPrinted ELSE 0,
                      IF quiet THEN executions ELSE 0>>
<1> DEFINE todo == IF quiet THEN Unprinted ELSE <<>>
           received == IF quiet THEN appended ELSE 0
           done == IF quiet THEN lastPrinted ELSE 0
           printed == IF quiet THEN executions ELSE 0
<1>1. quiet' = quiet
  BY KeepsRunning
<1>2. CASE ~quiet
  BY <1>1, <1>2
<1>3. CASE quiet
  <2>1. /\ todo = Unprinted /\ todo' = Unprinted'
        /\ received = appended /\ received' = appended'
        /\ done = lastPrinted /\ done' = lastPrinted'
        /\ printed = executions /\ printed' = executions'
    BY <1>1, <1>3
  <2>2. appended \in Nat /\ JobGoesOn
    BY <1>3, ReadyFacts, KindGoesOn
  <2>3. ASSUME NEW k \in Nat, received' = received + k
        PROVE  Job!NewLines(received') = NewLines(k)
    <3>1. received' - received = k
      BY <2>1, <2>2, <2>3
    <3> QED
      BY <2>1, <3>1 DEF Job!NewLines, NewLines
  <2> HIDE DEF todo, received, done, printed
  <2>4. ASSUME NEW k \in Nat, JobReceives(k)
        PROVE  Job!Receive
    <3>1. /\ received' = received + k /\ received' > received
          /\ todo' = todo \o NewLines(k) /\ done' = done /\ printed' = printed
      BY <2>1, <2>2, <2>4 DEF JobReceives
    <3>2. todo' = todo \o Job!NewLines(received')
      BY <2>3, <3>1
    <3> QED
      BY <3>1, <3>2 DEF Job!Receive, todo, received, done, printed
  <2>5. ASSUME NEW k \in Nat, JobReplaces(k)
        PROVE  Job!Replace
    <3>1. /\ received' = received + k /\ received' >= received
          /\ todo' = NewLines(k) /\ done' = done /\ printed' = printed
      BY <2>1, <2>2, <2>5 DEF JobReplaces
    <3>2. todo' = Job!NewLines(received')
      BY <2>3, <3>1
    <3> QED
      BY <3>1, <3>2 DEF Job!Replace, todo, received, done, printed
  <2>6. CASE JobPrints
    <3>1. /\ todo # <<>> /\ done' = Head(todo) /\ printed' = printed + 1
          /\ todo' = Tail(todo) /\ received' = received
      BY <2>1, <2>6 DEF JobPrints
    <3>2. Job!PrintLine
      BY <3>1 DEF Job!PrintLine, todo, received, done, printed
    <3> QED
      BY <3>2 DEF Job!Next
  <2>7. CASE JobRests
    <3>1. /\ todo' = todo /\ done' = done /\ printed' = printed
          /\ received' = received
      BY <2>1, <2>7 DEF JobRests
    <3> QED
      BY <3>1 DEF todo, received, done, printed
  <2> QED
    BY <2>2, <2>4, <2>5, <2>6, <2>7 DEF JobGoesOn, Job!Next
<1> QED
  BY <1>2, <1>3

LEMMA JobInit == Init => Job!Init
<1> SUFFICES ASSUME Init PROVE Job!Init
  OBVIOUS
<1> DEFINE none == <<>>
<1>1. drv.buffer = none /\ appended = 0 /\ lastPrinted = 0 /\ executions = 0
  BY DEF Init
<1>2. Unprinted = none
  BY <1>1 DEF Unprinted
<1> HIDE DEF none
<1> QED
  BY <1>1, <1>2 DEF Job!Init, none

(* With clients that are quiet and a printer that answers no line as it    *)
(* does M105, the driver implements PrintJob: each line the printer        *)
(* executes is the first of those it has not executed, so no line is       *)
(* executed twice and only clear and stop leave lines out, whatever lines  *)
(* readResponseCode() is asked to resend and however often the printer is  *)
(* reset.  Where clients are not quiet the theorem says nothing.           *)
THEOREM ImplementsJob ==
  ASSUME QueryLines = {}
  PROVE  Spec => PrintsAsJob
<1> DEFINE todo == IF quiet THEN Unprinted ELSE <<>>
           received == IF quiet THEN appended ELSE 0
           done == IF quiet THEN lastPrinted ELSE 0
           printed == IF quiet THEN executions ELSE 0
<1>1. ReadyToPrint /\ NoneAgain /\ [Next]_vars => [Job!Next]_<<todo, received, done, printed>>
  <2>1. ASSUME ReadyToPrint, NoneAgain, [Next]_vars
        PROVE  [Job!Next]_<<todo, received, done, printed>>
    <3>1. Kind
      BY <2>1, StepKinds DEF ReadyToPrint
    <3> QED
      BY <2>1, <3>1, JobStep
  <2> QED
    BY <2>1
<1>2. Spec => [](ReadyToPrint /\ NoneAgain)
  <2>1. ReadyToPrint /\ NoneAgain /\ [Next]_vars => ReadyToPrint' /\ NoneAgain'
    <3> SUFFICES ASSUME ReadyToPrint, NoneAgain, [Next]_vars
                 PROVE  ReadyToPrint' /\ NoneAgain'
      OBVIOUS
    <3>1. Kind /\ ReadyToPrint'
      BY ReadyStep, StepKinds DEF ReadyToPrint
    <3> QED
      BY <3>1, NoneAgainStep
  <2> QED
    BY <2>1, ReadyInit, NoneAgainInit, PTL DEF Spec
<1>3. Spec => [][Next]_vars
  BY PTL DEF Spec
<1>4. PrintsAsJob <=> Job!Init /\ [][Job!Next]_<<todo, received, done, printed>>
  BY DEF PrintsAsJob, Job!Spec
<1>5. Spec => Job!Init
  BY JobInit DEF Spec
<1> HIDE DEF todo, received, done, printed
<1> QED
  BY <1>1, <1>2, <1>3, <1>4, <1>5, PTL

-----------------------------------------------------------------------------
(* The order of the lines, whatever the clients do *)

LEMMA SortedWider ==
  ASSUME NEW codes \in Seq(Code), NEW printed \in Nat, NEW limit \in Nat, NEW more \in Nat,
         limit <= more, Sorted(codes, printed, limit)
  PROVE  Sorted(codes, printed, more)
<1>1. \A i \in 1..Len(codes) : codes[i].line \in Nat
  <2> TAKE i \in 1..Len(codes)
  <2>1. codes[i] \in Code
    BY ElementOfSeq
  <2> QED
    BY <2>1 DEF Code
<1>2. /\ \A i, j \in 1..Len(codes) :
           Line(codes[i]) /\ Line(codes[j]) /\ i <= j => codes[i].line <= codes[j].line
      /\ \A i \in 1..Len(codes) :
           Line(codes[i]) => printed <= codes[i].line /\ codes[i].line <= limit
      /\ printed <= limit
  BY DEF Sorted
<1>3. \A i \in 1..Len(codes) :
        Line(codes[i]) => printed <= codes[i].line /\ codes[i].line <= more
  BY <1>1, <1>2
<1>4. printed <= more
  BY <1>2
<1> QED
  BY <1>2, <1>3, <1>4 DEF Sorted

(* A code is sent: no line, or one that is not before any other. *)
LEMMA SortedAppended ==
  ASSUME NEW codes \in Seq(Code), NEW printed \in Nat, NEW limit \in Nat, NEW code \in Code,
         Line(code) => code.line = limit, Sorted(codes, printed, limit)
  PROVE  Sorted(Append(codes, code), printed, limit)
<1> DEFINE more == Append(codes, code)  n == Len(codes)
<1>1. /\ n \in Nat /\ Len(more) = n + 1 /\ more[n + 1] = code
      /\ \A i \in 1..n : more[i] = codes[i]
  BY AppendedCodes
<1> HIDE DEF more
<1>2. /\ \A i, j \in 1..n :
           Line(codes[i]) /\ Line(codes[j]) /\ i <= j => codes[i].line <= codes[j].line
      /\ \A i \in 1..n :
           Line(codes[i]) => printed <= codes[i].line /\ codes[i].line <= limit
      /\ printed <= limit
  BY DEF Sorted
<1> HIDE DEF n
<1>3. \A i \in 1..(n + 1) : i = n + 1 \/ i \in 1..n
  BY <1>1
<1>4. \A i \in 1..(n + 1) :
        Line(more[i]) => printed <= more[i].line /\ more[i].line <= limit
  <2> TAKE i \in 1..(n + 1)
  <2>1. CASE i = n + 1
    BY <1>1, <1>2, <2>1
  <2>2. CASE i \in 1..n
    BY <1>1, <1>2, <2>2
  <2> QED
    BY <1>3, <2>1, <2>2
<1>5. \A i, j \in 1..(n + 1) :
        Line(more[i]) /\ Line(more[j]) /\ i <= j => more[i].line <= more[j].line
  <2> TAKE i, j \in 1..(n + 1)
  <2> HAVE Line(more[i]) /\ Line(more[j]) /\ i <= j
  <2>1. CASE j = n + 1
    BY <1>1, <1>4, <2>1
  <2>2. CASE j \in 1..n
    <3>1. i \in 1..n
      BY <1>1, <2>2
    <3> QED
      BY <1>1, <1>2, <2>2, <3>1
  <2> QED
    BY <1>3, <2>1, <2>2
<1>6. \A i \in 1..Len(more) : i \in 1..(n + 1)
  BY <1>1
<1> QED
  BY <1>2, <1>4, <1>5, <1>6 DEF Sorted, more

(* The printer executes the first of the codes. *)
LEMMA SortedTaken ==
  ASSUME NEW codes \in Seq(Code), NEW printed \in Nat, NEW limit \in Nat, codes # <<>>,
         Sorted(codes, printed, limit)
  PROVE  LET now == IF Line(Head(codes)) THEN Head(codes).line ELSE printed
         IN  now \in Nat /\ printed <= now /\ now <= limit /\ Sorted(Tail(codes), now, limit)
<1> DEFINE now == IF Line(Head(codes)) THEN Head(codes).line ELSE printed
           rest == Tail(codes)  n == Len(codes)  m == Len(rest)
<1>1. /\ n \in Nat /\ n # 0 /\ m = n - 1 /\ Head(codes) = codes[1] /\ codes[1] \in Code
      /\ \A i \in 1..m : rest[i] = codes[i + 1] /\ i + 1 \in 1..n
  BY RemainingCodes
<1>2. /\ \A i, j \in 1..n :
           Line(codes[i]) /\ Line(codes[j]) /\ i <= j => codes[i].line <= codes[j].line
      /\ \A i \in 1..n :
           Line(codes[i]) => printed <= codes[i].line /\ codes[i].line <= limit
      /\ printed <= limit
  BY DEF Sorted
<1> HIDE DEF rest, n, m
<1>3. 1 \in 1..n /\ codes[1].line \in Nat
  BY <1>1 DEF Code
<1>4. now \in Nat /\ printed <= now /\ now <= limit
  BY <1>1, <1>2, <1>3
<1>5. \A i \in 1..m :
        Line(rest[i]) => now <= rest[i].line /\ rest[i].line <= limit
  <2> TAKE i \in 1..m
  <2> HAVE Line(rest[i])
  <2>1. i + 1 \in 1..n /\ rest[i] = codes[i + 1] /\ 1 <= i + 1
    BY <1>1
  <2>2. printed <= rest[i].line /\ rest[i].line <= limit
    BY <1>2, <2>1
  <2>3. Line(codes[1]) => codes[1].line <= rest[i].line
    BY <1>2, <1>3, <2>1
  <2> QED
    BY <1>1, <2>2, <2>3
<1>6. \A i, j \in 1..m :
        Line(rest[i]) /\ Line(rest[j]) /\ i <= j => rest[i].line <= rest[j].line
  <2> TAKE i, j \in 1..m
  <2> HAVE Line(rest[i]) /\ Line(rest[j]) /\ i <= j
  <2>1. /\ i + 1 \in 1..n /\ rest[i] = codes[i + 1]
        /\ j + 1 \in 1..n /\ rest[j] = codes[j + 1] /\ i + 1 <= j + 1
    BY <1>1
  <2> QED
    BY <1>2, <2>1
<1> HIDE DEF now
<1>7. Sorted(rest, now, limit)
  BY <1>4, <1>5, <1>6 DEF Sorted, m
<1> QED
  BY <1>4, <1>7 DEF now, rest

LEMMA SentAppended ==
  ASSUME NEW codes \in Seq(Code), NEW code \in Code, NEW printed, NEW m,
         Sent(codes, printed, m) \/ code = LineCode(m)
  PROVE  Sent(Append(codes, code), printed, m)
<1> DEFINE more == Append(codes, code)  n == Len(codes)
<1>1. /\ n \in Nat /\ Len(more) = n + 1 /\ more[n + 1] = code
      /\ \A i \in 1..n : more[i] = codes[i]
  BY AppendedCodes
<1> HIDE DEF more
<1>2. CASE code = LineCode(m)
  <2>1. n + 1 \in 1..Len(more)
    BY <1>1
  <2> QED
    BY <1>1, <1>2, <2>1 DEF Sent, more
<1>3. CASE m <= printed
  BY <1>3 DEF Sent
<1>4. CASE \E i \in 1..n : codes[i] = LineCode(m)
  <2>1. PICK i \in 1..n : codes[i] = LineCode(m)
    BY <1>4
  <2>2. i \in 1..Len(more) /\ more[i] = LineCode(m)
    BY <1>1, <2>1
  <2> QED
    BY <2>2 DEF Sent, more
<1> QED
  BY <1>2, <1>3, <1>4 DEF Sent

LEMMA SentTaken ==
  ASSUME NEW codes \in Seq(Code), NEW printed \in Nat, NEW limit \in Nat, codes # <<>>,
         Sorted(codes, printed, limit), NEW m \in Int, Sent(codes, printed, m)
  PROVE  Sent(Tail(codes), IF Line(Head(codes)) THEN Head(codes).line ELSE printed, m)
<1> DEFINE now == IF Line(Head(codes)) THEN Head(codes).line ELSE printed
           rest == Tail(codes)  n == Len(codes)
<1>1. /\ n \in Nat /\ n # 0 /\ Len(rest) = n - 1 /\ Head(codes) = codes[1]
      /\ \A i \in 1..Len(rest) : rest[i] = codes[i + 1]
  BY RemainingCodes
<1>2. now \in Nat /\ printed <= now
  BY SortedTaken
<1> HIDE DEF rest
<1>3. CASE m <= printed
  <2> HIDE DEF now
  <2>1. m <= now
    BY <1>2, <1>3
  <2> QED
    BY <2>1 DEF Sent, now, rest
<1>4. CASE \E i \in 1..n : codes[i] = LineCode(m)
  <2>1. PICK i \in 1..n : codes[i] = LineCode(m)
    BY <1>4
  <2>2. CASE i = 1
    <3>1. Line(Head(codes)) /\ Head(codes).line = m
      BY <1>1, <2>1, <2>2 DEF Line, LineCode
    <3>2. m <= now
      BY <3>1
    <3> QED
      BY <3>2 DEF Sent, rest
  <2>3. CASE i # 1
    <3> DEFINE j == i - 1
    <3>1. j \in 1..Len(rest) /\ j + 1 = i
      BY <1>1, <2>3
    <3> HIDE DEF j
    <3>2. rest[j] = LineCode(m)
      BY <1>1, <2>1, <3>1
    <3> HIDE DEF now
    <3> QED
      BY <3>1, <3>2 DEF Sent, now, rest
  <2> QED
    BY <2>2, <2>3
<1> QED
  BY <1>3, <1>4 DEF Sent

(* A driver that sends the line at the head of its buffer, or nothing *)
LEMMA SendsInOrder ==
  ASSUME NEW d \in Driver, NEW codes \in Seq(Code), Sends(codes, d),
         NEW last \in Nat, EndsAt(d.buffer, last), NEW printed \in Nat, NEW given \in Nat,
         Sorted(codes, printed, Front(d, last)),
         \A m \in (given + 1)..(last - Len(d.buffer)) : Sent(codes, printed, m)
  PROVE  Sorted(d.tx, printed, Front(d, last)) /\ AllSent(d, printed, given, last)
<1>1. CASE d.state \notin Printing
  BY <1>1 DEF Sends, AllSent
<1>2. CASE d.state \in Printing
  <2> DEFINE code == LineCode(Head(d.buffer))  f == Front(d, last)
  <2>1. d.buffer # <<>> /\ d.tx = Append(codes, code)
    BY <1>2 DEF Sends
  <2>2. f \in Nat /\ Head(d.buffer) = f
    BY <2>1, FrontFacts
  <2>3. code \in Code /\ code.line = f
    BY <2>2 DEF LineCode, Code
  <2> HIDE DEF code, f
  <2>4. Sorted(Append(codes, code), printed, f)
    BY <2>2, <2>3, SortedAppended DEF f
  <2>5. \A m : Sent(codes, printed, m) => Sent(d.tx, printed, m)
    BY <2>1, <2>3, SentAppended
  <2>6. Sent(d.tx, printed, Head(d.buffer))
    BY <2>1, <2>3, SentAppended DEF code
  <2> QED
    BY <2>1, <2>4, <2>5, <2>6 DEF AllSent, f
<1> QED
  BY <1>1, <1>2

(* A driver that keeps its buffer and sends no line *)
LEMMA SameInOrder ==
  ASSUME NEW d \in Driver, NEW e, NEW code \in Code, NEW last \in Nat,
         EndsAt(d.buffer, last), NEW printed \in Nat, NEW given \in Nat,
         e.buffer = d.buffer, e.state \in Printing => d.state \in Printing,
         e.tx = d.tx \/ (e.tx = Append(d.tx, code) /\ ~Line(code)),
         Sorted(d.tx, printed, Front(d, last)), AllSent(d, printed, given, last)
  PROVE  Sorted(e.tx, printed, Front(e, last)) /\ AllSent(e, printed, given, last)
<1> DEFINE f == Front(d, last)
<1>1. d.tx \in Seq(Code)
  BY DEF Driver
<1>2. f \in Nat /\ f = Front(e, last)
  BY FrontFacts DEF Front
<1> HIDE DEF f
<1>3. Sorted(e.tx, printed, f)
  BY <1>1, <1>2, SortedAppended DEF f
<1>4. \A m : Sent(d.tx, printed, m) => Sent(e.tx, printed, m)
  BY <1>1, SentAppended
<1> QED
  BY <1>2, <1>3, <1>4 DEF AllSent

LEMMA RejectedTail ==
  ASSUME NEW answers \in Seq(Reply), answers # <<>>, NothingRejected(answers)
  PROVE  NothingRejected(Tail(answers)) /\ Head(answers) # "Resend"
<1>1. /\ Len(answers) \in Nat /\ Len(answers) # 0 /\ Head(answers) = answers[1]
      /\ \A i \in 1..Len(Tail(answers)) :
           Tail(answers)[i] = answers[i + 1] /\ i + 1 \in 1..Len(answers)
  BY RemainingCodes
<1>2. 1 \in 1..Len(answers)
  BY <1>1
<1> QED
  BY <1>1, <1>2 DEF NothingRejected

LEMMA RejectedAppend ==
  ASSUME NEW answers \in Seq(Reply), NEW reply \in Reply, reply # "Resend",
         NothingRejected(answers)
  PROVE  NothingRejected(Append(answers, reply))
<1> DEFINE more == Append(answers, reply)
<1>1. /\ Len(answers) \in Nat /\ Len(more) = Len(answers) + 1
      /\ more[Len(answers) + 1] = reply
      /\ \A i \in 1..Len(answers) : more[i] = answers[i]
  BY AppendedCodes
<1> HIDE DEF more
<1>2. \A i \in 1..Len(more) : i = Len(answers) + 1 \/ i \in 1..Len(answers)
  BY <1>1
<1> QED
  BY <1>1, <1>2 DEF NothingRejected, more

LEMMA OrderlyInit == Init => Orderly
<1> SUFFICES ASSUME Init PROVE Orderly
  OBVIOUS
<1> DEFINE none == <<>>
<1>1. /\ drv.tx = none /\ rx = none /\ drv.buffer = none /\ Len(none) = 0
      /\ appended = 0 /\ lastPrinted = 0 /\ givenUp = 0 /\ drv.state \in Offline
  BY DEF Init
<1>2. Front(drv, appended) = 0
  BY <1>1 DEF Front
<1>3. drv.state \notin Printing
  BY <1>1 DEF Offline, Printing
<1> HIDE DEF none
<1>4. Sorted(drv.tx, lastPrinted, 0)
  BY <1>1 DEF Sorted
<1>5. AllSent(drv, lastPrinted, givenUp, appended)
  BY <1>1, <1>3 DEF AllSent
<1>6. NothingRejected(rx)
  BY <1>1 DEF NothingRejected
<1> QED
  BY <1>2, <1>4, <1>5, <1>6 DEF Orderly

LEMMA AccidentsCount ==
  ASSUME Inductive, Kind, resends' = 0, resets' = 0
  PROVE  resends = 0 /\ resets = 0 /\ ~Refused /\ ~Resets
<1>1. resends \in Nat /\ resets \in Nat
  BY BoundAssumption DEF Inductive, TypeOK
<1>2. ~Refused /\ ~Resets
  BY <1>1 DEF Refused, Resets
<1> QED
  BY <1>2 DEF Kind, Appends, Stops, Clears, Starts, Heats, Asks, Acknowledged, Rejected,
      Passed, Reads, Lost, Executed, Reports, Rests, Others

InOrder(d, answers, printed, given, last) ==
  /\ NothingRejected(answers)
  /\ Sorted(d.tx, printed, Front(d, last))
  /\ AllSent(d, printed, given, last)

LEMMA OrderlyStep ==
  ASSUME Inductive, Inductive', Numbered, Numbered', Orderly, Kind
  PROVE  Orderly'
<1> SUFFICES ASSUME resends' = 0, resets' = 0
             PROVE  InOrder(drv', rx', lastPrinted', givenUp', appended')
  BY DEF Orderly, InOrder
<1>1. resends = 0 /\ resets = 0 /\ ~Refused /\ ~Resets
  BY AccidentsCount
<1>2. /\ NothingRejected(rx)
      /\ Sorted(drv.tx, lastPrinted, Front(drv, appended))
      /\ AllSent(drv, lastPrinted, givenUp, appended)
  BY <1>1 DEF Orderly
<1>3. /\ drv \in Driver /\ drv.buffer \in Seq(Nat) /\ drv.tx \in Seq(Code)
      /\ rx \in Seq(Reply) /\ lastPrinted \in Nat /\ appended \in Nat /\ givenUp \in Nat
      /\ EndsAt(drv.buffer, appended)
  BY DEF Inductive, TypeOK, Driver, Numbered
<1>4. /\ drv' \in Driver /\ lastPrinted' \in Nat /\ appended' \in Nat /\ givenUp' \in Nat
      /\ EndsAt(drv'.buffer, appended')
  BY DEF Inductive, TypeOK, Numbered
<1>5. /\ Front(drv, appended) \in Nat /\ Front(drv', appended') \in Nat
      /\ Front(drv, appended) <= Front(drv', appended')
  BY <1>3, <1>4, FrontFacts, FrontAdvances
<1>6. Sorted(drv.tx, lastPrinted, Front(drv', appended'))
  BY <1>2, <1>3, <1>5, SortedWider
<1>7. ASSUME Sends(drv.tx, drv'), lastPrinted' = lastPrinted, NothingRejected(rx'),
             \A m \in (givenUp' + 1)..(appended' - Len(drv'.buffer)) :
               Sent(drv.tx, lastPrinted, m)
      PROVE  InOrder(drv', rx', lastPrinted', givenUp', appended')
  BY <1>3, <1>4, <1>6, <1>7, SendsInOrder DEF InOrder
<1>8. ASSUME NEW code \in Code, SameBuffer, Going' => Going, SameLines,
             drv'.tx = drv.tx \/ (drv'.tx = Append(drv.tx, code) /\ ~Line(code)),
             lastPrinted' = lastPrinted, NothingRejected(rx')
      PROVE  InOrder(drv', rx', lastPrinted', givenUp', appended')
  <2>1. /\ drv'.buffer = drv.buffer /\ (drv'.state \in Printing => drv.state \in Printing)
        /\ appended' = appended /\ givenUp' = givenUp
    BY <1>8 DEF SameBuffer, SameLines, Going
  <2>2. /\ Sorted(drv'.tx, lastPrinted, Front(drv', appended))
        /\ AllSent(drv', lastPrinted, givenUp, appended)
    BY <1>2, <1>3, <1>8, <2>1, SameInOrder
  <2> QED
    BY <1>8, <2>1, <2>2 DEF InOrder
<1>9. M105 \in Code /\ M104 \in Code /\ ~Line(M105) /\ ~Line(M104)
  BY CodesAreCodes DEF Line, M105, M104
<1>10. ASSUME NEW k \in Nat, Appends(k)
       PROVE  InOrder(drv', rx', lastPrinted', givenUp', appended')
  <2> DEFINE b == drv.buffer  lines == NewLines(k)
  <2>1. /\ b \in Seq(Nat) /\ lines \in Seq(Nat) /\ Len(lines) = k
    BY <1>3, NewLinesFacts
  <2>2. /\ drv'.buffer = b \o lines /\ appended' = appended + k
        /\ drv'.tx = drv.tx /\ rx' = rx /\ givenUp' = givenUp
        /\ lastPrinted' = lastPrinted /\ (Going' <=> Going)
    BY <1>10 DEF Appends, SameCodes
  <2>3. Going => b # <<>>
    BY DEF Inductive, PrintingHasLine, Going
  <2>4. /\ \A m \in (givenUp + 1)..(appended - Len(b)) : Sent(drv.tx, lastPrinted, m)
        /\ Going => Sent(drv.tx, lastPrinted, Head(b))
    BY <1>2 DEF AllSent, Going
  <2> HIDE DEF b, lines
  <2>5. Len(b \o lines) = Len(b) + k /\ Len(b) \in Nat
    BY <2>1
  <2>6. appended' - Len(drv'.buffer) = appended - Len(b)
    BY <1>3, <2>2, <2>5
  <2>7. Going => Head(drv'.buffer) = Head(b)
    BY <2>1, <2>2, <2>3, HeadOfConcat
  <2>8. AllSent(drv', lastPrinted', givenUp', appended')
    BY <2>2, <2>4, <2>6, <2>7 DEF AllSent, Going
  <2> QED
    BY <1>2, <1>6, <2>2, <2>8 DEF InOrder
<1>11. ASSUME NEW k \in Nat, Stops(k)
       PROVE  InOrder(drv', rx', lastPrinted', givenUp', appended')
  <2>1. /\ drv'.buffer = NewLines(k) /\ Len(NewLines(k)) = k /\ Sends(drv.tx, drv')
        /\ appended' = appended + k /\ givenUp' = appended /\ rx' = rx
        /\ lastPrinted' = lastPrinted
    BY <1>3, <1>11, NewLinesFacts DEF Stops
  <2>2. appended' - Len(drv'.buffer) = appended
    BY <1>3, <2>1
  <2>3. \A m \in (givenUp' + 1)..(appended' - Len(drv'.buffer)) :
          Sent(drv.tx, lastPrinted, m)
    BY <1>3, <2>1, <2>2
  <2> QED
    BY <1>2, <1>7, <2>1, <2>3
<1>12. CASE Clears
  <2> DEFINE none == <<>>
  <2>1. /\ drv'.buffer = none /\ Len(none) = 0 /\ ~Going' /\ drv'.tx = drv.tx
        /\ givenUp' = appended /\ appended' = appended /\ rx' = rx
        /\ lastPrinted' = lastPrinted
    BY <1>12 DEF Clears, SameCodes
  <2> HIDE DEF none
  <2>2. \A m \in (givenUp' + 1)..(appended' - Len(drv'.buffer)) :
          Sent(drv.tx, lastPrinted, m)
    BY <1>3, <2>1
  <2>3. Sends(drv.tx, drv')
    BY <2>1 DEF Sends, Going
  <2> QED
    BY <1>2, <1>7, <2>1, <2>2, <2>3
<1>13. CASE Starts
  <2>1. /\ drv'.buffer = drv.buffer /\ appended' = appended /\ givenUp' = givenUp
        /\ Sends(drv.tx, drv') /\ rx' = rx /\ lastPrinted' = lastPrinted
    BY <1>13 DEF Starts, SameBuffer, SameLines
  <2> QED
    BY <1>2, <1>7, <2>1 DEF AllSent
<1>14. CASE Heats
  BY <1>2, <1>8, <1>9, <1>14 DEF Heats, SameDriver
<1>15. CASE Asks
  BY <1>2, <1>8, <1>9, <1>15 DEF Asks, SameDriver
<1>16. ASSUME Reads
       PROVE  NothingRejected(rx') /\ Head(rx) # "Resend"
  BY <1>2, <1>3, <1>16, RejectedTail DEF Reads
<1>17. CASE Acknowledged
  <2> DEFINE b == drv.buffer
  <2>1. /\ Reads /\ Going /\ drv'.buffer = Tail(b) /\ Sends(drv.tx, drv')
        /\ appended' = appended /\ givenUp' = givenUp /\ lastPrinted' = lastPrinted
    BY <1>17 DEF Acknowledged, Reads, SameLines
  <2>2. b # <<>>
    BY <2>1 DEF Inductive, PrintingHasLine, Going
  <2>3. /\ \A m \in (givenUp + 1)..(appended - Len(b)) : Sent(drv.tx, lastPrinted, m)
        /\ Sent(drv.tx, lastPrinted, Head(b))
    BY <1>2, <2>1 DEF AllSent, Going
  <2>4. Head(b) = appended - Len(b) + 1
    BY <1>3, <2>2, FrontFacts DEF Front
  <2>5. Len(Tail(b)) = Len(b) - 1 /\ Len(b) \in Nat
    BY <1>3, <2>2, RemainingCodes
  <2> HIDE DEF b
  <2>6. \A m \in (givenUp' + 1)..(appended' - Len(drv'.buffer)) :
          m = appended - Len(b) + 1 \/ m \in (givenUp + 1)..(appended - Len(b))
    <3> DEFINE low == givenUp  high == appended - Len(b)
    <3>1. low \in Int /\ high \in Int /\ givenUp' = low
      BY <1>3, <2>1, <2>5
    <3>2. appended' - Len(drv'.buffer) = high + 1
      <4> DEFINE n == Len(b)  rest == Len(drv'.buffer)
      <4>1. n \in Nat /\ rest = n - 1
        BY <2>1, <2>5
      <4>2. appended \in Nat /\ appended' = appended
        BY <1>3, <2>1
      <4> HIDE DEF n, rest
      <4>3. appended' - rest = appended - n + 1
        BY ONLY <4>1, <4>2
      <4> QED
        BY <4>3 DEF n, rest
    <3> HIDE DEF low, high
    <3>3. \A m \in (low + 1)..(high + 1) : m = high + 1 \/ m \in (low + 1)..high
      BY ONLY <3>1
    <3> QED
      BY <3>1, <3>2, <3>3 DEF low, high
  <2>7. \A m \in (givenUp' + 1)..(appended' - Len(drv'.buffer)) :
          Sent(drv.tx, lastPrinted, m)
    BY <2>3, <2>4, <2>6
  <2> QED
    BY <1>7, <1>16, <2>1, <2>7
<1>18. CASE Rejected
  BY <1>16, <1>18 DEF Rejected
<1>19. CASE Passed
  <2>1. Reads /\ SameBuffer /\ (Going' => Going) /\ drv'.tx = drv.tx
    BY <1>19 DEF Passed, SameDriver, SameCodes
  <2> QED
    BY <1>8, <1>9, <1>16, <2>1 DEF Reads
<1>20. CASE Lost
  <2>1. /\ SameBuffer /\ ~Going' /\ drv'.tx = drv.tx /\ SameLines /\ rx' = rx
        /\ lastPrinted' = lastPrinted
    BY <1>20 DEF Lost, SameCodes
  <2> QED
    BY <1>2, <1>8, <1>9, <2>1
<1>21. ASSUME NEW reply \in {"T", "ok"}, Executed(reply)
       PROVE  InOrder(drv', rx', lastPrinted', givenUp', appended')
  <2>1. /\ drv.tx # <<>> /\ drv'.tx = Tail(drv.tx) /\ rx' = Append(rx, reply)
        /\ lastPrinted' = IF Line(Head(drv.tx)) THEN Head(drv.tx).line ELSE lastPrinted
        /\ drv'.buffer = drv.buffer /\ (drv'.state \in Printing <=> drv.state \in Printing)
        /\ appended' = appended /\ givenUp' = givenUp
    BY <1>21 DEF Executed, SameDriver, SameBuffer, SameLines, Going
  <2>2. Sorted(drv'.tx, lastPrinted', Front(drv', appended'))
    BY <1>3, <1>5, <1>6, <2>1, SortedTaken
  <2>3. \A m \in Int : Sent(drv.tx, lastPrinted, m) => Sent(drv'.tx, lastPrinted', m)
    BY <1>2, <1>3, <1>5, <2>1, SentTaken
  <2>4. drv.buffer # <<>> => Head(drv.buffer) \in Int
    BY <1>3
  <2>5. drv.state \in Printing => drv.buffer # <<>>
    BY DEF Inductive, PrintingHasLine
  <2>6. AllSent(drv', lastPrinted', givenUp', appended')
    BY <1>2, <2>1, <2>3, <2>4, <2>5 DEF AllSent
  <2>7. NothingRejected(rx')
    <3>1. reply \in Reply /\ reply # "Resend"
      BY DEF Reply
    <3> QED
      BY <1>2, <1>3, <2>1, <3>1, RejectedAppend
  <2> QED
    BY <2>2, <2>6, <2>7 DEF InOrder
<1>22. CASE Reports
  <2>1. "T" \in Reply /\ "T" # "Resend"
    BY DEF Reply
  <2>2. /\ SameBuffer /\ (Going' => Going) /\ drv'.tx = drv.tx /\ SameLines
        /\ lastPrinted' = lastPrinted /\ rx' = Append(rx, "T")
    BY <1>22 DEF Reports, SameBuffer, Going
  <2>3. NothingRejected(rx')
    BY <1>2, <1>3, <2>1, <2>2, RejectedAppend
  <2> QED
    BY <1>8, <1>9, <2>2, <2>3
<1>23. CASE Rests
  <2>1. /\ SameBuffer /\ (Going' => Going) /\ drv'.tx = drv.tx /\ SameLines
        /\ lastPrinted' = lastPrinted /\ rx' = rx
    BY <1>23 DEF Rests, SameBuffer, Going
  <2> QED
    BY <1>2, <1>8, <1>9, <2>1
<1> QED
  BY <1>1, <1>10, <1>11, <1>12, <1>13, <1>14, <1>15, <1>17, <1>18, <1>19, <1>20,
     <1>21, <1>22, <1>23 DEF Kind

LEMMA ExecutedInOrder ==
  ASSUME Inductive, Numbered, Orderly, resends = 0, resets = 0,
         drv.tx # <<>>, Line(Head(drv.tx))
  PROVE  LET n == Head(drv.tx).line
         IN  /\ n >= lastPrinted
             /\ n > lastPrinted + 1 => n <= givenUp + 1
<1> DEFINE n == Head(drv.tx).line  f == Front(drv, appended)
           left == appended - Len(drv.buffer)
<1>1. /\ drv \in Driver /\ drv.buffer \in Seq(Nat) /\ drv.tx \in Seq(Code)
      /\ lastPrinted \in Nat /\ appended \in Nat /\ givenUp \in Nat
      /\ EndsAt(drv.buffer, appended)
  BY DEF Inductive, TypeOK, Driver, Numbered
<1>2. /\ Len(drv.tx) \in Nat /\ 1 \in 1..Len(drv.tx) /\ Head(drv.tx) = drv.tx[1]
      /\ Head(drv.tx) \in Code
  BY <1>1, RemainingCodes
<1>3. n \in Nat
  BY <1>2 DEF Code
<1>4. f \in Nat /\ left \in Int /\ f <= left + 1
  <2> DEFINE size == Len(drv.buffer)
  <2>1. size \in Nat /\ f \in Nat /\ f = IF size = 0 THEN appended ELSE appended - size + 1
    BY <1>1, FrontFacts
  <2>2. left = appended - size
    OBVIOUS
  <2> HIDE DEF f, left, size
  <2> QED
    BY ONLY <1>1, <2>1, <2>2
<1>5. /\ \A i, j \in 1..Len(drv.tx) :
           Line(drv.tx[i]) /\ Line(drv.tx[j]) /\ i <= j => drv.tx[i].line <= drv.tx[j].line
      /\ \A i \in 1..Len(drv.tx) :
           Line(drv.tx[i]) => lastPrinted <= drv.tx[i].line /\ drv.tx[i].line <= f
  BY DEF Orderly, Sorted
<1>6. lastPrinted <= n /\ n <= f
  BY <1>2, <1>5
<1>7. \A m \in (givenUp + 1)..left : Sent(drv.tx, lastPrinted, m)
  BY DEF Orderly, AllSent
<1>8. ASSUME NEW m \in Int, m < n, Sent(drv.tx, lastPrinted, m)
      PROVE  m <= lastPrinted
  <2>1. ASSUME NEW i \in 1..Len(drv.tx), drv.tx[i] = LineCode(m)
        PROVE  FALSE
    <3>1. Line(drv.tx[i]) /\ drv.tx[i].line = m /\ 1 <= i
      BY <1>2, <2>1 DEF Line, LineCode
    <3>2. n <= m
      BY <1>2, <1>5, <3>1
    <3> QED
      BY <1>3, <1>8, <3>2
  <2> QED
    BY <1>8, <2>1 DEF Sent
<1> HIDE DEF n, f, left
<1>9. ASSUME n > lastPrinted + 1, ~(n <= givenUp + 1)
      PROVE  FALSE
  <2> DEFINE m == n - 1
  <2>1. m \in (givenUp + 1)..left /\ m \in Int /\ m < n /\ ~(m <= lastPrinted)
    BY <1>1, <1>3, <1>4, <1>6, <1>9
  <2> QED
    BY <1>7, <1>8, <2>1
<1> QED
  BY <1>1, <1>3, <1>6, <1>9 DEF n

(* Whatever commands the clients send, and whatever extra codes and        *)
(* acknowledgements those cause: as long as no line is refused and the     *)
(* printer is not reset, it never goes back to an earlier line and misses  *)
(* none but those that clearGCode() or stopPrint() took away.  A line may  *)
(* be executed again, when startPrint() is called during a print.          *)
THEOREM ExecutesInOrder == Spec => LinesInOrder
<1> DEFINE Told == (resends' = 0 /\ resets' = 0) =>
                     /\ lastPrinted' >= lastPrinted
                     /\ lastPrinted' > lastPrinted + 1 => lastPrinted' <= givenUp + 1
           Ready == Inductive /\ Numbered /\ Orderly
<1>1. Init => Ready
  BY InductiveInit, NumberedInit, OrderlyInit
<1>2. Ready /\ [Next]_vars => Ready'
  <2> SUFFICES ASSUME Ready, [Next]_vars PROVE Ready'
    OBVIOUS
  <2>1. Inductive' /\ Kind
    BY InductiveStep, StepKinds
  <2>2. Numbered'
    BY <2>1, NumberedStep
  <2>3. Orderly'
    BY <2>1, <2>2, OrderlyStep
  <2> QED
    BY <2>1, <2>2, <2>3
<1>3. Ready /\ [Next]_vars => [Told]_vars
  <2> SUFFICES ASSUME Ready, [Next]_vars, resends' = 0, resets' = 0
               PROVE  /\ lastPrinted' >= lastPrinted
                      /\ lastPrinted' > lastPrinted + 1 => lastPrinted' <= givenUp + 1
    OBVIOUS
  <2>1. Kind /\ lastPrinted \in Nat
    BY StepKinds DEF Inductive, TypeOK
  <2>2. resends = 0 /\ resets = 0
    BY <2>1, AccidentsCount
  <2>3. CASE lastPrinted' = lastPrinted
    BY <2>1, <2>3
  <2>4. ASSUME NEW reply \in {"T", "ok"}, Executed(reply), lastPrinted' # lastPrinted
        PROVE  /\ lastPrinted' >= lastPrinted
               /\ lastPrinted' > lastPrinted + 1 => lastPrinted' <= givenUp + 1
    <3>1. drv.tx # <<>> /\ Line(Head(drv.tx)) /\ lastPrinted' = Head(drv.tx).line
      BY <2>4 DEF Executed
    <3> QED
      BY <2>2, <3>1, ExecutedInOrder
  <2>5. CASE ~\E reply \in {"T", "ok"} : Executed(reply)
    <3>1. lastPrinted' = lastPrinted
      BY <2>1, <2>5
         DEF Kind, Appends, Stops, Clears, Starts, Heats, Asks, Acknowledged, Rejected,
             Passed, Reads, Lost, Refused, Reports, Resets, Rests
    <3> QED
      BY <2>3, <3>1
  <2> QED
    BY <2>3, <2>4, <2>5
<1>4. LinesInOrder <=> [][Told]_vars
  BY DEF LinesInOrder
<1> HIDE DEF Told, Ready
<1> QED
  BY <1>1, <1>2, <1>3, <1>4, PTL DEF Spec

-----------------------------------------------------------------------------
(* getCurrentLine(), while clients are quiet *)

LEMMA AdvanceInit == Init => Advance
<1> SUFFICES ASSUME Init PROVE Advance
  OBVIOUS
<1> DEFINE none == <<>>
<1>1. drv.buffer = none /\ Len(none) = 0 /\ drv.totalLinesSent = 0 /\ drv.state \in Offline
  BY DEF Init
<1>2. drv.state \notin Printing
  BY <1>1 DEF Offline, Printing
<1> HIDE DEF none
<1> QED
  BY <1>1, <1>2 DEF Advance

(* No quiet client starts, stops or heats during a print that goes on. *)
LEMMA NoCommandWhileGoing ==
  ASSUME NoStall, quiet, resets = 0, Going
  PROVE  ~Starts /\ ~Heats /\ ~Clears /\ \A k \in Nat : ~Stops(k)
<1>1. Owed
  BY DEF NoStall, Going
<1> QED
  BY <1>1 DEF Starts, Heats, Clears, Stops, MayCommand

(* What the steps do to the progress of a print that goes on.  The         *)
(* quantities are those of the state before the step and after it.         *)
Progresses(n, total, line, n2, total2, line2) ==
  \/ n2 = n /\ total2 = total /\ line2 = line
  \/ \E k \in Nat : n2 = n + k /\ total2 = total + k /\ line2 = line
  \/ n2 = n - 1 /\ total2 = total /\ line2 = Smaller(line + 1, total)
  \/ n2 = n /\ total2 = total /\ (line <= total => line2 = line)

LEMMA GoingProgresses ==
  ASSUME Inductive, Inductive', NoStall, Kind, quiet, resets' = 0, Going, Going'
  PROVE  Progresses(Len(drv.buffer), drv.totalLinesSent, drv.currentLine,
                    Len(drv'.buffer), drv'.totalLinesSent, drv'.currentLine)
<1>1. resets = 0 /\ ~Resets
  <2>1. resets \in Nat
    BY BoundAssumption DEF Inductive, TypeOK
  <2>2. resets + 1 # 0
    BY <2>1
  <2>3. ~Resets
    BY <2>2 DEF Resets
  <2> QED
    BY <2>3 DEF Kind, Appends, Stops, Clears, Starts, Heats, Asks, Acknowledged, Rejected,
        Passed, Reads, Lost, Executed, Refused, Reports, Rests, Others
<1>2. ~Starts /\ ~Heats /\ ~Clears /\ \A k \in Nat : ~Stops(k)
  BY <1>1, NoCommandWhileGoing
<1>3. drv.buffer \in Seq(Nat) /\ appended \in Nat
  BY DEF Inductive, TypeOK, Driver
<1>4. CASE SameDriver
  BY <1>4 DEF SameDriver, SameBuffer, Progresses
<1>5. ASSUME NEW k \in Nat, Appends(k)
      PROVE  Progresses(Len(drv.buffer), drv.totalLinesSent, drv.currentLine,
                        Len(drv'.buffer), drv'.totalLinesSent, drv'.currentLine)
  <2> DEFINE b == drv.buffer  lines == NewLines(k)
  <2>1. b \in Seq(Nat) /\ lines \in Seq(Nat)
    BY <1>3, NewLinesFacts
  <2>2. Len(lines) = k
    BY <1>3, NewLinesFacts
  <2>3. /\ drv'.buffer = b \o lines /\ drv'.totalLinesSent = drv.totalLinesSent + k
        /\ drv'.currentLine = drv.currentLine
    BY <1>5 DEF Appends
  <2> HIDE DEF b, lines
  <2>4. Len(b \o lines) = Len(b) + Len(lines)
    BY ONLY <2>1
  <2>5. Len(drv'.buffer) = Len(drv.buffer) + k
    BY <2>2, <2>3, <2>4 DEF b
  <2> QED
    BY <2>3, <2>5 DEF Progresses
<1>6. CASE Acknowledged
  <2>1. drv.buffer # <<>> /\ drv'.buffer = Tail(drv.buffer)
    BY <1>6 DEF Acknowledged, Inductive, PrintingHasLine, Going
  <2>2. Len(drv'.buffer) = Len(drv.buffer) - 1
    BY <1>3, <2>1, RemainingCodes
  <2> QED
    BY <1>6, <2>2 DEF Acknowledged, Progresses
<1>7. CASE Rejected
  BY <1>7 DEF Rejected, SameBuffer, Progresses
<1>8. CASE Asks \/ Passed \/ Refused \/ Reports \/ Rests
  <2>1. SameDriver
    BY <1>8 DEF Asks, Passed, Refused, Reports, Rests, SameDriver, SameBuffer, Going
  <2> QED
    BY <1>4, <2>1
<1>9. CASE \E reply \in {"T", "ok"} : Executed(reply)
  <2>1. SameDriver
    BY <1>9 DEF Executed
  <2> QED
    BY <1>4, <2>1
<1>10. ~Lost
  BY DEF Lost
<1> QED
  BY <1>1, <1>2, <1>5, <1>6, <1>7, <1>8, <1>9, <1>10 DEF Kind

(* The arithmetic of a step: the current line keeps below the lines that   *)
(* have left the buffer, and goes on with them.                            *)
LEMMA ProgressKept ==
  ASSUME NEW n \in Nat, NEW total \in Nat, NEW line \in Int,
         NEW n2 \in Nat, NEW total2 \in Nat, NEW line2 \in Int,
         n # 0, n2 # 0, n <= total, line <= total - n + 1,
         Progresses(n, total, line, n2, total2, line2)
  PROVE  /\ line2 <= total2 - n2 + 1
         /\ line2 - line = (total2 - n2) - (total - n)
<1>1. line <= total
  OBVIOUS
<1>2. CASE n2 = n /\ total2 = total /\ line2 = line
  BY <1>2
<1>3. CASE \E k \in Nat : n2 = n + k /\ total2 = total + k /\ line2 = line
  BY <1>3
<1>4. CASE n2 = n - 1 /\ total2 = total /\ line2 = Smaller(line + 1, total)
  BY <1>4 DEF Smaller
<1>5. CASE n2 = n /\ total2 = total /\ (line <= total => line2 = line)
  BY <1>1, <1>5
<1> QED
  BY <1>2, <1>3, <1>4, <1>5 DEF Progresses

LEMMA LinesWithinTotal ==
  ASSUME Inductive, Inductive', Advance, Kind
  PROVE  Len(drv'.buffer) <= drv'.totalLinesSent
<1>1. /\ drv.buffer \in Seq(Nat) /\ appended \in Nat /\ Len(drv.buffer) \in Nat
      /\ drv.totalLinesSent \in Nat /\ drv'.totalLinesSent \in Nat
      /\ Len(drv.buffer) <= drv.totalLinesSent
  BY DEF Inductive, TypeOK, Driver, Advance
<1>2. CASE SameBuffer
  BY <1>1, <1>2 DEF SameBuffer
<1>3. ASSUME NEW k \in Nat, Appends(k)
      PROVE  Len(drv'.buffer) <= drv'.totalLinesSent
  <2> DEFINE b == drv.buffer  lines == NewLines(k)
  <2>1. b \in Seq(Nat) /\ lines \in Seq(Nat)
    BY <1>1, NewLinesFacts
  <2>2. Len(lines) = k
    BY <1>1, NewLinesFacts
  <2>3. drv'.buffer = b \o lines /\ drv'.totalLinesSent = drv.totalLinesSent + k
    BY <1>3 DEF Appends
  <2> HIDE DEF b, lines
  <2>4. Len(b \o lines) = Len(b) + Len(lines)
    BY ONLY <2>1
  <2>5. Len(drv'.buffer) = Len(drv.buffer) + k
    BY <2>2, <2>3, <2>4 DEF b
  <2> QED
    BY <1>1, <2>3, <2>5
<1>4. ASSUME NEW k \in Nat, Stops(k)
      PROVE  Len(drv'.buffer) <= drv'.totalLinesSent
  <2>1. drv'.buffer = NewLines(k) /\ Len(NewLines(k)) = k /\ drv'.totalLinesSent = k
    BY <1>1, <1>4, NewLinesFacts DEF Stops
  <2> QED
    BY <2>1
<1>5. CASE Clears
  <2> DEFINE none == <<>>
  <2>1. drv'.buffer = none /\ Len(none) = 0
    BY <1>5 DEF Clears
  <2> HIDE DEF none
  <2> QED
    BY <1>1, <2>1
<1>6. CASE Acknowledged
  <2>1. drv.buffer # <<>> /\ drv'.buffer = Tail(drv.buffer)
        /\ drv'.totalLinesSent = drv.totalLinesSent
    BY <1>6 DEF Acknowledged, Inductive, PrintingHasLine, Going
  <2>2. Len(drv'.buffer) = Len(drv.buffer) - 1
    BY <1>1, <2>1, RemainingCodes
  <2> QED
    BY <1>1, <2>1, <2>2
<1>7. CASE Starts \/ Heats \/ Asks \/ Rejected \/ Passed \/ Lost
  BY <1>2, <1>7 DEF Starts, Heats, Asks, Rejected, Passed, Lost, SameDriver
<1>8. CASE Refused \/ Reports \/ Resets \/ Rests
  BY <1>2, <1>8 DEF Refused, Reports, Resets, Rests, SameDriver, SameBuffer
<1>9. CASE \E reply \in {"T", "ok"} : Executed(reply)
  BY <1>2, <1>9 DEF Executed, SameDriver
<1> QED
  BY <1>3, <1>4, <1>5, <1>6, <1>7, <1>8, <1>9 DEF Kind

LEMMA SmallerOne == ASSUME NEW n \in Nat PROVE Smaller(1, n) <= 1
BY DEF Smaller

LEMMA AdvanceFacts ==
  ASSUME Inductive, Inductive', NoStall, Advance, Kind, quiet, resets' = 0, Going, Going'
  PROVE  /\ drv'.currentLine <= drv'.totalLinesSent - Len(drv'.buffer) + 1
         /\ drv'.currentLine - drv.currentLine =
              (drv'.totalLinesSent - Len(drv'.buffer)) - (drv.totalLinesSent - Len(drv.buffer))
<1>1. /\ drv.buffer \in Seq(Nat) /\ drv.totalLinesSent \in Nat /\ drv.currentLine \in Int
      /\ drv'.buffer \in Seq(Nat) /\ drv'.totalLinesSent \in Nat /\ drv'.currentLine \in Int
  BY DEF Inductive, TypeOK, Driver
<1>2. drv.buffer # <<>> /\ drv'.buffer # <<>>
  BY DEF Inductive, PrintingHasLine, Going
<1> DEFINE n == Len(drv.buffer)  n2 == Len(drv'.buffer)
<1>3. n \in Nat /\ n # 0 /\ n2 \in Nat /\ n2 # 0
  BY <1>1, <1>2, EmptySeq
<1>4. resets = 0
  <2>1. resets \in Nat
    BY BoundAssumption DEF Inductive, TypeOK
  <2>2. resets + 1 # 0
    BY <2>1
  <2>3. ~Resets
    BY <2>2 DEF Resets
  <2> QED
    BY <2>3 DEF Kind, Appends, Stops, Clears, Starts, Heats, Asks, Acknowledged, Rejected,
        Passed, Reads, Lost, Executed, Refused, Reports, Rests, Others
<1>5. n <= drv.totalLinesSent /\ drv.currentLine <= drv.totalLinesSent - n + 1
  BY <1>4 DEF Advance, Going
<1>6. Progresses(n, drv.totalLinesSent, drv.currentLine,
                 n2, drv'.totalLinesSent, drv'.currentLine)
  BY GoingProgresses
<1> DEFINE total == drv.totalLinesSent   line == drv.currentLine
           total2 == drv'.totalLinesSent line2 == drv'.currentLine
<1>7. /\ n \in Nat /\ total \in Nat /\ line \in Int
      /\ n2 \in Nat /\ total2 \in Nat /\ line2 \in Int
      /\ n # 0 /\ n2 # 0 /\ n <= total /\ line <= total - n + 1
      /\ Progresses(n, total, line, n2, total2, line2)
  BY <1>1, <1>3, <1>5, <1>6
<1> HIDE DEF n, n2, total, line, total2, line2
<1>8. /\ line2 <= total2 - n2 + 1
      /\ line2 - line = (total2 - n2) - (total - n)
  BY ONLY <1>7, ProgressKept
<1> QED
  BY <1>8 DEF n, n2, total, line, total2, line2

LEMMA AdvanceStep ==
  ASSUME Inductive, Inductive', NoStall, Advance, Kind
  PROVE  Advance'
<1>1. Len(drv'.buffer) <= drv'.totalLinesSent
  BY LinesWithinTotal
<1>2. ASSUME quiet', resets' = 0, Going'
      PROVE  drv'.currentLine <= drv'.totalLinesSent - Len(drv'.buffer) + 1
  <2>1. quiet
    BY <1>2, KeepsRunning
  <2>2. CASE Going
    BY <1>2, <2>1, <2>2, AdvanceFacts
  <2>3. CASE ~Going
    <3>1. drv'.currentLine <= 1
      <4>1. CASE Starts
        <5>1. drv'.currentLine = Smaller(1, drv.totalLinesSent) /\ drv.totalLinesSent \in Nat
          BY <1>2, <2>3, <4>1 DEF Starts, Inductive, TypeOK, Driver
        <5> QED
          BY <5>1, SmallerOne
      <4>2. ASSUME NEW k \in Nat, Stops(k)
            PROVE  drv'.currentLine <= 1
        <5>1. drv'.currentLine = Smaller(1, k)
          BY <1>2, <4>2 DEF Stops
        <5> QED
          BY <5>1, SmallerOne
      <4>3. Starts \/ \E k \in Nat : Stops(k)
        BY <1>2, <2>3
           DEF Kind, Appends, Clears, Heats, Asks, Acknowledged, Rejected, Passed, Lost,
               Executed, Refused, Reports, Resets, Rests, SameDriver, Going
      <4> QED
        BY <4>1, <4>2, <4>3
    <3> DEFINE line == drv'.currentLine  total == drv'.totalLinesSent
               size == Len(drv'.buffer)
    <3>2. line \in Int /\ total \in Nat /\ size \in Nat /\ size <= total /\ line <= 1
      BY <1>1, <3>1 DEF Inductive, TypeOK, Driver
    <3> HIDE DEF line, total, size
    <3>3. line <= total - size + 1
      BY ONLY <3>2
    <3> QED
      BY <3>3 DEF line, total, size
  <2> QED
    BY <2>2, <2>3
<1> QED
  BY <1>1, <1>2 DEF Advance, Going

(* If the printer answers no line as it does a temperature check, and the  *)
(* printer is not reset: while clients are quiet, getCurrentLine() goes on *)
(* with the lines that leave the buffer, and not for a refused one.        *)
THEOREM ProgressIsTold ==
  ASSUME QueryLines = {}
  PROVE  Spec => ProgressFollows
<1> DEFINE Told ==
      (quiet /\ drv.state \in Printing /\ drv'.state \in Printing /\ resets' = 0) =>
        drv'.currentLine - drv.currentLine =
          (drv'.totalLinesSent - Len(drv'.buffer))
            - (drv.totalLinesSent - Len(drv.buffer))
           Ready == Inductive /\ NoStall /\ Advance
<1>1. Init => Ready
  BY InductiveInit, NoStallInit, AdvanceInit
<1>2. Ready /\ [Next]_vars => Ready'
  <2> SUFFICES ASSUME Ready, [Next]_vars PROVE Ready'
    OBVIOUS
  <2>1. Inductive' /\ Kind
    BY InductiveStep, StepKinds
  <2>2. NoStall'
    BY NoStallStep
  <2>3. Advance'
    BY <2>1, AdvanceStep
  <2> QED
    BY <2>1, <2>2, <2>3
<1>3. Ready /\ [Next]_vars => [Told]_vars
  <2> SUFFICES ASSUME Ready, [Next]_vars PROVE Told
    OBVIOUS
  <2>1. Inductive' /\ Kind
    BY InductiveStep, StepKinds
  <2> QED
    BY <2>1, AdvanceFacts DEF Going
<1>4. ProgressFollows <=> [][Told]_vars
  BY DEF ProgressFollows
<1> HIDE DEF Told, Ready
<1> QED
  BY <1>1, <1>2, <1>3, <1>4, PTL DEF Spec
=============================================================================
