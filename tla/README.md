# print3d: specification, model checking and proofs

print3d is the print server of the Doodle3D WiFi-Box: a daemon per 3D printer
that accepts gcode from front ends over a Unix domain socket, buffers it, and
feeds it to the printer over a serial line. This directory holds TLA+ models of
the parts in which something can go wrong that a test would hardly reach, the
TLC runs that check them, and TLAPS proofs of what matters most.

Paths are relative to the repository; `K:260` below stands for line 260 of the
file named just before.

## 1. Inventory

| component | state | operations | talks to |
|---|---|---|---|
| GCode buffer `src/drivers/GCodeBuffer` | deque of text buckets, line and byte counters, metadata of the last chunk | set, append, clear, getNextLine, eraseLine, setCurrentLine | called by the driver |
| Abstract and Marlin driver `src/drivers/AbstractDriver`, `MarlinDriver` | state (disconnected ... stopping), checkConnection and attempts, current line, baud rate | update (timer, replies), append/clear/set, startPrint, stopPrint, heatup | serial port; calls of the command handlers; printer |
| Makerbot driver `src/drivers/MakerbotDriver` | queue of S3G commands, approximated room of the printer's buffer, valid-response flag | update (convert, send, query), the commands as above | serial port, blocking; printer |
| Command server `src/server/Server`, `Client`, `CommandHandler` | clients with input buffer and transaction (text, active, cancelled) | accept, read, run commands, hang up; ten requests | front ends; driver |
| IPC framing `src/ipc_shared.c`, `src/utils.c` | none of its own; works on byte buffers | construct, complete?, get arguments, remove; read what is there | both ends of the socket |
| Communicator `src/frontends/communicator.c` | socket, last error | one request and one reply per call; text in packets | server |
| Serial port `src/drivers/Serial` | descriptor, read buffer | open, speed, read, write, extract a line | driver |
| Scripts `script/`, start-up `server/main.cpp`, `Server` | processes, the socket file per device | start and stop inotifyd, visit devices, run a server and remove its file | devices, kernel; front ends through the file |
| Command line client `src/frontends/cmdline` | options, exit status | an action per invocation: up to five requests | communicator |
| Lua module `src/frontends/lua` | a printer's device; one socket for all printers of the process | a request (temperatures: five) per function | communicator |
| Driver factory, logging, timer, settings | | | |

Interaction. The server is one thread around `select()`. Each turn of its loop
accepts at most one connection, reads from every client and runs the complete
requests it has, and calls the driver's `update()`. A handler calls the driver
directly. So handlers and updates never interleave *inside* each other; what
does interleave are the clients (each a process of its own, on a byte stream),
the printer (on another pair of byte streams), timeouts on both, and the order
in which requests, updates and replies come.

What is hard in this code, and so what the properties are for:

- *acknowledgements without names*: Marlin's `ok`, the Makerbot's reply packet
  and the server's reply to a client carry nothing that says what they answer;
- *two copies of one fact*: the room in the printer, the size of the buffer, the
  number of buffered lines, `checkConnection_` and the state;
- *texts in pieces*: buckets, transactions of several clients, packets, reads of
  a stream that cut anywhere;
- *a print that has to go on by itself*, driven only by replies;
- *refusal and cancellation* between the pieces;
- *calls of several requests*, between which other clients' requests are run,
  servers come and go, and any of which may fail;
- *a file that stands for a process*: the socket file tells scripts and clients
  that a server is there, but not whose it is or whether it still lives.

Per component, correct means: the buffer gives back the accepted lines, in order
and once, and says "empty" only when it is; the Marlin driver, in orderly use,
prints every line once and in order unless it was given up, never waits for nothing, and shows a
state that agrees with its buffer; the Makerbot driver delivers every command
once and never overflows the printer; the server hands texts to the driver
whole and tells the truth about them; the socket delivers the requests that
were sent, and answers to those who asked; a front end says success only if
everything it stands for was done, at the printer it was meant for; the scripts give each printer one
server that can be reached, and leave no file behind.

`PROJECT.json` lists the hazards one by one, at their lines.

## 2. Modules

| module | models | state ↔ code |
|---|---|---|
| `Sums` | sums over sequences, as a function | |
| `GCodeBuffer` | class GCodeBuffer; every public operation an action | `buf` has a field per member; text is lines with sizes (`SizeOf`), an appended text the pieces that the split loop hands to `appendChunk()`; `accepted` is a history |
| `MarlinDriver` | AbstractDriver + MarlinDriver, the serial streams, the printer | `drv` holds state_, buffer, counters and the stream `tx`; `rx` the replies; `PrinterX` actions are the environment |
| `PrintJob` | abstract specification: what a driver promises | |
| `MakerbotDriver` | MakerbotDriver and its printer | `at` is where the blocking `update()` is, `packet` the packet whose reply is due; bufferSpace is modulo `Word` |
| `CommandServer` | the server's loop, transactions, handlers and clients | `trx` is Client::Transaction; `requests` the complete requests of a client; the driver is the sequence of accepted chunks |
| `IpcConnection` | one connection, byte by byte: communicator.c, ipc_shared.c, Client.cpp | `toServer`, `buffer` are bytes; `toClient` replies; `rest`, `packetNum`, `rv` locals of `comm_sendGCodeData()` |
| `Lifecycle` | the scripts and how servers start and exit; printers plugged and unplugged | `runner` is a runner script and the server it runs, `socket` the file in /tmp and whose server made it, `todo` the agent's loop |
| `FrontEnds` | the command line client and Lua programs, over `communicator.c`'s one socket, with several servers | `call` is the invocation or function a process is in, `socket` is socketFd, `queue` and `gcode` a server's requests and buffer; `done`, `print`, `left` are histories |
| `SumsProofs`, `GCodeBufferProofs`, `MarlinDriverProofs`, `MakerbotDriverProofs`, `CommandServerProofs`, `LifecycleProofs`, `FrontEndsProofs`, `IpcConnectionProofs` | theorems and proofs | |
| `MC...` | instances for TLC | |

How they fit together: `IpcConnection` shows that the requests `CommandServer`
starts from arrive as they were sent, so that there a request is one value.
`FrontEnds` goes a step further: a text is one request there, and what it adds is
the calls made of requests, by processes that use several servers.
`CommandServer` shows what reaches the driver's `appendGCode()`. `GCodeBuffer`
shows that the class is a sequence of lines with counters, which is what the
buffer in `MarlinDriver` and `MakerbotDriver` is. `MarlinDriver` is shown to
implement `PrintJob`.

Every handler is one action with all it changes, including what it calls:
`StopPrint` in `MarlinDriver` is clear, set and start of the end code, as in
`AbstractDriver::stopPrint()`. Operators named `Mut...` are deliberate mistakes
used to see that a property notices them; no specification refers to them.

Abstractions worth knowing:

- Gcode is line numbers (drivers) or lines with sizes (buffer). The cleanup of
  comments is modelled by what it does to sizes and line counts.
- A read of the serial line by the Marlin driver yields whole reply lines, by
  kind (`T`, `ok`, `Resend`, `start`). Temperatures are not stored.
- A Makerbot reply is a start byte that stands for the reply, followed by as
  many other bytes as it really has, because the driver may get out of step.
  `Damage` of three kinds may happen at any packet. A *packet* damaged on the way
  is not taken, and answered by an error code (0x83), which `parseResponse()` takes
  for success (:434); if it was the request for the room, the driver reads a number
  from behind that code. A reply with a damaged *checksum* or damaged data is
  dropped (:427) and the packet not sent again. A reply with a damaged *frame* is
  bytes of which nothing is known: a first byte that is not 0xD5 makes the driver
  send the packet again, a length of 0 or a read that brings nothing ends the reply
  as success (:395, :403), and with any other length, or a read that brings less
  than it was asked for, the driver takes some of the bytes and judges their
  checksum right or wrong (`ParseResponse`). The bytes that it does not take are
  there before the next reply. A reply that is read while the driver is
  out of step may put any number into `bufferSpace_`. What never arrives ends in a
  timeout, by which the server exits (`PortLost`).
- The properties of the Makerbot driver say until when they hold: `suffered` notes
  what has been damaged. Once a frame was ("frame", also stray bytes), the code can
  send a command twice and overflow the printer; a damaged request for the room
  ("space") can make it overflow. NoOverflow and IdleMeansDone (as to the printer's
  buffer) hold before either (`RoomKnown`), EveryCommandOnce allows a repeat only
  after a damaged frame. A command whose packet was damaged is lost, and the driver
  does not know; it was *sent* in its order, which is what EveryCommandOnce tells.
- In `IpcConnection`, total lines, sequence numbers and source of a packet are
  left out (they are further arguments of the same form).
- `update()` of the Marlin driver reads replies one per step; the loop may find
  just one, so every interleaving of the code is a behaviour of the model.

## 3. Runs

`P` passes; `V` finds the violation of something the documentation, a comment or
a test says.

| run | | shows |
|---|---|---|
| `buffer_calls` | P | DeliversInOrder, ZeroMeansDrained, SizeWithinLimit, ChunksInSequence |
| `buffer_size` | V | SizeIsStoredText: a text that is one bare comment stays in bufferSize_ |
| `marlin_commands` | P | OnlineWhenChecked, PrintingHasLine, NoStall, LinesInOrder, under fairness PrintEnds and PrinterFound; with clients that wait, ProgressFollows and the refinement PrintsAsJob |
| `marlin_resend` | V | RefusedLineIsSentAgain: with two lines in flight another line is sent |
| `makerbot_print` | P | NoOverflow, EveryCommandOnce, IdleMeansDone, PrintEnds |
| `makerbot_stray` | V | NoCommandTwice: with two stray bytes a command is sent again |
| `server_requests` | P | TextsInOnePiece, OkMeansAppended, and under fairness EveryRequestRuns |
| `server_stop` | V | NoTransferContinues: the chunk of a cancelled transfer is taken |
| `ipc_stream` | P | RunsWhatIsSent, TextInPackets, AnswersInStep, CallReturns |
| `lifecycle` | P | SocketHasRunner, ServerIsReachable, and under fairness PrinterIsServed, StaleSocketGoes |
| `front_ends` | P | ZeroMeansDone, PrintsItsText, OwnPrinter, and under fairness CallsEnd |
| `ipc_late` | V | ZeroMeansAnswered: a late reply is the next request's answer |

Bounds, and why they are enough:

- `buffer_calls`: buckets of 4 and a buffer of 10 bytes, lines of 2 and 3 bytes,
  up to 4 lines between two clears. A line that fills a bucket exactly, one that
  overfills it, a third bucket, an erase that ends in and at the end of a bucket,
  a refusal at the limit and one byte over it all occur. The metadata arguments
  agree and disagree in number, total and source with what was accepted; up to 4
  accepted chunks (`MaxChunks`) are recorded between two clears.
- `marlin_*`: 3 lines, 2 codes in flight before a client adds more (3 in
  `marlin_resend`), up to 2 refusals, 1 reset
  (none in `marlin_resend`). Two lines in flight is the least
  with which an acknowledgement can be for the wrong one, and a stop with an end
  code of two lines during a print needs three.
- `makerbot_print`: a printer buffer of 4 that is refilled above a room of 2, a
  queue filled from below 1 up to 2, commands of 2, 1 and 1 bytes, a line without
  commands, two tries, one damaged packet or reply of any kind. `Margin` is 0 (the
  code: 5) so that one lost reply is enough for the count of the room to wrap
  around; full buffer and refilling occur too. `MaxUnread` bounds the bytes in the
  serial buffer to 8, the length of the longest reply: behaviours in which more of
  them wait are cut off. `makerbot_stray` has five tries as the code, two stray
  bytes and room for 20 bytes unread.
- `server_*`: two clients, two texts of up to two chunks each. Two requests per
  client (three in `server_stop`) are enough for a text that is broken off and
  one that is begun after it, for chunks of two texts that alternate, and for a
  stop or clear between two chunks; both may wait at the server at a time.
- `lifecycle`: two printers, up to four runners at a time, an unplugging by the
  user besides the power cycle of every start, one stop, one server that cannot
  start. Two events for two printers double a runner, which is the least for a
  file to be taken away. A start waits until no runner of before the stop is left
  (`Room`), so a runner that sleeps through stop *and* start is not covered.
- `front_ends`: two printers, a user and a Lua program, three calls between them,
  one start of each server. Prints of a text, a file and stdin, a call of two
  requests that goes on after a failure (the test; the temperatures are like it
  with five), every kind of error, any set of printers in /dev, and from Lua a
  stop, which cancels what others send and may be left by an error. Two calls of a
  process are the least for a late answer, or a socket left open, to meet the next
  call.
- `ipc_stream`: two calls, packets of 3 bytes; texts with the line break before,
  at and behind the packet's end, none at the end, a line that is too long, an
  empty text; requests with no, an empty and a two-byte argument. The header and
  length fields have their real widths, and a read returns any part.

`CHECK_DEADLOCK FALSE` is in every configuration because each system may rightly
stop: clients stop sending (and the bounds on what they send end), the buffer may
be full, and a driver whose port is lost exits.

Fairness. `update()` is called at least every 200 ms (Marlin) or 30 times a second
(Makerbot) by the loop's select timeout, and every client is visited in each
turn; so the driver's and the server's steps are weakly fair. The printer is
assumed to answer what it receives; without that nothing in the code makes a
print end. `poll()` in the client ends with data or after IPC_WAIT_TIMEOUT; in `FrontEnds`
that is all: servers may be silent for ever (CallsEnd holds all the same).
Clients, accidents, resets and lost ports have no fairness; nor have, in
`Lifecycle`, plugging, unplugging, starting and stopping, while the scripts and
servers go on by themselves.

`quiet` in `MarlinDriver` is chosen at the start and restricts clients: append at
any time, but clear, start, stop and heat only when the printer owes no answer.
Without it the driver is not a `PrintJob`: that is the run `marlin_resend` and some
of the observations below. PrintsAsJob and ProgressFollows are about quiet clients
only: in a behaviour of others the refinement maps the job to one that never
begins. The other properties hold for any client.

What PrintsAsJob tells: the job counts how often a line was printed (`printed`), and
`executions` counts what the printer executes, so a line that is executed twice is
a step that the job does not have, and a line left out another. A refused line, a
start during a print that a reset has stopped, and the line that the reset lost are
thus checked to be neither. That a reset stops the print for good is not a
violation: the job promises no progress, and PrintEnds excludes resets.
LinesInOrder, for any clients, allows a line to be executed again: a second start
during a print sends the head of the buffer a second time (AbstractDriver.cpp:140,
MarlinDriver.cpp:80).

## 4. What the code does that its texts do not say

Shown by the violation runs (details in `PROJECT.json`): `buffer_size`
(GCodeBuffer.cpp:376), `marlin_resend` (MarlinDriver.cpp:124), `makerbot_stray`
(MakerbotDriver.cpp:479), `server_stop` (CommandHandler.cpp:141), `ipc_late`
(communicator.c:122).

Observed while modelling and part of the models, but not runs of their own:

- GCodeBuffer.cpp:136: a refused chunk without metadata is logged through a null
  pointer, against the comment at :89 (`RefusalDereferencesNull`).
- GCodeBuffer.cpp:127: the total is compared with later chunks only, not with
  the number of the chunk that brings it.
- GCodeBuffer.cpp:284: `eraseLine()` on an empty bucket counts lines that are not
  there (`EraseCounts`). The drivers never call it so.
- MarlinDriver.cpp:124: a Resend is obeyed in every state; :47: the change of
  baud rate is commented out, though docs/drivers.md:9 describes it; :94: a line
  answered with `ok T:` is not taken as acknowledged, so a print with M105 in its
  gcode stops (the constant `QueryLines`); :120: the message of a printer that was
  reset is ignored, so a print waits for ever for the `ok` that was lost.
- AbstractDriver.cpp:140: a second print without a clear counts from 0 of a total
  that includes the first; :258: a stop during a print can end with lines of the
  end code still in flight.
- CommandHandler.cpp:218: the result of appending a file is ignored; :143 and
  :198: two replies to one request, which `IpcConnection` shows to shift all
  later answers unless one read takes both (`astray`).
- communicator.c:36: MAX_PACKET_SIZE allows for 8 bytes of header, an append has
  38 or more; nothing depends on it, because the server assembles packets from
  any reads. communicator.c:109 says that send() blocks, the socket does not.
- MakerbotDriver.cpp: a timeout of a read is -2 and taken for a closed port
  (:559), so the server exits and the retry for timeouts is not reached; error
  codes in a reply are logged and taken as success (:434), a length of 0 and a
  read of nothing too (:395, :403), and the room is read from whatever reply comes
  (:442); `fullStop()` does not clear the printer's buffer (:360).
- print3d-new-device.sh:18: the socket file that says "a server is running" is
  made some five seconds after the runner was started, so two events in a row
  start two servers for one printer (`doubled`); the second takes the socket, and
  the end of the first removes it. Server.cpp:96: a server that finds no device
  goes on without a port and keeps its file. A printer that is back before its
  server has noticed gets no server until the next event.
- Server.cpp:79: start() returns `false` if the socket cannot be opened, which
  is 0 and, by the comment at :70 and main.cpp:228, success.

- fe_lua.c:125: the socket is opened only if none is open. A function that is left
  by an error (:300 returns, the luaL_check... functions raise) keeps it, and the
  next function of *another* printer then talks to the first one's server (`left`
  in `FrontEnds`; OwnPrinter says that this is the only way).
- actions.c:174: what is read from stdin is not ended by a nul byte before it is
  used as a string (`junk`). A file whose text the driver refuses is reported as
  sent and started (CommandHandler.cpp:218).
- actions.c:29 and :53: with -t a failure is printed and the temperatures too, in
  JSON mode two objects or more; fe_cmdline.c: a relative path is complained about
  twice (actions.c:382 does not return).
- communicator.c:266 and :310: the self-test expects "retry later" as -3 and "cancelled" as
  -2, where handleBasicResponse() has -4 and -3; its result (:247) has room for six
  answers, and seven are written.
- fe_lua.c:447: an invalid number of a log level is reported and set all the same.
- ipc_shared.c:126: with three or more printers the list has no NULL at its end.

## 5. Proofs

Checked by TLAPS for all values of the constants that satisfy the named
assumptions (sizes and bounds are naturals, inputs have their types).

`GCodeBufferProofs`. For `AnyCallSpec`, that is any order of calls of the class,
also calls no driver makes:

- `TypeCorrect`: Spec => []TypeOK. Inductive as it stands; the loop of
  `append()` is a recursive function, so its type rests on `AppendChunksInduction`,
  an induction over the pieces.
- `ChunkSequence` (ChunksInSequence), from the invariant `Sequenced`: what `append()`
  has kept of the chunks accepted so far, one record, is enough to compare the next
  one with all of them. A chunk without metadata keeps the record, and one that leaves
  a number, a total or a source open is refused if the record has it.

For `Spec`, the calls that the drivers make:

- `DeliveredInOrder` (DeliversInOrder), `DrainedAtZero` (ZeroMeansDrained) and
  `SizeLimited` (SizeWithinLimit), from one invariant `Holds`: the buckets hold
  the lines that the counters say, the size counted is at least that of the
  stored text, and *no bucket but the last is without lines*. The last part is what
  makes the first bucket, the only one `getNextLine()` looks at, tell of all of
  them. `AppendChunksKept` carries it through the split loop, where a chunk may be half
  a line, and `ErasedKept` through `eraseLine()`, which may drop a bucket.

`MarlinDriverProofs`, for `Spec`:

- `TypeCorrect`, `PrintsALine` (PrintingHasLine), `ChecksConnection`
  (OnlineWhenChecked) from one inductive invariant,
  `Inductive == TypeOK /\ OnlineWhenChecked /\ PrintingHasLine`. The conjuncts
  need each other: a temperature makes the driver idle only because a checked
  connection means offline, so it cannot leave a print behind.
- `NeverStalls` (NoStall): if no line is answered as M105 is (QueryLines = {}), a
  print always has an answer coming until the printer is reset. It rests on the
  invariant above (a driver that starts or goes on with a print has a line to
  send) and one lemma each for commands, updates and the printer.
- `ImplementsJob` (PrintsAsJob): the driver, its streams and the printer refine
  `PrintJob`, if QueryLines = {}: a line that is answered as M105 is stays at the
  head after it was executed, and a new start would send it again. `Numbered` says that
  the buffer's lines are the ones appended last. `InStep` says, for quiet clients,
  where the printer can be: what has been printed is not beyond the head of the
  buffer (`Behind`), and of what is on its way at most one code or one answer
  matters, during a print that of the buffer's head (`Flight`). `NoneAgain` says that a
  line which has been executed and is still in the buffer has its `ok` on the way back;
  so a quiet client's start or stop cannot send it again, and a `Resend` is never about it.
  `StepKinds` sorts the actions into a dozen kinds by what they do to
  buffer and streams (`Kind`); `JobStep` shows that each is a step of the job or none.
- `ExecutesInOrder` (LinesInOrder), for *any* clients: as long as nothing was
  refused and the printer was not reset, the lines on their way are in order,
  between the last printed one and the head of the buffer, and every line that has
  left the buffer, but was not given up, is printed or among them (`Orderly`).
- `ProgressIsTold` (ProgressFollows), if QueryLines = {}: the current line is at
  most one ahead of the lines that have left the buffer (`Advance`), so the
  cut at the total in `setCurrentLine()` never takes effect. By NoStall no quiet
  client's command comes in the middle.

`MakerbotDriverProofs`, for `Spec`:

- `TypeCorrect`, with stray bytes, short reads and damaged packets and replies.
- `NeverOverflows` (NoOverflow), `OnceAndInOrder` (EveryCommandOnce) and
  `IdleWhenDone` (IdleMeansDone), for any number of stray bytes and any damage; what
  they exclude is in the properties (`RoomKnown`, "frame"). The invariant is in three
  parts. `Books`: as long as the driver is in step no byte is left unread (`Framed`); and while
  it knows the room, its count, undone of its wrap-around, plus the command on its
  way, is at most the real room, and is below zero by at most the damaged replies
  (`Account`); `WordAssumption` (the word has twice the room of that) keeps the two
  ends of the wrap-around apart. `Ordered`: the commands sent, on their way and in
  the queue follow each other up to the lines not yet converted, and a packet is
  that of the command sent last only in a second try. `Drained`: the queue
  is refilled before it is looked at, so an empty one means that no line is left.

`CommandServerProofs`, for `Spec`, any clients and bounds:

- `TypeCorrect`, `TextsWhole` (TextsInOnePiece) and `OkTellsTheTruth`
  (OkMeansAppended). The invariant `Formed` says of every client that its
  transaction is the beginning of *one* of its texts, and that each chunk in its
  queue has its predecessor before it, in the queue or at the end of the
  transaction of an accepted connection (`Chained`). So the last chunk completes
  the whole text, and a broken off text is never continued by another.

`LifecycleProofs`, for `Spec`, any number of devices and runners:

- `TypeCorrect`. The count of new nodes stays a number because a power cycle
  announces a finite set of them at once (`CableCounts`).
- `FileHasRunner` (SocketHasRunner) and `ListenerIsReachable` (ServerIsReachable),
  from an invariant that adds: without doubling, a device has one runner. Only
  then is the file that a runner removes its own.

`FrontEndsProofs`, for `Spec`, any number of printers and processes and any
command lines:

- `OwnPrinterOnly` (OwnPrinter), from the invariant that the socket of a process
  that has no request on its way is closed or the one an error has left open
  (`Leads`), also while the call is about to open one. It needs the shape of a
  call's record only, so nothing is assumed about what `Parse` computes.
- `TypeCorrect` (TypeOK). A call that has begun has a printer, since `main()` ends
  when none was given or can be chosen (`InvokedTyped`), and a request of its script
  is left until it ends (`InCall`); `Parse` takes the last action and device given.
- `ZeroTellsTheTruth` (ZeroMeansDone). `Linked`: a connection has the number of the
  call that opened it, so a new one has none of the requests that earlier calls left
  in a queue, and its requests are in one queue only. `Answered`: of a call without
  failure so far, either one request is on its way or one answer, never both, and
  what was run is the beginning of its script. `Moves` sorts the steps of a process
  into five kinds, by what they do to its call, socket and requests.
- `OwnTextOnly` (PrintsItsText), with `Printing`: while nobody comes in between and
  the server that was connected to lives, the buffer is empty after the clear and
  holds the text after the append. A server that is started again is another one
  (`StartServerKeeps`), so a connection never sees an exchanged buffer.

`IpcConnectionProofs`, for `Spec`, any requests, texts and packet size:

- `StreamIsRun` (RunsWhatIsSent), from `Streamed`: what is on its way behind what
  the server has read are the bytes of the commands sent and not yet run, whole
  and in order. It rests on three facts about the framing. `EncodedFacts`: the
  bytes of a command are its head and, one behind the other, its arguments, each
  ending where `EndIn` says. `CommandIsFramed`: given those bytes and whatever follows
  them, `CommandLength` finds the command's end and `Decoded` the command, and in less than all of them
  it finds no complete command; the induction over the arguments (`ArgEndStep`)
  is one of `ArgEnd`, a recursive function. `FirstCommand`: so a nonempty buffer holds
  a complete command only if it begins with the oldest one not yet run.
  The commands are those that fit their form: a count of arguments of 16 bits and
  lengths of 32 bits (`Command`; `PacketAssumption` asks it of the packet size).
  Beyond that `ipc_cmd_add_arg()` would store a count or length that is cut off.
- `TextIsSent` (TextInPackets), from `Packeted`: the last `packetNum` commands are
  the packets of the running call, and one after the other they are what `rest` has lost of the text
  (`Told`, `ToldMore`). Between two packets gcode remains, so none is sent twice and
  none after the last.
- `RepliesMatch` (AnswersInStep), from `InStep`: as long as nobody went astray, at
  most one request is unanswered, and it is in exactly one place: on its way, about
  to be answered, or its answer on the way back.
- `TypeCorrect`. That what is decoded is a command again needs the framing, so
  types and `Streamed` are one invariant (`Base`).

`SumsProofs` has the lemmas on sums: the recursive function exists and is
unique, its type, the empty, singleton and concatenated sequence.

Model-checked only: liveness under fairness (CallReturns, PrinterIsServed and the
others), which is out of the prover's reach. The cleanup of comments is in the
models by what it does to sizes, so what it computes for every text is neither
checked nor proved.

## 6. Not modelled

Temperatures and their parsing; settings, logging, the server's options; the
self-test behind -g trxtest (two sockets of its own; the requests are those of
`CommandServer`), and the Lua functions that send nothing; termios and the byte
level of the serial port; the gpx converter (outside the repository); `select()`'s descriptor sets; a `send()`
that writes a part of a request; the fork of a server started by hand. `PROJECT.json`
lists each part with its status.

## 7. Plan

In this order:

1. `CleanupGCode`: the comment and line cleanup as a pure function on a small
   alphabet, against a reference definition, with the bucket boundaries.
2. `SerialLines`: reads of the serial port cut anywhere, lines extracted whole.
3. A composition of `CommandServer` with the buffer's refusals and the driver.
