------------------------------ MODULE Lifecycle ------------------------------
(***************************************************************************)
(* How servers come and go (src/src/script, main.cpp, and the beginning    *)
(* and the end of Server.cpp).                                             *)
(*                                                                         *)
(* The init script runs inotifyd, which runs print3d-new-device.sh, here   *)
(* the agent, for every new node in /dev.  The agent starts a runner for   *)
(* each device that has no socket file.  The runner sleeps, runs a server  *)
(* and removes the socket file when the server has exited.  The file is    *)
(* the only thing that tells agents and clients that a server is there;    *)
(* it outlives its server, and it does not say whose it is.                *)
(*                                                                         *)
(* Definitions named Mut... are deliberate mistakes; no specification uses *)
(* them.  Each shows a bug that one of the properties would catch.         *)
(***************************************************************************)
EXTENDS Integers, FiniteSets

CONSTANTS
  Device,      \* the names of printers' device nodes
  MaxRunners,  \* bound: runners at a time, see Room
  MaxUnplugs,  \* bound: times a printer is unplugged
  MaxStops,    \* bound: times the init script is told to stop
  MaxFailures  \* bound: servers that can not start

ASSUME BoundAssumption ==
  /\ IsFiniteSet(Device) /\ MaxRunners \in Nat
  /\ MaxUnplugs \in Nat /\ MaxStops \in Nat /\ MaxFailures \in Nat

VARIABLES
  managed,    \* inotifyd is running
  power,      \* the USB port has power
  cable,      \* the devices whose cable is in
  events,     \* new nodes that inotifyd has not yet run the agent for
  todo,       \* devices the agent has still to visit
  runner,     \* the runners, and the servers they run, see Runner
  socket,     \* a device's socket file: the runner whose server made it, or 0
  (* histories and counters of the model *)
  doubled,    \* devices that have had two runners at a time
  unplugs, stops, failures  \* what has been used of the bounds

counters == <<doubled, unplugs, stops, failures>>
vars == <<managed, power, cable, events, todo, runner, socket, counters>>

-----------------------------------------------------------------------------
(* A runner sleeps, then its server starts, listens, and serves; when the  *)
(* server has exited the runner has still to remove the socket file.  The  *)
(* server's port is open, dead if the device went away, or none.           *)
Id == 1..MaxRunners

Stage == {"sleeping", "starting", "listening", "serving", "exited"}

Alive == {"starting", "listening", "serving"}

Runner == [dev : Device, at : Stage, port : {"none", "open", "dead"}]

NoRunner == [at |-> "none"]

Runners(d) == {i \in Id : runner[i].at # "none" /\ runner[i].dev = d}

Free == {i \in Id : runner[i].at = "none"}

Present(d) == power /\ d \in cable

(* Runner i, now at a stage, with a port.  A server's exit closes its port *)
(* but leaves its socket file.                                             *)
RunnerAt(i, stage, port) == [dev |-> runner[i].dev, at |-> stage, port |-> port]

Exited(i) == RunnerAt(i, "exited", "none")

(* A bound of the model: a node appears, n of them at a time, only while   *)
(* there are enough ids for all runners that may be started.               *)
Room(n) ==
  Cardinality(todo) + (events + n) * Cardinality(Device) <= Cardinality(Free)

-----------------------------------------------------------------------------
Init ==
  /\ managed = FALSE
  /\ power = TRUE
  /\ cable \in SUBSET Device
  /\ events = 0
  /\ todo = {}
  /\ runner = [i \in Id |-> NoRunner]
  /\ socket = [d \in Device |-> 0]
  /\ doubled = {} /\ unplugs = 0 /\ stops = 0 /\ failures = 0

(* The ports of devices that go away *)
Severed(gone) ==
  runner' = [i \in Id |-> IF runner[i].at # "none" /\ runner[i].dev \in gone
                             /\ runner[i].port = "open"
                          THEN RunnerAt(i, runner[i].at, "dead") ELSE runner[i]]

(* inotifyd hears of new nodes while it runs. *)
Notified(n) == events' = IF managed THEN events + n ELSE events

Plug(d) ==
  /\ d \notin cable
  /\ Room(1)
  /\ cable' = cable \cup {d}
  /\ IF power THEN Notified(1) ELSE UNCHANGED events
  /\ UNCHANGED <<managed, power, todo, runner, socket, counters>>

Unplug(d) ==
  /\ d \in cable
  /\ unplugs < MaxUnplugs
  /\ unplugs' = unplugs + 1
  /\ cable' = cable \ {d}
  /\ Severed({d})
  /\ UNCHANGED <<managed, power, events, todo, socket, doubled, stops, failures>>

-----------------------------------------------------------------------------
(* The init script: start() runs inotifyd and takes the power off the USB  *)
(* port, for a second, so that printers that are there are found.          *)
Start ==
  /\ ~managed
  /\ power
  /\ Room(Cardinality(Device))
  /\ managed' = TRUE
  /\ power' = FALSE
  /\ Severed(Device)
  /\ UNCHANGED <<cable, events, todo, socket, counters>>

PowerOn ==
  /\ ~power
  /\ power' = TRUE
  /\ Notified(Cardinality(cable))
  /\ UNCHANGED <<managed, cable, todo, runner, socket, counters>>

(* stop() kills inotifyd and all servers, by name: it does not know of the *)
(* runners, nor of an agent that inotifyd has started.                     *)
Stop ==
  /\ managed
  /\ power
  /\ stops < MaxStops
  /\ stops' = stops + 1
  /\ managed' = FALSE
  /\ events' = 0
  /\ runner' = [i \in Id |-> IF runner[i].at \in Alive THEN Exited(i) ELSE runner[i]]
  /\ UNCHANGED <<power, cable, todo, socket, doubled, unplugs, failures>>

-----------------------------------------------------------------------------
(* print3d-new-device.sh: inotifyd runs it once for each new node and      *)
(* waits for it; it visits all devices that there are when it begins.      *)
MutRunAgent ==
  /\ managed
  /\ todo = {}
  /\ events' = events - 1
  /\ todo' = {d \in Device : Present(d)}
  /\ UNCHANGED <<managed, power, cable, runner, socket, counters>>

RunAgent ==
  /\ managed
  /\ events > 0
  /\ todo = {}
  /\ events' = events - 1
  /\ todo' = {d \in Device : Present(d)}
  /\ UNCHANGED <<managed, power, cable, runner, socket, counters>>

(* A new runner takes the first id that is free, by Room there is one. *)
StartRunner(d) ==
  \E i \in Free :
    /\ \A k \in Free : i <= k
    /\ runner' = [runner EXCEPT ![i] =
                    [dev |-> d, at |-> "sleeping", port |-> "none"]]
    /\ doubled' = IF Runners(d) # {} THEN doubled \cup {d} ELSE doubled

MutVisit(d) ==
  /\ d \in todo
  /\ IF socket[d] = 0 THEN StartRunner(d) /\ todo' = {}
     ELSE todo' = todo \ {d} /\ UNCHANGED <<runner, doubled>>
  /\ UNCHANGED <<managed, power, cable, events, socket, unplugs, stops, failures>>

Visit(d) ==
  /\ d \in todo
  /\ todo' = todo \ {d}
  /\ IF socket[d] = 0 THEN StartRunner(d) ELSE UNCHANGED <<runner, doubled>>
  /\ UNCHANGED <<managed, power, cable, events, socket, unplugs, stops, failures>>

-----------------------------------------------------------------------------
(* print3d-runner.sh and the server it runs in the foreground *)

RunnerFrame ==
  UNCHANGED <<managed, power, cable, events, todo, doubled, unplugs, stops>>

WakeUp(i) ==
  /\ runner[i].at = "sleeping"
  /\ runner' = [runner EXCEPT ![i] = RunnerAt(i, "starting", "none")]
  /\ RunnerFrame
  /\ UNCHANGED <<socket, failures>>

(* main() finds no driver for the printer type, or the socket can not be   *)
(* opened.                                                                 *)
FailToStart(i) ==
  /\ runner[i].at = "starting"
  /\ failures < MaxFailures
  /\ failures' = failures + 1
  /\ runner' = [runner EXCEPT ![i] = Exited(i)]
  /\ RunnerFrame
  /\ UNCHANGED socket

(* openSocket(): a file that is there is removed first, whosever it is. *)
OpenSocket(i) ==
  /\ runner[i].at = "starting"
  /\ runner' = [runner EXCEPT ![i] = RunnerAt(i, "listening", "none")]
  /\ socket' = [socket EXCEPT ![runner[i].dev] = i]
  /\ RunnerFrame
  /\ UNCHANGED failures

(* openConnection(), whose result the server ignores *)
OpenConnection(i) ==
  /\ runner[i].at = "listening"
  /\ runner' = [runner EXCEPT ![i] =
       RunnerAt(i, "serving", IF Present(runner[i].dev) THEN "open" ELSE "none")]
  /\ RunnerFrame
  /\ UNCHANGED <<socket, failures>>

(* A read finds the device gone: requestExit() *)
MutRequestExit(i) ==
  /\ runner[i].at = "serving" /\ runner[i].port = "dead"
  /\ RunnerFrame
  /\ UNCHANGED <<runner, socket, failures>>

RequestExit(i) ==
  /\ runner[i].at = "serving" /\ runner[i].port = "dead"
  /\ runner' = [runner EXCEPT ![i] = Exited(i)]
  /\ RunnerFrame
  /\ UNCHANGED <<socket, failures>>

(* The runner's last line, rm: the file at the path, whosever it is *)
MutRemoveSocket(i) ==
  /\ runner[i].at = "exited"
  /\ runner' = [runner EXCEPT ![i] = NoRunner]
  /\ RunnerFrame
  /\ UNCHANGED <<socket, failures>>

MutRemoveSocketEarly(i) ==
  /\ runner[i].at \in {"serving", "exited"}
  /\ runner' = [runner EXCEPT ![i] = IF @.at = "exited" THEN NoRunner ELSE @]
  /\ socket' = [socket EXCEPT ![runner[i].dev] = 0]
  /\ RunnerFrame
  /\ UNCHANGED failures

RemoveSocket(i) ==
  /\ runner[i].at = "exited"
  /\ runner' = [runner EXCEPT ![i] = NoRunner]
  /\ socket' = [socket EXCEPT ![runner[i].dev] = 0]
  /\ RunnerFrame
  /\ UNCHANGED failures

RunnerStep(i) ==
  \/ WakeUp(i) \/ FailToStart(i) \/ OpenSocket(i) \/ OpenConnection(i)
  \/ RequestExit(i) \/ RemoveSocket(i)

-----------------------------------------------------------------------------
Agent == RunAgent \/ \E d \in Device : Visit(d)

World == Start \/ Stop \/ \E d \in Device : Plug(d) \/ Unplug(d)

Next == World \/ PowerOn \/ Agent \/ \E i \in Id : RunnerStep(i)

Spec == Init /\ [][Next]_vars

(* Scripts and servers go on by themselves; nobody has to plug, unplug,    *)
(* start or stop anything.                                                 *)
FairSpec ==
  /\ Spec
  /\ WF_vars(PowerOn) /\ WF_vars(Agent)
  /\ \A i \in Id : WF_vars(RunnerStep(i))

-----------------------------------------------------------------------------
(* Properties *)

TypeOK ==
  /\ managed \in BOOLEAN /\ power \in BOOLEAN
  /\ cable \subseteq Device /\ todo \subseteq Device /\ doubled \subseteq Device
  /\ events \in Nat
  /\ runner \in [Id -> Runner \cup {NoRunner}]
  /\ socket \in [Device -> Id \cup {0}]
  /\ unplugs \in 0..MaxUnplugs /\ stops \in 0..MaxStops /\ failures \in 0..MaxFailures

(* A socket file is never left behind: the runner whose server made it is  *)
(* still there, and will remove it.  A file without one would keep agents  *)
(* from ever starting a server for the device again.                       *)
SocketHasRunner ==
  \A d \in Device : socket[d] # 0 =>
    /\ socket[d] \in Runners(d)
    /\ runner[socket[d]].at \in {"listening", "serving", "exited"}

(* Clients reach the server of a device through the socket file, unless    *)
(* the device has had two runners at a time: the end or the beginning of   *)
(* one takes the file from the other.                                      *)
ServerIsReachable ==
  \A d \in Device \ doubled : \A i \in Runners(d) :
    runner[i].at \in {"listening", "serving"} => socket[d] = i

Served(d) ==
  \E i \in Runners(d) :
    runner[i].at = "serving" /\ runner[i].port = "open" /\ socket[d] = i

(* A printer that appears is served, if no server was there before it, and *)
(* it stays, nothing is stopped and no server fails.  Nothing less will    *)
(* do: with a server that has not yet noticed that the printer was gone,   *)
(* or that never found it, the agent starts none.                          *)
Noticed(d) ==
  /\ managed /\ Present(d)
  /\ Runners(d) = {}
  /\ d \in todo \/ events > 0

PrinterIsServed ==
  \A d \in Device :
    (Noticed(d) /\ d \notin doubled)
      ~> (Served(d) \/ ~Present(d) \/ ~managed \/ failures > 0)

(* The file of a server whose printer is gone, or that was stopped, goes   *)
(* away or becomes another server's, so that a printer can come back.      *)
Stale(d) ==
  /\ socket[d] # 0
  /\ \/ runner[socket[d]].at = "exited"
     \/ runner[socket[d]].at = "serving" /\ runner[socket[d]].port = "dead"

StaleSocketGoes == \A d \in Device : Stale(d) ~> ~Stale(d)
=============================================================================
