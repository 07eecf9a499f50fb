--------------------------- MODULE LifecycleProofs ---------------------------
(***************************************************************************)
(* What Lifecycle promises for any number of devices and of runners:       *)
(* no socket file is left behind, a server that listens can be reached     *)
(* unless its device has had two runners at a time, and types.             *)
(***************************************************************************)
EXTENDS Lifecycle, FiniteSetTheorems, TLAPS

(* The parts of TypeOK that the invariants need *)
Typed ==
  /\ runner \in [Id -> Runner \cup {NoRunner}]
  /\ socket \in [Device -> Id \cup {0}]
  /\ todo \subseteq Device
  /\ doubled \subseteq Device

(* Without doubling a device has one runner at most, so the file that a    *)
(* runner removes is its own.                                              *)
OneRunner ==
  \A d \in Device \ doubled : \A i, j \in Runners(d) : i = j

(* The inductive invariant *)
Invariant == Typed /\ SocketHasRunner /\ OneRunner /\ ServerIsReachable

-----------------------------------------------------------------------------
LEMMA RunnerFields ==
  ASSUME NEW i \in Id, Typed, runner[i].at # "none"
  PROVE  /\ runner[i] \in Runner
         /\ runner[i].dev \in Device /\ runner[i].at \in Stage
  BY DEF Typed, Runner, NoRunner, Stage

LEMMA Constructed ==
  ASSUME NEW d \in Device, NEW s \in Stage, NEW p \in {"none", "open", "dead"}
  PROVE  /\ [dev |-> d, at |-> s, port |-> p] \in Runner
         /\ [dev |-> d, at |-> s, port |-> p].dev = d
         /\ [dev |-> d, at |-> s, port |-> p].at = s
         /\ s # "none"
  BY DEF Runner, Stage

LEMMA RunnerAtFacts ==
  ASSUME Typed, NEW i \in Id, runner[i].at # "none",
         NEW stage \in Stage, NEW port \in {"none", "open", "dead"}
  PROVE  LET moved == RunnerAt(i, stage, port)
         IN  moved \in Runner /\ moved.dev = runner[i].dev /\ moved.at = stage
BY RunnerFields, Constructed DEF RunnerAt

LEMMA InitInvariant == Init => Invariant
<1> SUFFICES ASSUME Init PROVE Invariant
  OBVIOUS
<1>1. \A i \in Id : runner[i].at = "none"
  BY DEF Init, NoRunner
<1>2. \A d \in Device : Runners(d) = {}
  BY <1>1 DEF Runners
<1>3. Typed
  BY DEF Init, Typed
<1>4. SocketHasRunner
  BY DEF Init, SocketHasRunner
<1>5. OneRunner /\ ServerIsReachable
  BY <1>2 DEF OneRunner, ServerIsReachable
<1> QED BY <1>3, <1>4, <1>5 DEF Invariant

(* Steps that leave the files alone, and all runners to their devices: a   *)
(* server that has begun may end, but none begins to listen.               *)
Settled == {"listening", "serving", "exited"}

LEMMA KeepsFiles ==
  ASSUME Invariant, Typed', UNCHANGED <<socket, doubled>>,
         \A d \in Device : Runners(d)' = Runners(d),
         \A i \in Id : runner[i].at \in Settled => runner'[i].at \in Settled,
         \A i \in Id : runner'[i].at \in {"listening", "serving"} =>
                         runner[i].at \in {"listening", "serving"}
  PROVE  Invariant'
<1>1. SocketHasRunner'
  BY DEF Invariant, Typed, SocketHasRunner, Settled
<1>2. OneRunner'
  BY DEF Invariant, OneRunner
<1>3. ServerIsReachable'
  <2> SUFFICES ASSUME NEW d \in Device \ doubled, NEW i \in Runners(d),
                      runner'[i].at \in {"listening", "serving"}
               PROVE  socket[d] = i
    BY DEF ServerIsReachable
  <2> QED BY DEF Invariant, ServerIsReachable, Runners
<1> QED BY <1>1, <1>2, <1>3 DEF Invariant

(* One runner moves on, to another stage or with another port. *)
LEMMA OneMoves ==
  ASSUME Typed, NEW i \in Id, runner[i].at # "none",
         NEW stage \in Stage, NEW port \in {"none", "open", "dead"},
         runner' = [runner EXCEPT ![i] = RunnerAt(i, stage, port)]
  PROVE  /\ runner' \in [Id -> Runner \cup {NoRunner}]
         /\ runner'[i].at = stage
         /\ \A j \in Id \ {i} : runner'[j] = runner[j]
         /\ \A d \in Device : Runners(d)' = Runners(d)
<1> DEFINE moved == RunnerAt(i, stage, port)
<1>1. moved \in Runner /\ moved.dev = runner[i].dev /\ moved.at = stage /\ stage # "none"
  BY RunnerAtFacts DEF Stage
<1>2. runner' = [runner EXCEPT ![i] = moved]
  OBVIOUS
<1> HIDE DEF moved
<1>3. runner' \in [Id -> Runner \cup {NoRunner}]
  BY <1>1, <1>2 DEF Typed
<1>4. runner'[i] = moved /\ \A j \in Id \ {i} : runner'[j] = runner[j]
  BY <1>2 DEF Typed
<1>5. ASSUME NEW d \in Device PROVE Runners(d)' = Runners(d)
  BY <1>1, <1>4 DEF Runners
<1> QED BY <1>1, <1>3, <1>4, <1>5

LEMMA SeveredKeeps ==
  ASSUME Invariant, NEW gone \in SUBSET Device, Severed(gone),
         UNCHANGED <<socket, doubled>>, todo' = todo
  PROVE  Invariant'
<1>1. ASSUME NEW i \in Id
      PROVE  /\ runner'[i] \in Runner \cup {NoRunner}
             /\ runner'[i].at = runner[i].at
             /\ runner[i].at # "none" => runner'[i].dev = runner[i].dev
  <2>1. CASE runner[i].at # "none" /\ runner[i].dev \in gone /\ runner[i].port = "open"
    <3>1. runner'[i] = RunnerAt(i, runner[i].at, "dead")
      BY <2>1 DEF Severed
    <3>2. Typed /\ runner[i].at \in Stage
      BY <2>1, RunnerFields DEF Invariant
    <3> QED BY <2>1, <3>1, <3>2, RunnerAtFacts
  <2>2. CASE ~(runner[i].at # "none" /\ runner[i].dev \in gone /\ runner[i].port = "open")
    BY <2>2 DEF Severed, Invariant, Typed
  <2> QED BY <2>1, <2>2
<1>2. runner' \in [Id -> Runner \cup {NoRunner}]
  <2>1. DOMAIN runner' = Id /\ runner' = [i \in Id |-> runner'[i]]
    BY DEF Severed
  <2> QED BY <1>1, <2>1
<1>3. Typed'
  BY <1>2 DEF Invariant, Typed
<1>4. \A d \in Device : Runners(d)' = Runners(d)
  BY <1>1 DEF Runners
<1> QED BY <1>1, <1>3, <1>4, KeepsFiles DEF Settled

LEMMA StopKeeps == ASSUME Invariant, Stop PROVE Invariant'
<1>1. ASSUME NEW i \in Id
      PROVE  /\ runner'[i] \in Runner \cup {NoRunner}
             /\ \/ runner'[i].at = runner[i].at
                \/ runner'[i].at = "exited" /\ runner[i].at # "none"
             /\ runner[i].at # "none" => runner'[i].dev = runner[i].dev
  <2>1. CASE runner[i].at \in Alive
    <3>1. runner'[i] = RunnerAt(i, "exited", "none")
      BY <2>1 DEF Stop, Exited
    <3>2. Typed /\ "exited" \in Stage /\ runner[i].at # "none"
      BY <2>1 DEF Invariant, Alive, Stage
    <3> QED BY <3>1, <3>2, RunnerAtFacts
  <2>2. CASE runner[i].at \notin Alive
    BY <2>2 DEF Stop, Invariant, Typed
  <2> QED BY <2>1, <2>2
<1>2. runner' \in [Id -> Runner \cup {NoRunner}]
  <2>1. runner' = [i \in Id |-> runner'[i]]
    BY DEF Stop
  <2> QED BY <1>1, <2>1
<1>3. Typed'
  BY <1>2 DEF Invariant, Typed, Stop
<1>4. \A d \in Device : Runners(d)' = Runners(d)
  BY <1>1 DEF Runners
<1>5. UNCHANGED <<socket, doubled>>
  BY DEF Stop
<1> QED BY <1>1, <1>3, <1>4, <1>5, KeepsFiles DEF Settled

(* Steps of the world and of the scripts that no runner notices *)
LEMMA UnnoticedKeeps ==
  ASSUME Invariant, UNCHANGED <<runner, socket, doubled>>, todo' \subseteq Device
  PROVE  Invariant'
<1>1. Typed'
  BY DEF Invariant, Typed
<1>2. \A d \in Device : Runners(d)' = Runners(d)
  BY DEF Runners
<1> QED BY <1>1, <1>2, KeepsFiles

(* A new runner has no file, and if it is not its device's only one the    *)
(* device counts as doubled.                                               *)
LEMMA VisitKeeps == ASSUME Invariant, NEW d \in Device, Visit(d) PROVE Invariant'
<1>1. CASE UNCHANGED <<runner, doubled>>
  BY <1>1, UnnoticedKeeps DEF Visit, Invariant, Typed
<1>2. CASE StartRunner(d)
  <2> DEFINE new == [dev |-> d, at |-> "sleeping", port |-> "none"]
  <2>1. PICK i \in Free : /\ runner' = [runner EXCEPT ![i] = new]
                          /\ doubled' = IF Runners(d) # {} THEN doubled \cup {d} ELSE doubled
    BY <1>2 DEF StartRunner
  <2>2. i \in Id /\ runner[i].at = "none"
    BY DEF Free
  <2>3. new \in Runner /\ new.dev = d /\ new.at = "sleeping"
    BY Constructed DEF Stage
  <2> HIDE DEF new
  <2>4. runner'[i] = new /\ \A j \in Id \ {i} : runner'[j] = runner[j]
    BY <2>1, <2>2 DEF Invariant, Typed
  <2>5. Typed'
    BY <2>1, <2>2, <2>3 DEF Invariant, Typed, Visit
  <2>6. Runners(d)' = Runners(d) \cup {i}
    BY <2>2, <2>3, <2>4 DEF Runners
  <2>7. \A e \in Device \ {d} : Runners(e)' = Runners(e)
    BY <2>2, <2>3, <2>4 DEF Runners
  <2>8. socket' = socket /\ doubled \subseteq doubled'
    BY <2>1 DEF Visit
  <2>9. SocketHasRunner'
    <3> SUFFICES ASSUME NEW e \in Device, socket[e] # 0
                 PROVE  /\ socket[e] \in Runners(e)'
                        /\ runner'[socket[e]].at \in {"listening", "serving", "exited"}
      BY <2>8 DEF SocketHasRunner
    <3>1. socket[e] \in Runners(e) /\ runner[socket[e]].at \in {"listening", "serving", "exited"}
      BY DEF Invariant, SocketHasRunner
    <3>2. socket[e] \in Id \ {i}
      BY <2>2, <3>1 DEF Runners
    <3> QED BY <2>4, <2>6, <2>7, <3>1, <3>2
  <2>10. OneRunner'
    <3> SUFFICES ASSUME NEW e \in Device \ doubled' PROVE \A j, k \in Runners(e)' : j = k
      BY DEF OneRunner
    <3>1. CASE e = d
      BY <2>1, <2>6, <3>1
    <3>2. CASE e # d
      BY <2>7, <2>8, <3>2 DEF Invariant, OneRunner
    <3> QED BY <3>1, <3>2
  <2>11. ServerIsReachable'
    <3> SUFFICES ASSUME NEW e \in Device \ doubled', NEW j \in Runners(e)',
                        runner'[j].at \in {"listening", "serving"}
                 PROVE  socket[e] = j
      BY <2>8 DEF ServerIsReachable
    <3>1. j # i
      BY <2>3, <2>4
    <3>2. j \in Runners(e) /\ runner[j].at \in {"listening", "serving"}
      BY <2>4, <2>6, <2>7, <3>1 DEF Runners
    <3> QED BY <2>8, <3>2 DEF Invariant, ServerIsReachable
  <2> QED BY <2>5, <2>9, <2>10, <2>11 DEF Invariant
<1> QED BY <1>1, <1>2 DEF Visit

(* A runner's server goes on, or exits; the files stay as they are. *)
LEMMA ServerKeeps ==
  ASSUME Invariant, NEW i \in Id,
         \/ WakeUp(i) \/ FailToStart(i) \/ OpenConnection(i) \/ RequestExit(i)
  PROVE  Invariant'
<1>1. PICK stage \in Stage, port \in {"none", "open", "dead"} :
        /\ runner' = [runner EXCEPT ![i] = RunnerAt(i, stage, port)]
        /\ runner[i].at \in Settled => stage \in Settled
        /\ stage \in {"listening", "serving"} => runner[i].at \in {"listening", "serving"}
        /\ runner[i].at # "none"
  <2>1. CASE WakeUp(i)
    BY <2>1 DEF WakeUp, Stage, Settled
  <2>2. CASE FailToStart(i)
    BY <2>2 DEF FailToStart, Exited, Stage, Settled
  <2>3. CASE OpenConnection(i)
    BY <2>3 DEF OpenConnection, Stage, Settled
  <2>4. CASE RequestExit(i)
    BY <2>4 DEF RequestExit, Exited, Stage, Settled
  <2> QED BY <2>1, <2>2, <2>3, <2>4
<1>2. UNCHANGED <<socket, doubled, todo>>
  BY DEF WakeUp, FailToStart, OpenConnection, RequestExit, RunnerFrame
<1>3. Typed
  BY DEF Invariant
<1>4. /\ runner' \in [Id -> Runner \cup {NoRunner}]
      /\ runner'[i].at = stage
      /\ \A j \in Id \ {i} : runner'[j] = runner[j]
      /\ \A d \in Device : Runners(d)' = Runners(d)
  BY <1>1, <1>3, OneMoves
<1>5. Typed'
  BY <1>2, <1>3, <1>4 DEF Typed
<1> QED BY <1>1, <1>2, <1>4, <1>5, KeepsFiles

LEMMA OpenSocketKeeps == ASSUME Invariant, NEW i \in Id, OpenSocket(i) PROVE Invariant'
<1> DEFINE d == runner[i].dev
<1>1. runner[i].at = "starting" /\ Typed
  BY DEF OpenSocket, Invariant
<1>2. d \in Device /\ i \in Runners(d)
  BY <1>1, RunnerFields DEF Runners
<1>3. /\ runner' \in [Id -> Runner \cup {NoRunner}]
      /\ runner'[i].at = "listening"
      /\ \A j \in Id \ {i} : runner'[j] = runner[j]
      /\ \A e \in Device : Runners(e)' = Runners(e)
  BY <1>1, OneMoves DEF OpenSocket, Stage
<1>4. /\ socket' = [socket EXCEPT ![d] = i]
      /\ UNCHANGED <<doubled, todo>>
  BY DEF OpenSocket, RunnerFrame
<1> HIDE DEF d
<1>5. socket'[d] = i /\ \A e \in Device \ {d} : socket'[e] = socket[e]
  BY <1>1, <1>2, <1>4 DEF Typed
<1>6. Typed'
  BY <1>1, <1>2, <1>3, <1>4 DEF Typed
<1>7. SocketHasRunner'
  <2> SUFFICES ASSUME NEW e \in Device, socket'[e] # 0
               PROVE  /\ socket'[e] \in Runners(e)
                      /\ runner'[socket'[e]].at \in {"listening", "serving", "exited"}
    BY <1>3 DEF SocketHasRunner
  <2>1. CASE e = d
    BY <1>2, <1>3, <1>5, <2>1
  <2>2. CASE e # d
    <3>1. /\ socket'[e] = socket[e] /\ socket[e] \in Runners(e)
          /\ runner[socket[e]].at \in {"listening", "serving", "exited"}
      BY <1>5, <2>2 DEF Invariant, SocketHasRunner
    <3> QED BY <1>1, <1>3, <3>1 DEF Runners
  <2> QED BY <2>1, <2>2
<1>8. OneRunner'
  BY <1>3, <1>4 DEF Invariant, OneRunner
<1>9. ServerIsReachable'
  <2> SUFFICES ASSUME NEW e \in Device \ doubled, NEW j \in Runners(e),
                      runner'[j].at \in {"listening", "serving"}
               PROVE  socket'[e] = j
    BY <1>3, <1>4 DEF ServerIsReachable
  <2>1. CASE e = d
    BY <1>2, <1>5, <2>1 DEF Invariant, OneRunner
  <2>2. CASE e # d
    <3>1. j # i /\ j \in Id
      BY <2>2 DEF Runners, d
    <3> QED BY <1>3, <1>5, <2>2, <3>1 DEF Invariant, ServerIsReachable
  <2> QED BY <2>1, <2>2
<1> QED BY <1>6, <1>7, <1>8, <1>9 DEF Invariant

(* The file that goes is the runner's own, or the device is doubled. *)
LEMMA RemoveSocketKeeps == ASSUME Invariant, NEW i \in Id, RemoveSocket(i) PROVE Invariant'
<1> DEFINE d == runner[i].dev
<1>1. runner[i].at = "exited" /\ Typed
  BY DEF RemoveSocket, Invariant
<1>2. d \in Device /\ i \in Runners(d)
  BY <1>1, RunnerFields DEF Runners
<1>3. /\ runner' = [runner EXCEPT ![i] = NoRunner]
      /\ socket' = [socket EXCEPT ![d] = 0]
      /\ UNCHANGED <<doubled, todo>>
  BY DEF RemoveSocket, RunnerFrame
<1>4. \A e \in Device : i \in Runners(e) => e = d
  BY DEF Runners
<1> HIDE DEF d
<1>5. Typed'
  BY <1>1, <1>3 DEF Typed
<1>6. socket'[d] = 0 /\ \A e \in Device \ {d} : socket'[e] = socket[e]
  BY <1>1, <1>2, <1>3 DEF Typed
<1>7. runner'[i].at = "none" /\ \A j \in Id \ {i} : runner'[j] = runner[j]
  BY <1>1, <1>3 DEF Typed, NoRunner
<1>8. \A e \in Device : Runners(e)' = Runners(e) \ {i}
  BY <1>7 DEF Runners
<1>9. SocketHasRunner'
  <2> SUFFICES ASSUME NEW e \in Device, socket'[e] # 0
               PROVE  /\ socket'[e] \in Runners(e) \ {i}
                      /\ runner'[socket'[e]].at \in {"listening", "serving", "exited"}
    BY <1>8 DEF SocketHasRunner
  <2>1. e # d /\ socket'[e] = socket[e]
    BY <1>6
  <2>2. /\ socket[e] \in Runners(e)
        /\ runner[socket[e]].at \in {"listening", "serving", "exited"}
    BY <2>1 DEF Invariant, SocketHasRunner
  <2>3. socket[e] \in Id \ {i}
    BY <1>4, <2>1, <2>2 DEF Runners
  <2> QED BY <1>7, <2>1, <2>2, <2>3
<1>10. OneRunner'
  BY <1>3, <1>8 DEF Invariant, OneRunner
<1>11. ServerIsReachable'
  <2> SUFFICES ASSUME NEW e \in Device \ doubled, NEW j \in Runners(e) \ {i},
                      runner'[j].at \in {"listening", "serving"}
               PROVE  socket'[e] = j
    BY <1>3, <1>8 DEF ServerIsReachable
  <2>1. e # d
    BY <1>2 DEF Invariant, OneRunner
  <2>2. socket[e] = j
    BY <1>7 DEF Invariant, ServerIsReachable, Runners
  <2> QED BY <1>6, <2>1, <2>2
<1> QED BY <1>5, <1>9, <1>10, <1>11 DEF Invariant

LEMMA NextInvariant == Invariant /\ [Next]_vars => Invariant'
<1> SUFFICES ASSUME Invariant, [Next]_vars PROVE Invariant'
  OBVIOUS
<1>0. todo \subseteq Device
  BY DEF Invariant, Typed
<1>1. ASSUME NEW d \in Device, Plug(d) PROVE Invariant'
  BY <1>0, <1>1, UnnoticedKeeps DEF Plug, counters
<1>2. ASSUME NEW d \in Device, Unplug(d) PROVE Invariant'
  BY <1>2, SeveredKeeps DEF Unplug
<1>3. CASE Start
  BY <1>3, SeveredKeeps DEF Start, counters
<1>4. CASE Stop
  BY <1>4, StopKeeps
<1>5. CASE PowerOn
  BY <1>0, <1>5, UnnoticedKeeps DEF PowerOn, counters
<1>6. CASE RunAgent
  BY <1>6, UnnoticedKeeps DEF RunAgent, counters
<1>7. ASSUME NEW d \in Device, Visit(d) PROVE Invariant'
  BY <1>7, VisitKeeps
<1>8. ASSUME NEW i \in Id, RunnerStep(i) PROVE Invariant'
  BY <1>8, ServerKeeps, OpenSocketKeeps, RemoveSocketKeeps DEF RunnerStep
<1>9. CASE UNCHANGED vars
  BY <1>0, <1>9, UnnoticedKeeps DEF vars, counters
<1> QED
  BY <1>1, <1>2, <1>3, <1>4, <1>5, <1>6, <1>7, <1>8, <1>9 DEF Next, World, Agent

LEMMA InvariantHolds == Spec => []Invariant
BY InitInvariant, NextInvariant, PTL DEF Spec

(* No socket file is left behind: for any number of devices and runners,   *)
(* whatever is plugged, started and stopped, the runner that removes the   *)
(* file is still there (print3d-runner.sh).                                *)
THEOREM FileHasRunner == Spec => []SocketHasRunner
<1>1. Invariant => SocketHasRunner
  BY DEF Invariant
<1> QED BY <1>1, InvariantHolds, PTL

(* A server that listens can be reached by its socket file, unless the     *)
(* agent started a second runner for the device while one was there        *)
(* (print3d-new-device.sh, openSocket(), print3d-runner.sh).               *)
THEOREM ListenerIsReachable == Spec => []ServerIsReachable
<1>1. Invariant => ServerIsReachable
  BY DEF Invariant
<1> QED BY <1>1, InvariantHolds, PTL

-----------------------------------------------------------------------------
(* The rest of TypeOK.  The counters stay within their bounds, and the     *)
(* number of nodes that wait is a number because there are finitely many   *)
(* devices.                                                                *)
Switches ==
  /\ managed \in BOOLEAN /\ power \in BOOLEAN
  /\ cable \subseteq Device

Counts ==
  /\ unplugs \in 0..MaxUnplugs /\ stops \in 0..MaxStops /\ failures \in 0..MaxFailures

Waiting == events \in Nat

Rest == Switches /\ Counts

LEMMA InitRest == Init => Rest /\ Waiting
<1> SUFFICES ASSUME Init PROVE Rest /\ Waiting
  OBVIOUS
<1>1. Switches
  BY DEF Init, Switches
<1>2. Counts /\ Waiting
  <2>1. events = 0 /\ unplugs = 0 /\ stops = 0 /\ failures = 0
    BY DEF Init
  <2> QED BY <2>1, BoundAssumption DEF Counts, Waiting
<1> QED BY <1>1, <1>2 DEF Rest

LEMMA CableCounts ==
  ASSUME NEW set \in SUBSET Device
  PROVE  Cardinality(set) \in Nat
<1>1. IsFiniteSet(set)
  BY BoundAssumption, FS_Subset
<1> QED BY <1>1, FS_CardinalityType

LEMMA RunnerStepFrame ==
  ASSUME NEW i \in Id, RunnerStep(i)
  PROVE  /\ UNCHANGED <<managed, power, cable, events, unplugs, stops>>
         /\ \/ failures' = failures
            \/ failures < MaxFailures /\ failures' = failures + 1
  BY DEF RunnerStep, RunnerFrame, WakeUp, FailToStart, OpenSocket, OpenConnection,
         RequestExit, RemoveSocket

LEMMA NextRest == Rest /\ [Next]_vars => Rest'
<1> SUFFICES ASSUME Rest, [Next]_vars PROVE Rest'
  OBVIOUS
<1>1. ASSUME NEW d \in Device, Plug(d) PROVE Rest'
  BY <1>1 DEF Rest, Switches, Counts, Plug, counters
<1>2. ASSUME NEW d \in Device, Unplug(d) PROVE Rest'
  <2>1. Switches'
    BY <1>2 DEF Rest, Switches, Unplug
  <2>2. unplugs < MaxUnplugs /\ unplugs' = unplugs + 1 /\ UNCHANGED <<stops, failures>>
    BY <1>2 DEF Unplug
  <2>3. Counts'
    BY <2>2, BoundAssumption DEF Rest, Counts
  <2> QED BY <2>1, <2>3 DEF Rest
<1>3. CASE Start
  BY <1>3 DEF Rest, Switches, Counts, Start, counters
<1>4. CASE Stop
  <2>1. Switches'
    BY <1>4 DEF Rest, Switches, Stop
  <2>2. stops < MaxStops /\ stops' = stops + 1 /\ UNCHANGED <<unplugs, failures>>
    BY <1>4 DEF Stop
  <2>3. Counts'
    BY <2>2, BoundAssumption DEF Rest, Counts
  <2> QED BY <2>1, <2>3 DEF Rest
<1>5. CASE PowerOn
  BY <1>5 DEF Rest, Switches, Counts, PowerOn, counters
<1>6. CASE RunAgent
  BY <1>6 DEF Rest, Switches, Counts, RunAgent, counters
<1>7. ASSUME NEW d \in Device, Visit(d) PROVE Rest'
  BY <1>7 DEF Rest, Switches, Counts, Visit
<1>8. ASSUME NEW i \in Id, RunnerStep(i) PROVE Rest'
  <2>1. Switches'
    BY <1>8, RunnerStepFrame DEF Rest, Switches
  <2>2. /\ UNCHANGED <<unplugs, stops>>
        /\ \/ failures' = failures
           \/ failures < MaxFailures /\ failures' = failures + 1
    BY <1>8, RunnerStepFrame
  <2>3. Counts'
    BY <2>2, BoundAssumption DEF Rest, Counts
  <2> QED BY <2>1, <2>3 DEF Rest
<1>9. CASE UNCHANGED vars
  BY <1>9 DEF Rest, Switches, Counts, vars, counters
<1> QED
  BY <1>1, <1>2, <1>3, <1>4, <1>5, <1>6, <1>7, <1>8, <1>9 DEF Next, World, Agent

LEMMA NextWaiting == Rest /\ Waiting /\ [Next]_vars => Waiting'
<1> SUFFICES ASSUME Rest, Waiting, [Next]_vars PROVE Waiting'
  OBVIOUS
<1>1. ASSUME NEW d \in Device, Plug(d) PROVE Waiting'
  BY <1>1 DEF Waiting, Plug, Notified
<1>2. ASSUME NEW d \in Device, Unplug(d) PROVE Waiting'
  BY <1>2 DEF Waiting, Unplug
<1>3. CASE Start \/ Stop
  BY <1>3 DEF Waiting, Start, Stop
<1>4. CASE PowerOn
  <2> DEFINE n == Cardinality(cable)
  <2>1. n \in Nat
    BY CableCounts DEF Rest, Switches
  <2>2. events' = IF managed THEN events + n ELSE events
    BY <1>4 DEF PowerOn, Notified
  <2> HIDE DEF n
  <2> QED BY <2>1, <2>2 DEF Waiting
<1>5. CASE RunAgent
  BY <1>5 DEF Waiting, RunAgent
<1>6. ASSUME NEW d \in Device, Visit(d) PROVE Waiting'
  BY <1>6 DEF Waiting, Visit
<1>7. ASSUME NEW i \in Id, RunnerStep(i) PROVE Waiting'
  BY <1>7, RunnerStepFrame DEF Waiting
<1>8. CASE UNCHANGED vars
  BY <1>8 DEF Waiting, vars
<1> QED
  BY <1>1, <1>2, <1>3, <1>4, <1>5, <1>6, <1>7, <1>8 DEF Next, World, Agent

(* Every variable keeps its type; in particular a socket file names a      *)
(* runner that there can be, and the count of new nodes never falls below  *)
(* zero, though stop() and inotifyd's runs of the agent both take from it. *)
THEOREM TypeCorrect == Spec => []TypeOK
<1>1. Invariant /\ Rest /\ Waiting => TypeOK
  BY DEF Invariant, Typed, Rest, Switches, Counts, Waiting, TypeOK
<1> QED BY <1>1, InvariantHolds, InitRest, NextRest, NextWaiting, PTL DEF Spec
=============================================================================
