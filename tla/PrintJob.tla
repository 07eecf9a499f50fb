------------------------------ MODULE PrintJob ------------------------------
(***************************************************************************)
(* What a driver promises its clients: lines are received in order, each   *)
(* is printed at most once and in order, and the only lines left out are   *)
(* those a client gave up by a clear or a stop.                            *)
(***************************************************************************)
EXTENDS Integers, Sequences

VARIABLES
  todo,      \* the lines still to print
  received,  \* how many lines the clients have sent
  done,      \* the line printed last, 0 if none
  printed    \* how many times a line has been printed

Init == todo = <<>> /\ received = 0 /\ done = 0 /\ printed = 0

NewLines(n) == [i \in 1..(n - received) |-> received + i]

(* A client appends lines ... *)
Receive ==
  /\ received' > received
  /\ todo' = todo \o NewLines(received')
  /\ UNCHANGED <<done, printed>>

(* ... or gives up what is left, perhaps for other lines (an end code). *)
Replace ==
  /\ received' >= received
  /\ todo' = NewLines(received')
  /\ UNCHANGED <<done, printed>>

PrintLine ==
  /\ todo # <<>>
  /\ done' = Head(todo) /\ printed' = printed + 1
  /\ todo' = Tail(todo)
  /\ UNCHANGED received

Next == Receive \/ Replace \/ PrintLine

Spec == Init /\ [][Next]_<<todo, received, done, printed>>
=============================================================================
