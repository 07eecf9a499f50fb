---------------------------- MODULE MCFrontEnds ----------------------------
(* A small instance of FrontEnds for TLC: two printers, a user of the      *)
(* command line client and a Lua program.                                  *)
EXTENDS FrontEnds

CONSTANTS d1, d2, user, program

MCDev     == {d1, d2}
MCCmdLine == {user}
MCLua     == {program}

Act(action) == [action |-> action, device |-> None, force |-> FALSE]
Device(d)   == [action |-> None, device |-> d, force |-> FALSE]
Force       == [action |-> None, device |-> None, force |-> TRUE]

(* Prints, a device that is overridden, the last of two actions, and each  *)
(* kind of error.  The temperatures, which are five, go as the test does.  *)
MCInvocations ==
  { <<Device(d1), Act("code")>>, <<Device(d1), Act("file")>>, <<Device(d1), Act("stdin")>>,
    <<Act("test"), Device(d2), Device(d1)>>, <<Act("relative"), Force>>,
    <<Act("state"), Act("supported")>>, <<Act("stop"), Act("missing")>> }

(* A stop cancels what others are sending, may put a text of its own into  *)
(* the buffer, and is left by an error if its argument is no string.       *)
MCLuaCalls == {"stop"}
=============================================================================
