-------------------------- MODULE MCMakerbotDriver --------------------------
(* Small instances of MakerbotDriver for TLC. *)
EXTENDS MakerbotDriver

(* Two commands, a comment, one command *)
MCPacketsOf == << <<2, 1>>, <<>>, <<1>> >>

(* One small command *)
SmallMove == << <<1>> >>
=============================================================================
