-------------------------- MODULE MCCommandServer --------------------------
(* Small instances of CommandServer for TLC. *)
EXTENDS CommandServer

CONSTANTS c1, c2

TwoClients == {c1, c2}

=============================================================================
