---------------------------- MODULE MCLifecycle ----------------------------
(* Small instances of Lifecycle for TLC. *)
EXTENDS Lifecycle

CONSTANTS ttyACM0, ttyUSB0

TwoDevices == {ttyACM0, ttyUSB0}
=============================================================================
