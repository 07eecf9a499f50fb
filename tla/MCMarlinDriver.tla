--------------------------- MODULE MCMarlinDriver ---------------------------
(* Small instances of MarlinDriver for TLC. *)
EXTENDS MarlinDriver

NoLine      == {}
PrinterRate == 115200
BothRates   == {115200, 250000}
AnyManner   == BOOLEAN
NoManners   == {FALSE}
=============================================================================
