SPECIFICATION FairSpec
CONSTANTS
  ttyACM0 = ttyACM0
  ttyUSB0 = ttyUSB0
  Device <- TwoDevices
  MaxRunners = 4
  MaxUnplugs = 1
  MaxStops = 1
  MaxFailures = 1
CHECK_DEADLOCK FALSE
INVARIANT TypeOK
INVARIANT SocketHasRunner
INVARIANT ServerIsReachable
PROPERTY PrinterIsServed
PROPERTY StaleSocketGoes
