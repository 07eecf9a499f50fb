SPECIFICATION Spec
CONSTANTS
  c1 = c1
  c2 = c2
  Client <- TwoClients
  Others = {"ask"}
  MaxJobs = 2
  MaxChunks = 2
  MaxRequests = 3
  MaxPending = 1
CHECK_DEADLOCK FALSE
INVARIANT NoTransferContinues
