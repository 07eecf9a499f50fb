SPECIFICATION FairSpec
CONSTANTS
  c1 = c1
  c2 = c2
  Client <- TwoClients
  Others = {"clear", "ask", "wrongFile", "unknown"}
  MaxJobs = 2
  MaxChunks = 2
  MaxRequests = 2
  MaxPending = 2
CHECK_DEADLOCK FALSE
INVARIANT TypeOK
INVARIANT TextsInOnePiece
PROPERTY OkMeansAppended
PROPERTY EveryRequestRuns
