SPECIFICATION FairSpec
CONSTANTS
  PacketsOf <- MCPacketsOf
  BufferSize = 4
  RefillAbove = 2
  Margin = 0
  QueueMin = 1
  QueueFill = 2
  CvtLines = 2
  ToolQueries = 1
  Retries = 2
  Word = 11
  MaxLines = 3
  MaxChunk = 2
  MaxGarbled = 1
  MaxStray = 0
  MaxUnread = 8
CHECK_DEADLOCK FALSE
INVARIANT TypeOK
INVARIANT NoOverflow
PROPERTY EveryCommandOnce
PROPERTY IdleMeansDone
PROPERTY PrintEnds
