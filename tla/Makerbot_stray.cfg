SPECIFICATION Spec
CONSTANTS
  PacketsOf <- SmallMove
  BufferSize = 6
  RefillAbove = 4
  Margin = 1
  QueueMin = 1
  QueueFill = 2
  CvtLines = 2
  ToolQueries = 1
  Retries = 5
  Word = 14
  MaxLines = 1
  MaxChunk = 1
  MaxGarbled = 0
  MaxStray = 2
  MaxUnread = 20
CHECK_DEADLOCK FALSE
PROPERTY NoCommandTwice
