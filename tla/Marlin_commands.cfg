SPECIFICATION FairSpec
CONSTANTS
  Manners <- AnyManner
  Bauds <- BothRates
  PrinterBaud <- PrinterRate
  QueryLines <- NoLine
  MaxLines = 3
  MaxChunk = 2
  MaxInFlight = 2
  MaxResends = 2
  MaxResets = 1
CHECK_DEADLOCK FALSE
INVARIANT TypeOK
INVARIANT OnlineWhenChecked
INVARIANT PrintingHasLine
INVARIANT NoStall
PROPERTY LinesInOrder
PROPERTY PrintEnds
PROPERTY PrinterFound
PROPERTY ProgressFollows
PROPERTY PrintsAsJob
