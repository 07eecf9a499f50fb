SPECIFICATION Spec
CONSTANTS
  Manners <- NoManners
  Bauds <- BothRates
  PrinterBaud <- PrinterRate
  QueryLines <- NoLine
  MaxLines = 3
  MaxChunk = 2
  MaxInFlight = 3
  MaxResends = 1
  MaxResets = 0
CHECK_DEADLOCK FALSE
PROPERTY RefusedLineIsSentAgain
