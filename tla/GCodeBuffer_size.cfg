SPECIFICATION Spec
CONSTANTS
  a = a
  b = b
  src1 = src1
  src2 = src2
  NULL = NULL
  Line = {a, b}
  SizeOf <- MCSizeOf
  Source <- BothSources
  MaxBufferSize = 10
  MaxBucketSize = 4
  Gcodes <- MCGcodes
  MetaDatas <- NoMeta
  TotalsGiven <- SomeTotals
  LineNumbers = {0}
  Amounts = {1, 2}
  MaxLines = 5
  MaxChunks = 5
CHECK_DEADLOCK FALSE
INVARIANT SizeIsStoredText
