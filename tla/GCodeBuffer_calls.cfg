SPECIFICATION Spec
CONSTANTS
  a = a
  b = b
  src1 = src1
  src2 = src2
  NULL = NULL
  Line = {a, b}
  SizeOf <- MCSizeOf
  Source <- BothSources
  MaxBufferSize = 10
  MaxBucketSize = 4
  Gcodes <- MCGcodes
  MetaDatas <- MCMetaDatas
  TotalsGiven <- SomeTotals
  LineNumbers = {0, 2}
  Amounts = {1, 2}
  MaxLines = 4
  MaxChunks = 4
CHECK_DEADLOCK FALSE
INVARIANT TypeOK
INVARIANT DeliversInOrder
INVARIANT ZeroMeansDrained
INVARIANT SizeWithinLimit
INVARIANT ChunksInSequence
