SPECIFICATION Spec
CONSTANTS
  MaxPacketSize = 3
  Requests <- MCRequests
  Texts <- MCTexts
  MaxCalls = 2
CHECK_DEADLOCK FALSE
INVARIANT ZeroMeansAnswered
