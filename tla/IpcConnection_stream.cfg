SPECIFICATION FairSpec
CONSTANTS
  MaxPacketSize = 3
  Requests <- MCRequests
  Texts <- MCTexts
  MaxCalls = 2
CHECK_DEADLOCK FALSE
INVARIANT TypeOK
INVARIANT RunsWhatIsSent
INVARIANT TextInPackets
INVARIANT AnswersInStep
PROPERTY CallReturns
