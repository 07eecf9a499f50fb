SPECIFICATION FairSpec
CONSTANTS
  d1 = d1
  d2 = d2
  user = user
  program = program
  Dev <- MCDev
  DefaultDev = d1
  CmdLine <- MCCmdLine
  Lua <- MCLua
  Invocations <- MCInvocations
  LuaCalls <- MCLuaCalls
  MaxCalls = 3
  MaxStarts = 1
CHECK_DEADLOCK FALSE
INVARIANT TypeOK
INVARIANT ZeroMeansDone
INVARIANT PrintsItsText
INVARIANT OwnPrinter
PROPERTY CallsEnd
