CONSTANTS
  Local = {a}
  Agent = agent
  Estimates = {1, 70}
  MaxChunks = 3
  MaxSessions = 2
  MaxSwitches = 2
  MaxEstimates = 1
SPECIFICATION FairSpec
INVARIANTS ValuesMatchRaw
PROPERTIES FreezeKeepsTimes CallReturns
CHECK_DEADLOCK FALSE
