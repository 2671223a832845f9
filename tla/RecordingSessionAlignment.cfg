CONSTANTS
  Local = {a}
  Agent = agent
  Estimates = {1, 2}
  MaxChunks = 2
  MaxSessions = 1
  MaxSwitches = 1
  MaxEstimates = 2
SPECIFICATION Spec
INVARIANT AgentTimesAreFrozen
CHECK_DEADLOCK FALSE
