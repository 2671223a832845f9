CONSTANTS
  Kinds = {"sample", "snapshot"}
  Uncounted = {"snapshot"}
  MaxItems = 2
  MaxChunks = 2
  Oversized = {}
  MaxStarts = 2
SPECIFICATION FairSpec
INVARIANTS CompletedIsTrue FailureIsClean
PROPERTIES CallReturns
CHECK_DEADLOCK FALSE
