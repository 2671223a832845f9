CONSTANTS
  Sources = {a, b}
  FieldSets = {f}
  Protocols = {p}
  NoProtocol = NoProtocol
  Inherit = Inherit
  MaxChunks = 3
  MaxSwitches = 1
  MaxPending = 2
SPECIFICATION FairSpec
INVARIANTS ParserMatchesConfiguration NothingLost GapsOnlyAtSwitches
PROPERTIES FlushIsABarrier CallsReturn
CHECK_DEADLOCK FALSE
