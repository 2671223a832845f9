SPECIFICATION Spec
CONSTANTS
  port1 = port1
  peer = peer
  robot = robot
  topic = topic
  Keys <- MCKeys
  Kind <- MCKind
  MaxLocal = 2
  MaxEvents = 5
INVARIANTS ShownIsTrue OpenIsWatched RemovedIsUnwatched
CHECK_DEADLOCK FALSE
