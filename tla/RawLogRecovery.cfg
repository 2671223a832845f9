CONSTANTS MaxChunks = 5  Oversized = {2}  MaxStarts = 2  ReceiveTime <- MCReceiveTime
SPECIFICATION FairSpec
INVARIANTS NothingVanishes RecoveredIsPlayable
PROPERTIES ImplementsLog
CHECK_DEADLOCK FALSE
