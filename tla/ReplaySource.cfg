CONSTANTS Count = 3  MaxControls = 7
SPECIFICATION FairSpec
INVARIANTS ExactlyOnce PauseHolds WorkerNeedsReader EndIsExact
PROPERTIES ReplayProgresses
CHECK_DEADLOCK FALSE
