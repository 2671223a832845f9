CONSTANTS Count = 3  MaxControls = 11  Ends = {1, 2}  Routings = {"parsed", "raw", "structured"}
SPECIFICATION FairSession
INVARIANTS CurvesFollowCursor OneConfiguration
PROPERTIES GuiReturns
CHECK_DEADLOCK FALSE
