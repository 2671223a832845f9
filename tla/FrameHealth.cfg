SPECIFICATION HealthSpec
CONSTANTS
    Radix = 3
    Infinite = 2
    Definitions <- MCDefinitions
    Chunks <- MCChunks
    MaxBytes <- MCMaxBytes
    ErrorCount = 2
    Window = 1
    MaxTime <- MCMaxTime
    MaxErrors <- MCMaxErrors
INVARIANTS FramesMatchStream EveryByteOnce
PROPERTIES RuleSeesTheWindow
CHECK_DEADLOCK FALSE
