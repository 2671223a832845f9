SPECIFICATION FairSpec
CONSTANTS
    Databases = {1, 2}
    Topics = {"imu", "odom", "blob"}
    Cdr = {"imu", "odom"}
    Listed <- MCListed
    Bag <- MCBag
    Added <- MCAdded
    Declared <- MCDeclared
    MaxTasks = 2
INVARIANTS PublishedIsWhole NothingLeftBehind
PROPERTIES TakenIsKept TasksEnd
CHECK_DEADLOCK FALSE
