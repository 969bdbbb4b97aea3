SPECIFICATION Spec

CONSTANTS
    Groups = {"retrieve", "analyze", "write", "review"}
    None = None
    Missing = Missing
    Corrupt = Corrupt
    Skipped = Skipped
    HasPath = TRUE
    SharedCheckpoint = TRUE
    ReadsMayFail = TRUE
    WritesMayFail = TRUE
    UnlinksMayFail = FALSE
    Declared <- InOrder
    FanoutSource <- Fanouts
    MaxTasks = 2
    MaxFailures = 2
    MaxCrashes = 1

INVARIANT ChainedInput
PROPERTY ImplementsDag

\* The client stops after MaxTasks tasks.
CHECK_DEADLOCK FALSE
