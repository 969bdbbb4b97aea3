SPECIFICATION FairSpec

CONSTANTS
    a = a
    b = b
    c = c
    d = d
    None = None
    Missing = Missing
    Corrupt = Corrupt
    Skipped = Skipped
    Groups <- JoinGroups
    Declared <- JoinDeclared
    DeclaredDeps <- ChainDeps
    FanoutSource <- JoinPlain
    HasPath = TRUE
    SharedCheckpoint = FALSE
    ReadsMayFail = FALSE
    WritesMayFail = TRUE
    UnlinksMayFail = TRUE
    MaxTasks = 2
    MaxFailures = 2
    MaxCrashes = 2
    MaxWorkers = 2

INVARIANT QuietBetweenRuns
PROPERTY WrittenIsReplayed
PROPERTY RunEnds

\* The client stops after MaxTasks tasks.
CHECK_DEADLOCK FALSE
