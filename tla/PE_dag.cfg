SPECIFICATION Spec

CONSTANTS
    a = a
    b = b
    c = c
    d = d
    None = None
    Missing = Missing
    Corrupt = Corrupt
    Skipped = Skipped
    Groups <- DiamondGroups
    Declared <- DiamondDeclared
    DeclaredDeps <- DiamondDeps
    FanoutSource <- FanoutB
    HasPath = TRUE
    SharedCheckpoint = TRUE
    ReadsMayFail = TRUE
    WritesMayFail = FALSE
    UnlinksMayFail = FALSE
    MaxTasks = 2
    MaxFailures = 1
    MaxCrashes = 1
    MaxWorkers = 2

INVARIANT TypeOK
INVARIANT InputsReady
INVARIANT ResultsOfThisTask
PROPERTY ImplementsDag

\* The client stops after MaxTasks tasks.
CHECK_DEADLOCK FALSE
