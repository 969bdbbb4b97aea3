SPECIFICATION Spec

CONSTANTS
    None = None
    Missing = Missing
    Corrupt = Corrupt
    Trees <- Hierarchies
    BatchSize = 2
    ItemKeys <- TwoKeys
    HasPath = TRUE
    MaxRuns = 4
    MaxTasks = 2
    MaxFailures = 1
    MaxCrashes = 1

INVARIANT InputsAsDeclared
INVARIANT ReturnsThisTask
INVARIANT SinksSpeak
INVARIANT OnlyTheLastCrosses
INVARIANT ToolStepsAreFed
PROPERTY NoRepaidCall

\* The client stops after MaxRuns runs.
CHECK_DEADLOCK FALSE
