SPECIFICATION Spec

CONSTANTS
    None = None
    Records <- Measurements
    Default <- Defaults
    W = 2
    BackoffBase = 2
    Parallelism = TRUE
    Levels <- Sweep
    Calls <- CallsAt
    MaxFlips = 3
    MaxProfiles = 1

INVARIANT SustainedSignalActs
PROPERTY ActsOnSustainedSignal

\* The client stops after MaxFlips flips.
CHECK_DEADLOCK FALSE
