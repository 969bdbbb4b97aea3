SPECIFICATION Spec

CONSTANTS
    None = None
    ComposeAt = 2
    DecomposeAt = 0
    EscalationMinFailures = 2
    EscalationDecayWindow = 2
    TwoPhaseThreshold = 3
    SequentialThreshold = 5
    ConfidencePercent = 60
    MinObservations = 1
    WindowSize = 2
    LatencyThreshold = 2
    QualityFloor = 1
    PolicyModel = "standard"
    EscalationEnabled = TRUE
    HasTools = FALSE
    TopologyDeps = FALSE
    HasEvaluator = TRUE
    RunModes = {"auto", "observe", "fine", "compound"}
    Signals <- GateSignals
    Qualities = {0, 2}
    CallsMayFail = TRUE
    MaxObservations = 6

INVARIANT TypeOK
INVARIANT CooldownBudget
INVARIANT EscalatesOnFailures
PROPERTY LatencyLockout
PROPERTY AutoSamplesFiledByRunLevel
PROPERTY AutoActsOnConfidence

\* The client stops after MaxObservations runs.
CHECK_DEADLOCK FALSE
