SPECIFICATION Spec

CONSTANTS
    None = None
    ComposeAt = 2
    DecomposeAt = 0
    EscalationMinFailures = 2
    EscalationDecayWindow = 2
    TwoPhaseThreshold = 3
    SequentialThreshold = 5
    ConfidencePercent = 100
    MinObservations = 2
    WindowSize = 2
    LatencyThreshold = None
    QualityFloor = 1
    PolicyModel = "auto"
    EscalationEnabled = FALSE
    HasTools = TRUE
    TopologyDeps = FALSE
    HasEvaluator = TRUE
    RunModes = {"auto"}
    Signals <- QualitySignals
    Qualities = {0, 2}
    CallsMayFail = FALSE
    MaxObservations = 8

INVARIANT SwitchPassedGate
INVARIANT VettedModelRuns

\* The client stops after MaxObservations runs.
CHECK_DEADLOCK FALSE
