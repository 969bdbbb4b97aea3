SPECIFICATION Spec

CONSTANTS
    None = None
    ComposeAt = 2
    DecomposeAt = 0
    EscalationMinFailures = 2
    EscalationDecayWindow = 2
    TwoPhaseThreshold = 3
    SequentialThreshold = 5
    ConfidencePercent = 100
    MinObservations = 1
    WindowSize = 2
    LatencyThreshold = None
    QualityFloor = 1
    HasEvaluator = TRUE
    Signals <- QualitySignals
    Qualities = {0, 2}
    MaxObservations = 8
    PolicyModel = "standard"
    EscalationEnabled = TRUE
    HasTools = FALSE
    TopologyDeps = FALSE
    RunModes = {"auto"}
    CallsMayFail = TRUE

INVARIANT SwitchPassedGate

\* The client stops after MaxObservations runs.
CHECK_DEADLOCK FALSE
