SPECIFICATION SortSpec

CONSTANTS
    None = None
    Outsider = "x"
    Members <- FourAgents
    Declarable <- UpToTwo

INVARIANT OrderRespectsDeps
INVARIANT RaisesOnCycles
INVARIANT RulesPredictSchedule
INVARIANT PredecessorIsEnough

\* A group is scheduled once.
CHECK_DEADLOCK FALSE
