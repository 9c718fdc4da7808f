SPECIFICATION Spec
CONSTANTS
    Runs = {r1, r2}
    Kinds <- MCKinds
    Errors <- MCErrors
    Threshold = 2
    MaxFaults = 1
    None = None
INVARIANTS
    NamedFailureShown
    RunningIsUnderWay
    AlertIsDue
PROPERTY
    VerdictStands
CONSTRAINT Apart
CHECK_DEADLOCK FALSE
SYMMETRY Alike
