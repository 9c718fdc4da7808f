SPECIFICATION Spec
CONSTANTS
    Sessions = {s1, s2}
    Rows = {1, 2}
    MaxCodes = 1
    MaxResends = 1
    MaxOtpAttempts = 2
    MaxFaults = 1
    None = None
INVARIANTS
    PendingIsHeard
    AcceptedCodeKept
    AlertAgrees
CONSTRAINT Undoubted
SYMMETRY Alike
CHECK_DEADLOCK FALSE
