\* The stream of a batch ends early, once.
SPECIFICATION Spec
CONSTANTS
    UID = {u1}
    Worker = {w1}
    NoRow = NoRow
    BatchLimit = 1
    MaxAttempts = 2
    RetryUnit = 1
    ReclaimAge = 2
    DoneAge = 2
    FailedAge = 2
    MaxAge = 2
    MaxEnqueues = 1
    FaultKinds = {"stream"}
    MaxFaults = 1
INVARIANTS
    NoMessageLost
CHECK_DEADLOCK FALSE
