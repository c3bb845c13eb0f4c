\* One message in depth: two overlapping workers, distinct time thresholds,
\* re-enqueues, stops and lost status updates.  Two messages fetched in one
\* batch, under every kind of fault.
SPECIFICATION MCSpec
CONSTANTS
    UID = {u1}
    Worker = {w1, w2}
    NoRow = NoRow
    BatchLimit = 1
    MaxAttempts = 3
    RetryUnit = 1
    ReclaimAge = 2
    DoneAge = 3
    FailedAge = 3
    MaxAge = 3
    MaxEnqueues = 3
    FaultKinds = {"stop", "write"}
    MaxFaults = 2
    BatchUID = {b1, b2}
    BatchWorker = {w1}
    BatchFaults = {"stop", "write", "stream", "unattributed"}
PROPERTIES
    ImplementsLedger
    EveryTaskEndsInBatch
INVARIANTS
    TypeOK
    FailedWasAttempted
    NoMessageLost
    AttemptsBounded
\* With its bounds used up and nothing to do, the system may rest.
CHECK_DEADLOCK FALSE
