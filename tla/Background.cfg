SPECIFICATION MCSpec
CONSTANTS
    Writer = {u1, u2, l1}
    User = {u1, u2}
    Nobody = nobody
    MaxAttempts = 2
    Account = {a1}
    Slot = {1, 2}
    NoSlot = 0
    MaxWorkers = 1
    MaxChecks = 2
    Started = TRUE
    MaxMishaps = 1
    MaxRequests = 2
    UIDPlus = TRUE
    MaxRetry = 2
    MaxEdits = 3
    MaxUID = 8
    name = name
    validity = validity
    answered = answered
    special = special
    NoColumn = nocolumn
    MaxFaults = 2
INVARIANTS
    TypesOK
    WritesServed
    WorkersKnown
    DraftsKept
    SchemaComplete
PROPERTIES
    UsersAnswered
    WorkDone
    DraftsUploaded
    ComesUp
CHECK_DEADLOCK FALSE
