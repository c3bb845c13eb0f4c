\* The manager as it is: nothing calls startWorkerWithJitter.
SPECIFICATION StartingSpec
CONSTANTS
    Account = {a1}
    Slot = {1}
    NoSlot = 0
    MaxWorkers = 1
    MaxChecks = 1
    Started = FALSE
    MaxRequests = 1
    MaxFaults = 0
PROPERTY
    AccountsServed
CHECK_DEADLOCK FALSE
