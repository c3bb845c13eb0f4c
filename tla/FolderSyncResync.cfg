\* A priority check beside the sync worker and one ResyncAccount.
SPECIFICATION Spec
CONSTANTS
    Msg = {m1, m2}
    NoMsg = NoMsg
    Worker = {w1}
    Priority = {p1}
    Checker = {}
    MaxUID = 2
    MaxValidity = 1
    Checkpoint = 2
    Hazards = {"resync"}
    MaxFaults = 1
INVARIANTS
    CursorCovers
