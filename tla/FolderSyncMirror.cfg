\* The sync worker alone: client and server agree in the end.  Symmetry is not
\* used, for the property is temporal.
SPECIFICATION MirrorSpec
CONSTANTS
    Msg = {m1, m2}
    NoMsg = NoMsg
    Worker = {w1}
    Priority = {}
    Checker = {}
    MaxUID = 3
    MaxValidity = 2
    Checkpoint = 2
    Hazards = {"return", "stop", "imap", "write", "resync"}
    MaxFaults = 1
    OverlapHazards = {}
    OverlapUID = 2
PROPERTIES
    Converges
