\* The sync worker alone: every hazard, a renumbered folder, three UIDs for two
\* messages, so that one can return under a new UID.  And the sync worker beside
\* a check worker of INBOX; the folder keeps its UIDs.
SPECIFICATION MCSpec
CONSTANTS
    Msg = {m1, m2}
    NoMsg = NoMsg
    Worker = {w1}
    Priority = {}
    Checker = {c1}
    MaxUID = 3
    MaxValidity = 2
    Checkpoint = 2
    Hazards = {"return", "stop", "imap", "lookup", "write", "reset", "ingest", "resync", "cut"}
    MaxFaults = 1
    OverlapHazards = {"stop", "write", "imap", "lookup", "ingest", "resync"}
    OverlapUID = 2
SYMMETRY Symmetry
INVARIANTS
    TypeOK
    CursorCovers
