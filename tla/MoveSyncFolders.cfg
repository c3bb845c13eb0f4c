\* Two messages in three folders: a request, another client and a failure.
SPECIFICATION MCSpec
CONSTANTS
    Msg = {m1, m2}
    NoMsg = NoMsg
    NoRow = NoRow
    NoMove = NoMove
    Folder = {Inbox, Archive, Trash}
    Inbox = Inbox
    Trash = Trash
    NoFolder = NoFolder
    MaxUID = 6
    Incarnations = 2
    MaxRetry = 5
    FilterLimit = 1
    MaxMoves = 1
    MaxRemote = 1
    MaxFaults = 1
    Hazards = {"remote", "select", "move", "write", "stop"}
INVARIANTS
    TypeOK
    MovesQueued
PROPERTIES
    OnlyOrderedMoves
    Settles
CHECK_DEADLOCK FALSE
