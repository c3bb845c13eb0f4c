\* A bulk action on messages that are not in INBOX.
SPECIFICATION Spec
CONSTANTS
    Msg = {m1, m2}
    NoMsg = NoMsg
    NoRow = NoRow
    NoMove = NoMove
    Folder = {Inbox, Archive, Trash}
    Inbox = Inbox
    Trash = Trash
    NoFolder = NoFolder
    MaxUID = 6
    Incarnations = 2
    MaxRetry = 5
    FilterLimit = 2
    MaxMoves = 1
    MaxRemote = 0
    MaxFaults = 0
    Hazards = {"elsewhere"}
PROPERTIES
    OnlyOrderedMoves
CHECK_DEADLOCK FALSE
