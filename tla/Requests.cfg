SPECIFICATION MCSpec
CONSTANTS
    Client = {c1, c2}
    Account = {a1, a2}
    Unified = unified
    NoAccount = noaccount
    Item = {i1, i2}
    i1 = i1
    NoItem = noitem
    Email = {e1}
    Msg = {m1, m2}
    NoMsg = nomsg
    NoEmail = noemail
    Hash = {h1}
    Content <- OneFile
    Login = {l1, l2}
    MaxPassword = 2
    MaxRequests = 3
    Messages = {1, 2, 3}
    Date <- TwoADay
    Limit = 1
    SearchLimit = 2
    IdLimit = 2
    MaxChanges = 1
    Letter = {g1}
    Folder = {f1, f2, f3}
    NoFolder = nofolder
    MaxRows = 2
    MaxMoves = 1
    User = {u1, u2}
    Nobody = nobody
    Path = {inbox, trash, other}
    NoPath = nopath
    Mailbox = {inbox, other}
    Inbox = inbox
    Trash = trash
    Syncer = {w1, p1}
    Worker = {w1}
    Checkpoint = 1
    MaxMail = 2
    MaxOrders = 1
    MaxId = 3
    MaxFaults = 1
SYMMETRY Symmetry
INVARIANTS
    TypesOK
    WrittenByOwner
    OneRequestsSet
    RowsBacked
    Indexed
    SecretsKept
    PagesSound
    QueriesAgree
    LabelsKept
    TicketsCounted
    FoldersSound
CHECK_DEADLOCK FALSE
