\* One message under every hazard but a broken stream; two messages in one batch
\* with failures, while edits and fetches keep out of the push; a Gmail account.
SPECIFICATION MCSpec
CONSTANTS
    Msg = {m1, m2}
    NoRow = NoRow
    Gmail = FALSE
    Gone = {m2}
    Hazards = {"fail", "hide"}
    MaxEdits = 2
    MaxRemote = 1
    MaxFaults = 1
    FolderHazards = {"edit_in_push", "refetch", "beside", "expunge", "fail"}
    GmailHazards = {"edit_in_push", "refetch", "expunge", "stream", "fail", "torn"}
INVARIANTS
    TypeOK
    DirtyProtected
    CalmEditsSurvive
    CalmUnreadCountExact
PROPERTIES
    FolderRowsOfServerMessagesStay
    
    GoogleNeverDowngrades
