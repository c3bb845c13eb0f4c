\* The user edits a message while its earlier edit is being pushed.
SPECIFICATION Spec
CONSTANTS
    Msg = {m1}
    NoRow = NoRow
    Gmail = FALSE
    Hazards = {"edit_in_push"}
    MaxEdits = 2
    MaxRemote = 0
    MaxFaults = 0
INVARIANTS
    EditsSurvive
