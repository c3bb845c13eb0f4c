----------------------------- MODULE MCFlagSync -----------------------------
(* Small instances of FlagSync for TLC.  FlagSyncScenarios explores three  *)
(* of them in one run: scenario never changes and selects the instance.    *)
(* The calm folder is the one of the constants of FlagSync themselves.     *)
EXTENDS FlagSync

CONSTANTS Gone, FolderHazards, GmailHazards

VARIABLE scenario

Folder == INSTANCE FlagSync WITH
    Hazards <- FolderHazards, MaxEdits <- 2, MaxRemote <- 2, MaxFaults <- 1

Google == INSTANCE FlagSync WITH
    Gmail <- TRUE, Hazards <- GmailHazards, MaxEdits <- 3, MaxRemote <- 2, MaxFaults <- 2

ASSUME ScenarioAssumption == Folder!ConstantsAssumption /\ Google!ConstantsAssumption

(* The messages of Gone were expunged and their rows purged long ago.      *)
OneMessage ==
    /\ server \in {s \in [Msg -> Flags \cup {NoRow}] : \A m \in Msg : s[m] = NoRow <=> m \in Gone}
    /\ local = [m \in Msg |-> IF m \in Gone THEN NoRow
                              ELSE [seen |-> server[m].seen, flagged |-> server[m].flagged,
                                    dirty |-> FALSE, hidden |-> FALSE]]
    /\ unread = UnreadRows
    /\ skewed = FALSE
    /\ worker = AtRest("outbound")
    /\ ingest = IngestIdle
    /\ intent = [m \in Msg |-> IF m \in Gone THEN AllUnset[m] ELSE server[m]]
    /\ owed = [m \in Msg |-> {}]
    /\ spent = [edits |-> 0, remote |-> 0, faults |-> 0]

MCInit ==
    \/ scenario = "folder" /\ OneMessage
    \/ scenario = "calm" /\ Init
    \/ scenario = "gmail" /\ OneMessage

MCNext ==
    /\ UNCHANGED scenario
    /\ \/ scenario = "folder" /\ Folder!Next
       \/ scenario = "calm" /\ Next
       \/ scenario = "gmail" /\ Google!Next

FolderMoves(A) == scenario = "folder" /\ A /\ UNCHANGED scenario

MCSpec ==
    /\ MCInit /\ [][MCNext]_<<vars, scenario>>
    /\ WF_<<vars, scenario>>(FolderMoves(Folder!WorkerStep))
    /\ WF_<<vars, scenario>>(FolderMoves(Folder!IngestStep))

(* In a calm folder (no edit during a push, no refetch) no edit is lost.   *)
CalmEditsSurvive == scenario = "calm" => EditsSurvive

(* In a calm folder the counter is exact after every step, but for what    *)
(* hidden rows do to it until the next refresh.                            *)
CalmUnreadCountExact == scenario = "calm" => UnreadCountExact

(* Without a broken stream only rows of expunged messages are deleted.     *)
FolderRowsOfServerMessagesStay ==
    [][scenario = "folder" =>
         \A m \in Msg : HasRow(m) /\ OnServer(m) => HasRow(m)']_<<vars, scenario>>


(* The steps of a Gmail worker never clear a flag.                         *)
GoogleNeverDowngrades ==
    [][scenario = "gmail" =>
         \A m \in Msg :
            HasRow(m) /\ HasRow(m)' /\ spent'.edits = spent.edits =>
                /\ local[m].seen => local'[m].seen
                /\ local[m].flagged => local'[m].flagged]_<<vars, scenario>>
=============================================================================
