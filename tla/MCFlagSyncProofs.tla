--------------------------- MODULE MCFlagSyncProofs ---------------------------
(***************************************************************************)
(* Theorems about the three folders of FlagSyncScenarios.  The lemmas of   *)
(* FlagSyncProofs hold of each of them by instantiation.                   *)
(***************************************************************************)
EXTENDS MCFlagSync, FlagSyncProofs

OfFolder == INSTANCE FlagSyncProofs WITH
    Hazards <- FolderHazards, MaxEdits <- 2, MaxRemote <- 2, MaxFaults <- 1

OfGoogle == INSTANCE FlagSyncProofs WITH
    Gmail <- TRUE, Hazards <- GmailHazards, MaxEdits <- 3, MaxRemote <- 2, MaxFaults <- 2

------------------------------------------------------------------------------
(* The calm folder of FlagSyncScenarios moves as Spec does.                *)

CalmFolder == scenario = "calm" => TypeOK /\ DirtyProtected /\ EditsInv /\ CountInv

LEMMA CalmFolderNext ==
    ASSUME CalmAssumption, CountedAssumption
    PROVE  /\ MCInit => CalmFolder
           /\ CalmFolder /\ [MCNext]_<<vars, scenario>> => CalmFolder'
<1>1. MCInit => CalmFolder
  <2>1. MCInit /\ scenario = "calm" => Init
    BY DEF MCInit
  <2> QED BY <2>1, TypeInit, ProtectedInit, SurviveInit, CountInit DEF CalmFolder
<1>2. CalmFolder /\ [MCNext]_<<vars, scenario>> => CalmFolder'
  <2> SUFFICES ASSUME CalmFolder, [MCNext]_<<vars, scenario>>, scenario' = "calm"
               PROVE  (TypeOK /\ DirtyProtected /\ EditsInv /\ CountInv)'
    BY DEF CalmFolder
  <2>1. scenario = "calm" /\ [Next]_vars
    BY DEF MCNext, vars
  <2>2. TypeOK /\ DirtyProtected /\ EditsInv /\ CountInv
    BY <2>1 DEF CalmFolder
  <2> QED BY <2>1, <2>2, TypeNext, ProtectedNext, SurviveNext, CountNext
<1> QED BY <1>1, <1>2

(* In the calm folder no edit is lost, for any number of messages, edits,  *)
(* changes by other clients and failures.                                  *)
THEOREM CalmEditsAreKept ==
    ASSUME CalmAssumption, CountedAssumption
    PROVE  MCSpec => []CalmEditsSurvive
<1>1. CalmFolder => CalmEditsSurvive
  BY DEF CalmFolder, CalmEditsSurvive, EditsInv
<1> QED BY <1>1, CalmFolderNext, PTL DEF MCSpec

(* ... and the counter is that of the list, until a hidden row changes.    *)
THEOREM CalmCounterIsExact ==
    ASSUME CalmAssumption, CountedAssumption
    PROVE  MCSpec => []CalmUnreadCountExact
<1>1. CalmFolder => CalmUnreadCountExact
  BY DEF CalmFolder, CalmUnreadCountExact, CountInv
<1> QED BY <1>1, CalmFolderNext, PTL DEF MCSpec

------------------------------------------------------------------------------
(* The folder with one message moves as the FlagSync of its own hazards.   *)

LEMMA FolderMovesSo == Folder!Next <=> OfFolder!Next
<1>1. \A m \in Msg : (Folder!MarkEmailRead(m) \/ Folder!ToggleFlagEmail(m)
                         \/ Folder!ToggleMuteEmail(m) \/ Folder!Hide(m))
         <=> (OfFolder!MarkEmailRead(m) \/ OfFolder!ToggleFlagEmail(m)
                         \/ OfFolder!ToggleMuteEmail(m) \/ OfFolder!Hide(m))
  BY Zenon DEF Folder!ToggleMuteEmail, OfFolder!ToggleMuteEmail, Folder!Hide, OfFolder!Hide,
          Folder!Unheeded, OfFolder!Unheeded, Folder!Decremented, OfFolder!Decremented, Folder!Dirty,
          OfFolder!Dirty, Folder!Edit, OfFolder!Edit, Folder!FlagsOf,
          OfFolder!FlagsOf, Folder!HasRow, OfFolder!HasRow,
          Folder!MarkEmailRead, OfFolder!MarkEmailRead, Folder!Recount, Folder!Follow, OfFolder!Follow,
          OfFolder!Recount, Folder!Follow, OfFolder!Follow, Folder!Spend, OfFolder!Spend,
          Folder!ToggleFlagEmail, OfFolder!ToggleFlagEmail
<1>2. \A m \in Msg, read \in BOOLEAN : (Folder!BulkMarkEmails(m, read))
         <=> (OfFolder!BulkMarkEmails(m, read))
  BY Zenon DEF Folder!BulkMarkEmails, OfFolder!BulkMarkEmails,
          Folder!Decremented, OfFolder!Decremented, Folder!Dirty,
          OfFolder!Dirty, Folder!Edit, OfFolder!Edit, Folder!FlagsOf,
          OfFolder!FlagsOf, Folder!HasRow, OfFolder!HasRow, Folder!Recount, Folder!Follow, OfFolder!Follow,
          OfFolder!Recount, Folder!Follow, OfFolder!Follow, Folder!Spend, OfFolder!Spend
<1>3. (Folder!RefreshUnreadCounts)
         <=> (OfFolder!RefreshUnreadCounts)
  BY Zenon DEF Folder!HasRow, OfFolder!HasRow, Folder!RefreshUnreadCounts,
          OfFolder!RefreshUnreadCounts, Folder!UnreadRows,
          OfFolder!UnreadRows, Folder!Counted, OfFolder!Counted, Folder!Cardinality, OfFolder!Cardinality,
          Folder!IsFiniteSet, OfFolder!IsFiniteSet
<1>4. (Folder!WorkerStep \/ Folder!Stop)
         <=> (OfFolder!WorkerStep \/ OfFolder!Stop)
  BY Zenon DEF Folder!AfterStore, OfFolder!AfterStore, Folder!AllUnset,
          OfFolder!AllUnset, Folder!ApplyServerEmailFlags,
          OfFolder!ApplyServerEmailFlags, Folder!AtRest, OfFolder!AtRest,
          Folder!Batch, OfFolder!Batch, Folder!Decremented,
          OfFolder!Decremented, Folder!Fault, OfFolder!Fault, Folder!FlagsOf,
          OfFolder!FlagsOf, Folder!HasRow, OfFolder!HasRow,
          Folder!InboundApply, OfFolder!InboundApply, Folder!InboundEnd,
          OfFolder!InboundEnd, Folder!InboundFetch, OfFolder!InboundFetch,
          Folder!InboundFlags, OfFolder!InboundFlags, Folder!InboundPurge,
          OfFolder!InboundPurge, Folder!InboundRead, OfFolder!InboundRead,
          Folder!IngestIdle, OfFolder!IngestIdle, Folder!Merge,
          OfFolder!Merge, Folder!OnServer, OfFolder!OnServer,
          Folder!OutboundClear, OfFolder!OutboundClear, Folder!OutboundRead,
          OfFolder!OutboundRead, Folder!OutboundStore, OfFolder!OutboundStore,
          Folder!Recount, Folder!Follow, OfFolder!Follow, OfFolder!Recount, Folder!Follow, OfFolder!Follow, Folder!Spend, OfFolder!Spend,
          Folder!Stop, OfFolder!Stop, Folder!StoreFlag, OfFolder!StoreFlag,
          Folder!StoreSet, OfFolder!StoreSet, Folder!StoreValue,
          OfFolder!StoreValue, Folder!Turn, OfFolder!Turn, Folder!WithFlags,
          OfFolder!WithFlags, Folder!WorkerStep, OfFolder!WorkerStep
<1>5. (Folder!IngestFetch \/ Folder!IngestStep)
         <=> (OfFolder!IngestFetch \/ OfFolder!IngestStep)
  BY Zenon DEF Folder!ApplyServerEmailFlags, OfFolder!ApplyServerEmailFlags,
          Folder!Decremented, OfFolder!Decremented, Folder!Fault,
          OfFolder!Fault, Folder!FlagsOf, OfFolder!FlagsOf, Folder!HasRow,
          OfFolder!HasRow, Folder!IngestApply, OfFolder!IngestApply,
          Folder!IngestFetch, OfFolder!IngestFetch, Folder!IngestIdle,
          OfFolder!IngestIdle, Folder!IngestMerge, OfFolder!IngestMerge,
          Folder!IngestSave, OfFolder!IngestSave, Folder!IngestStep,
          OfFolder!IngestStep, Folder!Merge, OfFolder!Merge, Folder!OnServer,
          OfFolder!OnServer, Folder!Recount, Folder!Follow, OfFolder!Follow, OfFolder!Recount, Folder!Follow, OfFolder!Follow, Folder!Spend,
          OfFolder!Spend, Folder!Upsert, OfFolder!Upsert, Folder!WithFlags,
          OfFolder!WithFlags
<1>6. \A m \in Msg : (Folder!RemoteChange(m) \/ Folder!Expunge(m))
         <=> (OfFolder!RemoteChange(m) \/ OfFolder!Expunge(m))
  BY Zenon DEF Folder!Expunge, OfFolder!Expunge, Folder!Flags, OfFolder!Flags,
          Folder!OnServer, OfFolder!OnServer, Folder!RemoteChange,
          OfFolder!RemoteChange, Folder!Spend, OfFolder!Spend
<1> QED BY <1>1, <1>2, <1>3, <1>4, <1>5, <1>6, Zenon DEF Folder!Next, OfFolder!Next

LEMMA OneMessageType == OneMessage => TypeOK
<1> SUFFICES ASSUME OneMessage PROVE TypeOK
  OBVIOUS
<1> USE ConstantsAssumption
<1>1. server \in [Msg -> Flags \cup {NoRow}] /\ \A m \in Msg \ Gone : server[m] \in Flags
  BY DEF OneMessage
<1>2. local \in [Msg -> Row \cup {NoRow}]
  BY <1>1 DEF OneMessage, Row, Flags
<1>3. unread \in Nat /\ skewed \in BOOLEAN
  BY UnreadRowsNat DEF OneMessage
<1>4. worker \in WorkerState /\ ingest \in IngestState
  BY AtRestType, IngestIdleType DEF OneMessage, WorkerPC
<1>5. intent \in [Msg -> Flags]
  BY <1>1 DEF OneMessage, AllUnset, Flags
<1>6. owed \in [Msg -> SUBSET {"seen", "flagged"}]
  BY DEF OneMessage
<1>7. spent \in [{"edits", "remote", "faults"} -> Nat]
  BY DEF OneMessage
<1> QED BY <1>1, <1>2, <1>3, <1>4, <1>5, <1>6, <1>7 DEF TypeOK

LEMMA FolderConstants == OfFolder!ConstantsAssumption
BY ScenarioAssumption
   DEF ScenarioAssumption, Folder!ConstantsAssumption, OfFolder!ConstantsAssumption,
       Folder!IsFiniteSet, OfFolder!IsFiniteSet, Folder!Row, OfFolder!Row,
       Folder!Flags, OfFolder!Flags

LEMMA FolderTypes == TypeOK <=> OfFolder!TypeOK
BY Zenon DEF TypeOK, OfFolder!TypeOK, Flags, OfFolder!Flags, Row, OfFolder!Row, WorkerState,
             OfFolder!WorkerState, WorkerPC, OfFolder!WorkerPC, IngestState, OfFolder!IngestState

FolderInv == scenario = "folder" => OfFolder!TypeOK /\ OfFolder!PurgesGone

(* In the folder under every hazard but a broken stream only rows of       *)
(* messages that are gone from the server are deleted.                     *)
THEOREM FolderRowsStay ==
    ASSUME "stream" \notin FolderHazards
    PROVE  MCSpec => FolderRowsOfServerMessagesStay
<1>h. OfFolder!ConstantsAssumption /\ OfFolder!UnbrokenAssumption
  BY FolderConstants DEF OfFolder!UnbrokenAssumption
<1>v. UNCHANGED <<vars, scenario>> => UNCHANGED OfFolder!vars
  BY DEF vars, OfFolder!vars
<1>m. [MCNext]_<<vars, scenario>> /\ scenario' = "folder" =>
          scenario = "folder" /\ [OfFolder!Next]_(OfFolder!vars)
  BY <1>v, FolderMovesSo DEF MCNext
<1>1. MCInit => FolderInv
  <2> SUFFICES ASSUME MCInit, scenario = "folder"
               PROVE  OfFolder!TypeOK /\ OfFolder!PurgesGone
    BY DEF FolderInv
  <2>1. OneMessage
    BY DEF MCInit
  <2>2. worker.pc # "purge"
    BY <2>1 DEF OneMessage, AtRest
  <2> QED BY <2>1, <2>2, OneMessageType, FolderTypes DEF OfFolder!PurgesGone
<1>2. FolderInv /\ [MCNext]_<<vars, scenario>> => FolderInv'
  <2> SUFFICES ASSUME FolderInv, [MCNext]_<<vars, scenario>>, scenario' = "folder"
               PROVE  (OfFolder!TypeOK /\ OfFolder!PurgesGone)'
    BY DEF FolderInv
  <2>1. /\ OfFolder!TypeOK /\ OfFolder!PurgesGone
        /\ [OfFolder!Next]_(OfFolder!vars)
    BY <1>m DEF FolderInv
  <2> QED BY <1>h, <2>1, OfFolder!TypeNext, OfFolder!PurgesNext
<1>3. FolderInv /\ [MCNext]_<<vars, scenario>> =>
         [scenario = "folder" =>
            \A m \in Msg : HasRow(m) /\ OnServer(m) => HasRow(m)']_<<vars, scenario>>
  <2> SUFFICES ASSUME FolderInv, MCNext, scenario = "folder",
                      NEW m \in Msg, HasRow(m), OnServer(m)
               PROVE  HasRow(m)'
    OBVIOUS
  <2>1. /\ OfFolder!TypeOK /\ OfFolder!PurgesGone
        /\ [OfFolder!Next]_(OfFolder!vars)
    BY <1>m DEF FolderInv, MCNext
  <2>2. [\A n \in Msg : OfFolder!HasRow(n) /\ OfFolder!OnServer(n)
           => OfFolder!HasRow(n)']_(OfFolder!vars)
    BY <1>h, <2>1, OfFolder!RowsNext
  <2>3. CASE UNCHANGED OfFolder!vars
    BY <2>3 DEF OfFolder!vars, HasRow
  <2> QED BY <2>2, <2>3 DEF OfFolder!HasRow, OfFolder!OnServer, HasRow, OnServer
<1> QED BY <1>1, <1>2, <1>3, PTL DEF MCSpec, FolderRowsOfServerMessagesStay

------------------------------------------------------------------------------
(* The Gmail folder.                                                       *)

LEMMA GoogleMovesSo == Google!Next <=> OfGoogle!Next
<1>1. \A m \in Msg : (Google!MarkEmailRead(m) \/ Google!ToggleFlagEmail(m)
                         \/ Google!ToggleMuteEmail(m) \/ Google!Hide(m))
         <=> (OfGoogle!MarkEmailRead(m) \/ OfGoogle!ToggleFlagEmail(m)
                         \/ OfGoogle!ToggleMuteEmail(m) \/ OfGoogle!Hide(m))
  BY Zenon DEF Google!ToggleMuteEmail, OfGoogle!ToggleMuteEmail, Google!Hide, OfGoogle!Hide,
          Google!Unheeded, OfGoogle!Unheeded, Google!Decremented, OfGoogle!Decremented, Google!Dirty,
          OfGoogle!Dirty, Google!Edit, OfGoogle!Edit, Google!FlagsOf,
          OfGoogle!FlagsOf, Google!HasRow, OfGoogle!HasRow,
          Google!MarkEmailRead, OfGoogle!MarkEmailRead, Google!Recount, Google!Follow, OfGoogle!Follow,
          OfGoogle!Recount, Google!Follow, OfGoogle!Follow, Google!Spend, OfGoogle!Spend,
          Google!ToggleFlagEmail, OfGoogle!ToggleFlagEmail
<1>2. \A m \in Msg, read \in BOOLEAN : (Google!BulkMarkEmails(m, read))
         <=> (OfGoogle!BulkMarkEmails(m, read))
  BY Zenon DEF Google!BulkMarkEmails, OfGoogle!BulkMarkEmails,
          Google!Decremented, OfGoogle!Decremented, Google!Dirty,
          OfGoogle!Dirty, Google!Edit, OfGoogle!Edit, Google!FlagsOf,
          OfGoogle!FlagsOf, Google!HasRow, OfGoogle!HasRow, Google!Recount, Google!Follow, OfGoogle!Follow,
          OfGoogle!Recount, Google!Follow, OfGoogle!Follow, Google!Spend, OfGoogle!Spend
<1>3. (Google!RefreshUnreadCounts)
         <=> (OfGoogle!RefreshUnreadCounts)
  BY Zenon DEF Google!HasRow, OfGoogle!HasRow, Google!RefreshUnreadCounts,
          OfGoogle!RefreshUnreadCounts, Google!UnreadRows,
          OfGoogle!UnreadRows, Google!Counted, OfGoogle!Counted, Google!Cardinality, OfGoogle!Cardinality,
          Google!IsFiniteSet, OfGoogle!IsFiniteSet
<1>4. (Google!WorkerStep \/ Google!Stop)
         <=> (OfGoogle!WorkerStep \/ OfGoogle!Stop)
  BY Zenon DEF Google!AfterStore, OfGoogle!AfterStore, Google!AllUnset,
          OfGoogle!AllUnset, Google!ApplyServerEmailFlags,
          OfGoogle!ApplyServerEmailFlags, Google!AtRest, OfGoogle!AtRest,
          Google!Batch, OfGoogle!Batch, Google!Decremented,
          OfGoogle!Decremented, Google!Fault, OfGoogle!Fault, Google!FlagsOf,
          OfGoogle!FlagsOf, Google!HasRow, OfGoogle!HasRow,
          Google!InboundApply, OfGoogle!InboundApply, Google!InboundEnd,
          OfGoogle!InboundEnd, Google!InboundFetch, OfGoogle!InboundFetch,
          Google!InboundFlags, OfGoogle!InboundFlags, Google!InboundPurge,
          OfGoogle!InboundPurge, Google!InboundRead, OfGoogle!InboundRead,
          Google!IngestIdle, OfGoogle!IngestIdle, Google!Merge,
          OfGoogle!Merge, Google!OnServer, OfGoogle!OnServer,
          Google!OutboundClear, OfGoogle!OutboundClear, Google!OutboundRead,
          OfGoogle!OutboundRead, Google!OutboundStore, OfGoogle!OutboundStore,
          Google!Recount, Google!Follow, OfGoogle!Follow, OfGoogle!Recount, Google!Follow, OfGoogle!Follow, Google!Spend, OfGoogle!Spend,
          Google!Stop, OfGoogle!Stop, Google!StoreFlag, OfGoogle!StoreFlag,
          Google!StoreSet, OfGoogle!StoreSet, Google!StoreValue,
          OfGoogle!StoreValue, Google!Turn, OfGoogle!Turn, Google!WithFlags,
          OfGoogle!WithFlags, Google!WorkerStep, OfGoogle!WorkerStep
<1>5. (Google!IngestFetch \/ Google!IngestStep)
         <=> (OfGoogle!IngestFetch \/ OfGoogle!IngestStep)
  BY Zenon DEF Google!ApplyServerEmailFlags, OfGoogle!ApplyServerEmailFlags,
          Google!Decremented, OfGoogle!Decremented, Google!Fault,
          OfGoogle!Fault, Google!FlagsOf, OfGoogle!FlagsOf, Google!HasRow,
          OfGoogle!HasRow, Google!IngestApply, OfGoogle!IngestApply,
          Google!IngestFetch, OfGoogle!IngestFetch, Google!IngestIdle,
          OfGoogle!IngestIdle, Google!IngestMerge, OfGoogle!IngestMerge,
          Google!IngestSave, OfGoogle!IngestSave, Google!IngestStep,
          OfGoogle!IngestStep, Google!Merge, OfGoogle!Merge, Google!OnServer,
          OfGoogle!OnServer, Google!Recount, Google!Follow, OfGoogle!Follow, OfGoogle!Recount, Google!Follow, OfGoogle!Follow, Google!Spend,
          OfGoogle!Spend, Google!Upsert, OfGoogle!Upsert, Google!WithFlags,
          OfGoogle!WithFlags
<1>6. \A m \in Msg : (Google!RemoteChange(m) \/ Google!Expunge(m))
         <=> (OfGoogle!RemoteChange(m) \/ OfGoogle!Expunge(m))
  BY Zenon DEF Google!Expunge, OfGoogle!Expunge, Google!Flags, OfGoogle!Flags,
          Google!OnServer, OfGoogle!OnServer, Google!RemoteChange,
          OfGoogle!RemoteChange, Google!Spend, OfGoogle!Spend
<1> QED BY <1>1, <1>2, <1>3, <1>4, <1>5, <1>6, Zenon DEF Google!Next, OfGoogle!Next

LEMMA GoogleConstants == OfGoogle!ConstantsAssumption
BY ScenarioAssumption
   DEF ScenarioAssumption, Google!ConstantsAssumption, OfGoogle!ConstantsAssumption,
       Google!IsFiniteSet, OfGoogle!IsFiniteSet, Google!Row, OfGoogle!Row,
       Google!Flags, OfGoogle!Flags

LEMMA GoogleTypes == TypeOK <=> OfGoogle!TypeOK
BY Zenon DEF TypeOK, OfGoogle!TypeOK, Flags, OfGoogle!Flags, Row, OfGoogle!Row, WorkerState,
             OfGoogle!WorkerState, WorkerPC, OfGoogle!WorkerPC, IngestState, OfGoogle!IngestState

GoogleInv == scenario = "gmail" => OfGoogle!TypeOK /\ OfGoogle!KeepsInv

(* In the Gmail folder, where worker and fetcher take turns, only the user *)
(* takes a flag away.                                                      *)
THEOREM GoogleFlagsStay ==
    ASSUME "beside" \notin GmailHazards
    PROVE  MCSpec => GoogleNeverDowngrades
<1>h. OfGoogle!ConstantsAssumption /\ OfGoogle!GmailAssumption
  BY GoogleConstants DEF OfGoogle!GmailAssumption
<1>v. UNCHANGED <<vars, scenario>> => UNCHANGED OfGoogle!vars
  BY DEF vars, OfGoogle!vars
<1>m. [MCNext]_<<vars, scenario>> /\ scenario' = "gmail" =>
          scenario = "gmail" /\ [OfGoogle!Next]_(OfGoogle!vars)
  BY <1>v, GoogleMovesSo DEF MCNext
<1>1. MCInit => GoogleInv
  <2> SUFFICES ASSUME MCInit, scenario = "gmail"
               PROVE  OfGoogle!TypeOK /\ OfGoogle!KeepsInv
    BY DEF GoogleInv
  <2>1. OneMessage
    BY DEF MCInit
  <2>2. worker.pc = "outbound" /\ worker.cur = {} /\ ingest.pc = "idle" /\ ingest.cur = {}
    BY <2>1 DEF OneMessage, AtRest, IngestIdle
  <2> QED BY <2>1, <2>2, OneMessageType, GoogleTypes DEF OfGoogle!KeepsInv
<1>2. GoogleInv /\ [MCNext]_<<vars, scenario>> => GoogleInv'
  <2> SUFFICES ASSUME GoogleInv, [MCNext]_<<vars, scenario>>, scenario' = "gmail"
               PROVE  (OfGoogle!TypeOK /\ OfGoogle!KeepsInv)'
    BY DEF GoogleInv
  <2>1. /\ OfGoogle!TypeOK /\ OfGoogle!KeepsInv
        /\ [OfGoogle!Next]_(OfGoogle!vars)
    BY <1>m DEF GoogleInv
  <2> QED BY <1>h, <2>1, OfGoogle!TypeNext, OfGoogle!KeepsNext
<1>3. GoogleInv /\ [MCNext]_<<vars, scenario>> =>
         [scenario = "gmail" =>
            \A m \in Msg :
               HasRow(m) /\ HasRow(m)' /\ spent'.edits = spent.edits =>
                   /\ local[m].seen => local'[m].seen
                   /\ local[m].flagged => local'[m].flagged]_<<vars, scenario>>
  <2> SUFFICES ASSUME GoogleInv, MCNext, scenario = "gmail", NEW m \in Msg,
                      HasRow(m), HasRow(m)', spent'.edits = spent.edits
               PROVE  /\ local[m].seen => local'[m].seen
                      /\ local[m].flagged => local'[m].flagged
    OBVIOUS
  <2>1. /\ OfGoogle!TypeOK /\ OfGoogle!KeepsInv
        /\ [OfGoogle!Next]_(OfGoogle!vars)
    BY <1>m DEF GoogleInv, MCNext
  <2>2. OfGoogle!HasRow(m) /\ OfGoogle!HasRow(m)'
    BY DEF OfGoogle!HasRow, HasRow
  <2>3. OfGoogle!AtLeast(local'[m], local[m])
    BY <1>h, <2>1, <2>2, OfGoogle!FlagsKept
  <2> QED BY <2>3 DEF OfGoogle!AtLeast
<1> QED BY <1>1, <1>2, <1>3, PTL DEF MCSpec, GoogleNeverDowngrades
==============================================================================
