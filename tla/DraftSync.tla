------------------------------ MODULE DraftSync ------------------------------
(***************************************************************************)
(* A draft and its copies in the drafts folder of the IMAP server: the     *)
(* handlers that save and clear it, syncDrafts, which deletes the copy it  *)
(* knows and appends the new text, and syncFlags, which shares the mark    *)
(* is_dirty_locally.  A draft is the reply kept in the row of a received   *)
(* message, or a message of its own, which has no UID.  The account is one *)
(* of Gmail, where the flags of all folders are sent at once, or not.      *)
(*                                                                         *)
(* One draft, one sync worker.  A session of the worker begins with the    *)
(* drafts; later passes of consumerLoop send the flags before the drafts.  *)
(* A text is the number of the edit that wrote it, 0 the empty text.       *)
(***************************************************************************)
EXTENDS Naturals, Sequences

CONSTANTS
    UIDPlus,   \* whether APPEND tells the UID of the copy
    MaxRetry,  \* attempts of retryWithBackoff
    MaxEdits,  \* bound: edits of the draft
    MaxUID,    \* bound: copies appended
    MaxFaults  \* bound: commands and statements that fail, stopped sessions

DraftSyncAssumption ==
    /\ UIDPlus \in BOOLEAN
    /\ MaxRetry \in Nat \ {0} /\ MaxEdits \in Nat /\ MaxUID \in Nat /\ MaxFaults \in Nat

VARIABLES
    draft,     \* the row: draft_reply, is_dirty_locally, draft_remote_uid
    copies,    \* drafts folder of the server
    uidNext,
    worker,    \* the sync worker
    promised,  \* history: whether the current text is to be uploaded
    lost,      \* history: the mark was cleared without an upload of the text, by the
               \* upload of another one, or with the flags of a reply or on Gmail
    stray,     \* history: copies that the row lost or never knew
    edits, faults

vars == <<draft, copies, uidNext, worker, promised, lost, stray, edits, faults>>

Text == 0..MaxEdits
UID == 0..MaxUID

Init ==
    /\ draft \in [reply : BOOLEAN, text : {0}, dirty : {FALSE}, remote : {0}]
    /\ copies = {} /\ uidNext = 1
    /\ worker \in [pc : {"idle"}, todo : {<<"drafts", "flags">>}, text : {0}, remote : {0},
                   tries : {0}, uid : {0}, gmail : BOOLEAN]
    /\ promised = FALSE /\ lost = FALSE /\ stray = {}
    /\ edits = 0 /\ faults = 0

Fault == faults < MaxFaults /\ faults' = faults + 1

------------------------------------------------------------------------------
(* Handlers.                                                               *)

Edit == edits < MaxEdits /\ edits' = edits + 1 /\ lost' = FALSE

SaveDraftReply ==
    /\ draft.reply /\ Edit
    /\ draft' = [draft EXCEPT !.text = edits', !.dirty = TRUE]
    /\ promised' = TRUE
    /\ UNCHANGED <<copies, uidNext, worker, stray, faults>>

(* The copy on the server is forgotten.                                    *)
ClearDraftReply ==
    /\ draft.reply /\ Edit
    /\ draft' = [draft EXCEPT !.text = 0, !.dirty = TRUE, !.remote = 0]
    /\ promised' = FALSE
    /\ stray' = stray \cup ({draft.remote} \ {0})
    /\ UNCHANGED <<copies, uidNext, worker, faults>>

(* The request says whether the text is to be uploaded.                    *)
SaveStandaloneDraft ==
    /\ ~draft.reply /\ Edit
    /\ \E sync \in BOOLEAN :
          /\ draft' = [draft EXCEPT !.text = edits', !.dirty = sync]
          /\ promised' = sync
    /\ UNCHANGED <<copies, uidNext, worker, stray, faults>>

------------------------------------------------------------------------------
(* The worker.                                                             *)

Turn(step) == worker.pc = "idle" /\ worker.todo # <<>> /\ Head(worker.todo) = step
Done == worker' = [worker EXCEPT !.pc = "idle", !.todo = Tail(@)]

(* consumerLoop: a wake-up or the poll timer.                              *)
Poll ==
    /\ worker.pc = "idle" /\ worker.todo = <<>>
    /\ worker' = [worker EXCEPT !.todo = <<"flags", "drafts">>]
    /\ UNCHANGED <<draft, copies, uidNext, promised, lost, stray, edits, faults>>

(* Mutant: the row need not have a UID.                                    *)
FlagsToSendAll == draft.dirty

(* A row without a UID is left out, but by syncFlagsGmail only when it     *)
(* stores flags: it clears the mark of every row read.                     *)
FlagsToSend == draft.dirty /\ (draft.reply \/ worker.gmail)

(* syncFlags reads the rows that are marked,                               *)
SyncFlags ==
    /\ Turn("flags")
    /\ IF FlagsToSend THEN worker' = [worker EXCEPT !.pc = "store"] ELSE Done
    /\ UNCHANGED <<draft, copies, uidNext, promised, lost, stray, edits, faults>>

Uploaded == \E c \in copies : c.text = draft.text

(* stores their flags and clears the mark, whatever it was set for.        *)
ClearDirtyFlag ==
    /\ worker.pc = "store" /\ Done
    /\ \/ /\ draft' = [draft EXCEPT !.dirty = FALSE]
          /\ lost' = (lost \/ (draft.dirty /\ promised /\ (draft.reply \/ worker.gmail)))
          /\ UNCHANGED faults
       \/ Fault /\ UNCHANGED <<draft, lost>>
    /\ UNCHANGED <<copies, uidNext, promised, stray, edits>>

(* Mutant: draft_remote_uid is not among the columns read.                 *)
SnapshotUnknown == [worker EXCEPT !.pc = "delete", !.text = draft.text, !.tries = 0]

(* What GetDirtyDrafts reads.                                              *)
Snapshot == [worker EXCEPT !.pc = "delete", !.text = draft.text, !.remote = draft.remote,
                           !.tries = 0]

(* Mutant: only drafts that were uploaded before.                          *)
DirtyUploaded == draft.dirty /\ draft.text # 0 /\ draft.remote # 0

Dirty == draft.dirty /\ draft.text # 0

GetDirtyDrafts ==
    /\ Turn("drafts")
    /\ IF Dirty THEN worker' = Snapshot ELSE Done
    /\ UNCHANGED <<draft, copies, uidNext, promised, lost, stray, edits, faults>>

(* The copy the row knew is deleted, tried MaxRetry times; a failure is    *)
(* logged.                                                                 *)
DeleteOldDraft ==
    /\ worker.pc = "delete"
    /\ worker' = [worker EXCEPT !.pc = "append"]
    /\ \/ copies' = {c \in copies : c.uid # worker.remote} /\ UNCHANGED <<stray, faults>>
       \/ Fault /\ worker.remote # 0
          /\ stray' = stray \cup {worker.remote}
          /\ UNCHANGED copies
    /\ UNCHANGED <<draft, uidNext, promised, lost, edits>>

(* Mutant: after the last failure the row is written nevertheless.         *)
AfterFailureSaved ==
    IF worker.tries + 1 < MaxRetry THEN [worker EXCEPT !.tries = @ + 1]
    ELSE [worker EXCEPT !.pc = "save", !.uid = 0]

(* After the last failure the next draft is tried.                         *)
AfterFailure ==
    IF worker.tries + 1 < MaxRetry THEN [worker EXCEPT !.tries = @ + 1]
    ELSE [worker EXCEPT !.pc = "idle", !.todo = Tail(@)]

Appended == copies \cup {[uid |-> uidNext, text |-> worker.text]}

(* APPEND.  When it fails the copy may exist nevertheless.                 *)
AppendDraft ==
    /\ worker.pc = "append" /\ uidNext <= MaxUID
    /\ \/ /\ copies' = Appended /\ uidNext' = uidNext + 1
          /\ worker' = [worker EXCEPT !.pc = "save", !.uid = IF UIDPlus THEN uidNext ELSE 0]
          /\ stray' = IF UIDPlus THEN stray ELSE stray \cup {uidNext}
          /\ UNCHANGED faults
       \/ Fault /\ worker' = AfterFailure
          /\ \/ UNCHANGED <<copies, uidNext, stray>>
             \/ copies' = Appended /\ uidNext' = uidNext + 1 /\ stray' = stray \cup {uidNext}
    /\ UNCHANGED <<draft, promised, lost, edits>>

(* The mark is cleared with the UID, also if the text has changed since.   *)
SetDraftRemoteUID ==
    /\ worker.pc = "save" /\ Done
    /\ \/ /\ draft' = [draft EXCEPT !.remote = worker.uid, !.dirty = FALSE]
          /\ lost' = (lost \/ (draft.dirty /\ promised /\ draft.text # worker.text))
          /\ UNCHANGED <<stray, faults>>
       \/ Fault /\ stray' = stray \cup {worker.uid} /\ UNCHANGED <<draft, lost>>
    /\ UNCHANGED <<copies, uidNext, promised, edits>>

(* The session ends and another one begins.                                *)
Stop ==
    /\ Fault
    /\ worker' = [worker EXCEPT !.pc = "idle", !.todo = <<"drafts", "flags">>]
    /\ stray' = IF worker.pc = "save" THEN stray \cup {worker.uid} ELSE stray
    /\ UNCHANGED <<draft, copies, uidNext, promised, lost, edits>>

WorkerStep ==
    Poll \/ SyncFlags \/ ClearDirtyFlag \/ GetDirtyDrafts \/ DeleteOldDraft \/ AppendDraft
    \/ SetDraftRemoteUID

Next == SaveDraftReply \/ ClearDraftReply \/ SaveStandaloneDraft \/ WorkerStep \/ Stop

Spec == Init /\ [][Next]_vars

(* A worker with a connection runs on.                                     *)
FairSpec == Spec /\ WF_vars(WorkerStep)

------------------------------------------------------------------------------
(* Properties.                                                             *)

(* The state has the declared shape.                                       *)
TypeOK ==
    /\ draft \in [reply : BOOLEAN, text : Text, dirty : BOOLEAN, remote : UID]
    /\ copies \subseteq [uid : UID \ {0}, text : Text \ {0}]
    /\ \A c, d \in copies : c.uid = d.uid => c = d
    /\ worker \in [pc : {"idle", "store", "delete", "append", "save"},
                   todo : {<<>>, <<"drafts", "flags">>, <<"flags">>, <<"flags", "drafts">>,
                           <<"drafts">>},
                   text : Text, remote : UID, tries : 0..(MaxRetry - 1), uid : UID, gmail : BOOLEAN]
    /\ stray \subseteq UID
    /\ {promised, lost} \subseteq BOOLEAN
    /\ edits \in 0..MaxEdits /\ faults \in 0..MaxFaults

(* Every copy in the drafts folder can be replaced by the next upload: the *)
(* row or the worker knows its UID.  The exceptions are the copies of a    *)
(* cleared draft, those whose deletion or whose APPEND failed, and those   *)
(* of a server that does not tell UIDs.                                    *)
CopiesKnown ==
    \A c \in copies :
        \/ c.uid \in {draft.remote} \cup stray
        \/ worker.pc = "save" /\ c.uid = worker.uid

(* A draft that is not marked has been uploaded as it is, although         *)
(* uploads fail, are repeated and overlap with edits; except where the     *)
(* upload of another text cleared the mark, or the flags of the row did:   *)
(* those of a reply, and on Gmail those of any draft.                      *)
CleanIsUploaded == promised /\ ~draft.dirty /\ ~lost => Uploaded

(* A text to be uploaded is uploaded in the end, unless it is replaced or  *)
(* its mark is lost; that of a draft of its own, elsewhere than on Gmail,  *)
(* is lost to the upload of an earlier text only.                          *)
DraftsUploaded ==
    promised /\ draft.dirty ~> Uploaded \/ lost \/ ~promised

(* Row, mark and copies of a draft agree.                                  *)
DraftsKept == CopiesKnown /\ CleanIsUploaded

=============================================================================
