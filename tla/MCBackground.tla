---------------------------- MODULE MCBackground ----------------------------
(***************************************************************************)
(* What must go on in the background: the write worker of the store, the   *)
(* manager of the sync workers, the upload of drafts, and the start of the *)
(* server.  They share no state that these modules tell apart, so that one *)
(* run checks each of them by itself: focus chooses the one that moves,    *)
(* the others stay in their initial state.                                 *)
(***************************************************************************)
EXTENDS WriteQueue

CONSTANTS
    Account, Slot, NoSlot, MaxWorkers, MaxChecks, Started, MaxRequests, MaxMishaps,
    UIDPlus, MaxRetry, MaxEdits, MaxUID,
    name, validity, answered, special, NoColumn,
    MaxFaults

VARIABLES
    focus,
    accounts, workers, older, sync, checks, refreshCh, resync, server, mail, tasks, work,
    overlap, spent,
    draft, copies, uidNext, uploader, promised, lost, stray, edits, failures,
    columns, recorded, executed, found, start, todo, file, faulty, faults

(* Migrations of each form there is: from before and after the first file  *)
(* that is not backfilled, for one database or both, and in a syntax that  *)
(* SQLite does not know.                                                   *)
Migration(n, m, l, a, s) == [no |-> n, mono |-> m, listed |-> l, adds |-> a, syntax |-> s]
MCEmbedded ==
    << Migration(20, FALSE, FALSE, name, "plain"),
       Migration(21, FALSE, TRUE, name, "postgres"),
       Migration(22, FALSE, FALSE, validity, "ifnotexists"),
       Migration(22, TRUE, FALSE, validity, "ifnotexists"),
       Migration(23, FALSE, FALSE, answered, "postgres"),
       Migration(23, TRUE, FALSE, answered, "plain"),
       Migration(24, FALSE, FALSE, NoColumn, "plain"),
       Migration(26, TRUE, FALSE, special, "plain") >>
MCColumn == {name, validity, answered, special}

Manager == INSTANCE WorkerManager WITH MaxFaults <- MaxMishaps
Drafts == INSTANCE DraftSync WITH worker <- uploader, faults <- failures
Server == INSTANCE Bootstrap WITH Column <- MCColumn, InSchema <- MCColumn,
              Repaired <- answered, Embedded <- MCEmbedded, FirstNew <- 22

ASSUME BackgroundAssumption ==
    /\ Manager!WorkerManagerAssumption
    /\ Drafts!DraftSyncAssumption
    /\ Server!BootstrapAssumption

manager == <<accounts, workers, older, sync, checks, refreshCh, resync, server, mail, tasks,
             work, overlap, spent>>
drafts == <<draft, copies, uidNext, uploader, promised, lost, stray, edits, failures>>
boot == <<columns, recorded, executed, found, start, todo, file, faulty, faults>>
background == <<focus, writeQueue, manager, drafts, boot>>

MCInit ==
    /\ focus \in {"writes", "manager", "drafts", "start"}
    /\ Init /\ Manager!Init /\ Drafts!Init /\ Server!Init
    /\ focus # "drafts" => draft.reply /\ ~uploader.gmail
    /\ focus # "start" => found /\ columns = MCColumn

Writes == focus = "writes" /\ UNCHANGED <<focus, manager, drafts, boot>>
Manages == focus = "manager" /\ UNCHANGED <<focus, writeQueue, drafts, boot>>
Uploads == focus = "drafts" /\ UNCHANGED <<focus, writeQueue, manager, boot>>
Starts == focus = "start" /\ UNCHANGED <<focus, writeQueue, manager, drafts>>

MCNext ==
    \/ Writes /\ Next
    \/ Manages /\ Manager!Next
    \/ Uploads /\ Drafts!Next
    \/ Starts /\ Server!Next

(* The fairness of each component.                                         *)
MCSpec ==
    /\ MCInit /\ [][MCNext]_background
    /\ WF_background(Writes /\ Work)
    /\ \A n \in Slot : WF_background(Manages /\ Manager!GoroutineStep(n))
    /\ WF_background(Manages /\ Manager!ForceRestartWorkers)
    /\ WF_background(Uploads /\ Drafts!WorkerStep)
    /\ WF_background(Starts /\ Server!Step)

-----------------------------------------------------------------------------
(* The states of all four have the declared shapes.                        *)
TypesOK ==
    /\ TypeOK /\ Manager!TypeOK /\ Drafts!TypeOK /\ Server!TypeOK

(* The maps of the manager and its goroutines agree.                       *)
WorkersKnown == Manager!WorkersKnown

(* What there is to fetch or to send for an account is fetched and sent in *)
(* the end, as long as the manager holds a worker for it.                  *)
WorkDone == Manager!WorkDone

(* Row, mark and copies of a draft agree.                                  *)
DraftsKept == Drafts!DraftsKept

(* A text to be uploaded is uploaded in the end, unless its mark is lost.  *)
DraftsUploaded == Drafts!DraftsUploaded

(* Records and columns of the database agree.                              *)
SchemaComplete == Server!SchemaComplete

(* The server comes up in the end, wherever earlier starts were cut off.   *)
ComesUp == focus = "start" => Server!ComesUp
=============================================================================
