---------------------------- MODULE GmailLabels ----------------------------
(***************************************************************************)
(* Labels of a Gmail account.  Google shows one message in several         *)
(* mailboxes; the account keeps one row of it in emails and the names of   *)
(* the mailboxes in email_labels_junction, which is what the folders of a  *)
(* Gmail account list.  An account may have been synchronised before it    *)
(* was known to be one of Google, with a row for each mailbox: a cleanup   *)
(* and a backfill, each once per account, bring such rows into shape.      *)
(*                                                                         *)
(* One account with one worker; the user moves and deletes beside it.  A   *)
(* copy is a pair of a message and a mailbox.                              *)
(***************************************************************************)
EXTENDS Naturals, FiniteSets

CONSTANTS
    Msg, NoMsg,
    Folder, NoFolder,
    MaxId,      \* bound: rows ever made
    MaxMoves,   \* bound: moves
    MaxFaults   \* bound: statements that fail and connections that end

GmailLabelsAssumption ==
    /\ IsFiniteSet(Msg) /\ NoMsg \notin Msg
    /\ IsFiniteSet(Folder) /\ NoFolder \notin Folder
    /\ MaxId \in Nat /\ MaxMoves \in Nat /\ MaxFaults \in Nat

Id == 1..MaxId
Row == [msg : Msg, folder : Folder]
NoRow == [msg |-> NoMsg, folder |-> NoFolder]
Move == [id : Id, source : Folder, target : Folder]

VARIABLES
    gmail,     \* accounts.is_gmail
    settled,   \* the settings gmail_duplicates_cleaned_ and gmail_labels_backfilled_
    rows,      \* emails
    labels,    \* email_labels_junction
    next,      \* the next id
    todo,      \* tasks of the sync queue: copies to be ingested
    moves,     \* imap_move_queue
    worker,    \* the sync worker and the task it is at
    due,       \* history: copies ingested that nobody took away and no failure lost
    doubled,   \* history: messages of which a lookup failed
    moved,     \* moves so far
    failures

gmailVars == <<gmail, settled, rows, labels, next, todo, moves, worker, due, doubled, moved, failures>>

------------------------------------------------------------------------------
Live == {i \in Id : rows[i] # NoRow}
RowsOf(m) == {i \in Live : rows[i].msg = m}

(* GetEmailsByLabel: the messages that a mailbox lists.                    *)
Shown(f) == {rows[i].msg : i \in {j \in Live : f \in labels[j]}}

Off == [pc |-> "off", msg |-> NoMsg, folder |-> NoFolder, id |-> 0, had |-> {}]
Loop == [Off EXCEPT !.pc = "loop"]
Failure == failures < MaxFaults /\ failures' = failures + 1

Init ==
    /\ gmail = FALSE /\ settled = {}
    /\ rows = [i \in Id |-> NoRow] /\ labels = [i \in Id |-> {}] /\ next = 1
    /\ todo = {} /\ moves = {}
    /\ worker = Off
    /\ due = {} /\ doubled = {} /\ moved = 0 /\ failures = 0

(* A copy is discovered and queued.                                        *)
Discover(m, f) ==
    /\ <<m, f>> \notin due
    /\ todo' = todo \cup {<<m, f>>}
    /\ UNCHANGED <<gmail, settled, rows, labels, next, moves, worker, due, doubled, moved, failures>>

------------------------------------------------------------------------------
(* The worker's cycle.                                                     *)

(* detectGmail: a server may announce X-GM-EXT-1 late, so that a cycle or  *)
(* two pass before the account is known to be one of Google.               *)
DetectGmail ==
    /\ worker.pc = "off"
    /\ gmail' \in {TRUE, gmail}
    /\ worker' = [Off EXCEPT !.pc = IF gmail' THEN "cleanup" ELSE "loop"]
    /\ UNCHANGED <<settled, rows, labels, next, todo, moves, due, doubled, moved, failures>>

(* Mutant: the folders of the other rows are forgotten.                    *)
MergedOfKept(m) == {rows[i].folder : i \in {CHOOSE j \in RowsOf(m) : TRUE}}

(* The folders of a message's rows become the labels of the row kept.      *)
Merged(m) == {rows[i].folder : i \in RowsOf(m)}

Duplicated == {m \in Msg : \E i, j \in RowsOf(m) : i # j}

(* The rows to delete when keep has one row of each of these messages.     *)
Gone(keep) == (UNION {RowsOf(m) : m \in Duplicated}) \ {keep[m] : m \in Duplicated}

(* CleanupGmailDuplicates, one transaction: of several rows of a message   *)
(* the best one stays.  Its labels are replaced, so that one which was     *)
(* appended while an earlier cleanup had failed is lost.  The setting is   *)
(* only written after a success.                                           *)
CleanupGmailDuplicates ==
    /\ worker.pc = "cleanup"
    /\ worker' = [Off EXCEPT !.pc = "backfill"]
    /\ \/ /\ "cleaned" \in settled
          /\ UNCHANGED <<settled, rows, labels, due, failures>>
       \/ /\ "cleaned" \notin settled
          /\ settled' = settled \cup {"cleaned"}
          /\ \E keep \in [Duplicated -> Live] :
                /\ \A m \in Duplicated : rows[keep[m]].msg = m
                /\ rows' = [i \in Id |-> IF i \in Gone(keep) THEN NoRow ELSE rows[i]]
                /\ labels' = [i \in Id |-> IF i \in Gone(keep) THEN {}
                                          ELSE IF rows[i].msg \in Duplicated THEN Merged(rows[i].msg)
                                          ELSE labels[i]]
          /\ due' = {c \in due : c[1] \in Duplicated => \E i \in RowsOf(c[1]) : rows[i].folder = c[2]}
          /\ UNCHANGED failures
       \/ /\ "cleaned" \notin settled /\ Failure
          /\ UNCHANGED <<settled, rows, labels, due>>
    /\ UNCHANGED <<gmail, next, todo, moves, doubled, moved>>

Backfilled(i) == IF i \in Live /\ labels[i] = {} THEN {rows[i].folder} ELSE labels[i]

(* BackfillGmailLabels: the rows without a label get that of their folder. *)
(* The setting is written whether or not the statement succeeded.          *)
BackfillGmailLabels ==
    /\ worker.pc = "backfill"
    /\ worker' = Loop
    /\ settled' = settled \cup {"backfilled"}
    /\ \/ /\ "backfilled" \in settled
          /\ UNCHANGED <<labels, due, failures>>
       \/ /\ "backfilled" \notin settled
          /\ labels' = [i \in Id |-> Backfilled(i)]
          /\ UNCHANGED <<due, failures>>
       \/ /\ "backfilled" \notin settled /\ Failure
          /\ due' = {c \in due : c[1] \in Shown(c[2])}
          /\ UNCHANGED labels
    /\ UNCHANGED <<gmail, rows, next, todo, moves, doubled, moved>>

(* The connection ends at any step; an unfinished task stays queued.       *)
Disconnect ==
    /\ worker.pc # "off" /\ Failure
    /\ worker' = Off
    /\ UNCHANGED <<gmail, settled, rows, labels, next, todo, moves, due, doubled, moved>>

------------------------------------------------------------------------------
(* ProcessMessageStreamToFolder.                                           *)

(* Mutant: the lookup is by folder, as for other accounts.                 *)
ExistingInFolder(m, f) == {i \in RowsOf(m) : rows[i].folder = f}

(* GetEmailByMsgIDAccount: any row of the message, in whichever folder.    *)
Existing(m, f) == RowsOf(m)

(* The lookup is made for Gmail only.  If it fails the message is saved as *)
(* a new one.                                                              *)
Lookup(m, f) ==
    /\ worker.pc = "loop" /\ <<m, f>> \in todo
    /\ LET at == [Off EXCEPT !.msg = m, !.folder = f]
       IN \/ /\ gmail /\ Existing(m, f) # {}
             /\ \E i \in Existing(m, f) : worker' = [at EXCEPT !.pc = "labels", !.id = i]
             /\ UNCHANGED <<doubled, failures>>
          \/ /\ ~gmail \/ Existing(m, f) = {}
             /\ worker' = [at EXCEPT !.pc = "save"]
             /\ UNCHANGED <<doubled, failures>>
          \/ /\ gmail /\ Failure
             /\ worker' = [at EXCEPT !.pc = "save"]
             /\ doubled' = doubled \cup {m}
    /\ UNCHANGED <<gmail, settled, rows, labels, next, todo, moves, due, moved>>

(* The task is done: its copy is listed from now on, unless a write failed *)
(* or the row was deleted meanwhile.                                       *)
Finish(listed) ==
    /\ worker' = Loop
    /\ todo' = todo \ {<<worker.msg, worker.folder>>}
    /\ due' = IF listed THEN due \cup {<<worker.msg, worker.folder>>}
              ELSE due \ {<<worker.msg, worker.folder>>}

Appended(had, f) == had \cup {f}

(* GetGmailLabels and, in a step of its own, UpsertEmailLabels, which      *)
(* replaces the labels of the row by those read and the new one.           *)
GetGmailLabels ==
    /\ worker.pc = "labels"
    /\ \/ /\ worker.folder \notin labels[worker.id]
          /\ worker' = [worker EXCEPT !.pc = "upsert", !.had = labels[worker.id]]
          /\ UNCHANGED <<todo, due, failures>>
       \/ /\ worker.folder \in labels[worker.id]
          /\ Finish(worker.id \in Live)
          /\ UNCHANGED failures
       \/ Failure /\ Finish(FALSE)
    /\ UNCHANGED <<gmail, settled, rows, labels, next, moves, doubled, moved>>

UpsertEmailLabels ==
    /\ worker.pc = "upsert"
    /\ \/ /\ labels' = [labels EXCEPT ![worker.id] = Appended(worker.had, worker.folder)]
          /\ Finish(worker.id \in Live)
          /\ UNCHANGED failures
       \/ Failure /\ Finish(FALSE) /\ UNCHANGED labels
    /\ UNCHANGED <<gmail, settled, rows, next, moves, doubled, moved>>

(* SaveEmailToFolder: a row of the same folder is kept, with its id.  The  *)
(* first label goes to the id drawn for this ingest, which is the row's    *)
(* unless there was one already.                                           *)
SaveEmailToFolder ==
    /\ worker.pc = "save" /\ next <= MaxId
    /\ next' = next + 1
    /\ LET known == {i \in RowsOf(worker.msg) : rows[i].folder = worker.folder}
       IN rows' = IF known # {} THEN rows
                  ELSE [rows EXCEPT ![next] = [msg |-> worker.msg, folder |-> worker.folder]]
    /\ IF gmail THEN /\ worker' = [worker EXCEPT !.pc = "upsert", !.id = next, !.had = {}]
                     /\ UNCHANGED <<todo, due>>
       ELSE Finish(TRUE)
    /\ UNCHANGED <<gmail, settled, labels, moves, doubled, moved, failures>>

------------------------------------------------------------------------------
(* Moves and deletions.                                                    *)

(* MoveEmail by the user: the row changes its folder at once, the IMAP     *)
(* move is queued, in place of an older one.                               *)
MoveEmail(i, f) ==
    /\ moved < MaxMoves /\ i \in Live /\ rows[i].folder # f
    /\ \A j \in RowsOf(rows[i].msg) : rows[j].folder # f
    /\ moved' = moved + 1
    /\ rows' = [rows EXCEPT ![i].folder = f]
    /\ moves' = {v \in moves : v.id # i} \cup {[id |-> i, source |-> rows[i].folder, target |-> f]}
    /\ due' = due \ {<<rows[i].msg, rows[i].folder>>}
    /\ UNCHANGED <<gmail, settled, labels, next, todo, worker, doubled, failures>>

Relabelled(v) == (labels[v.id] \ {v.source}) \cup {v.target}

(* syncMoves: once Google moved the message, the source's label goes and   *)
(* the target's comes.  If the labels cannot be read, only the target's    *)
(* remains; if they cannot be written, they stay.  The message turns up in *)
(* the target as a new copy.                                               *)
SyncMove(v) ==
    /\ worker.pc = "loop" /\ v \in moves
    /\ moves' = moves \ {v}
    /\ LET m == rows[v.id].msg
       IN /\ \/ /\ gmail
                /\ labels' = [labels EXCEPT ![v.id] = Relabelled(v)]
                /\ due' = due \ {<<m, v.source>>}
                /\ UNCHANGED failures
             \/ /\ gmail /\ Failure
                /\ labels' \in {labels, [labels EXCEPT ![v.id] = {v.target}]}
                /\ due' = {c \in due : c[1] = m => c[2] = v.target}
             \/ /\ ~gmail
                /\ due' = due \ {<<m, v.source>>}
                /\ UNCHANGED <<labels, failures>>
          /\ todo' = IF v.id \in Live THEN todo \cup {<<m, v.target>>} ELSE todo
    /\ UNCHANGED <<gmail, settled, rows, next, worker, doubled, moved>>

(* DeleteEmail deletes the labels with the row when it is given the        *)
(* account; a filter rule gives none.                                      *)
DeleteEmail(i) ==
    /\ i \in Live
    /\ rows' = [rows EXCEPT ![i] = NoRow]
    /\ labels' \in {labels, [labels EXCEPT ![i] = {}]}
    /\ due' = {c \in due : c[1] # rows[i].msg}
    /\ UNCHANGED <<gmail, settled, next, todo, moves, worker, doubled, moved, failures>>

Next ==
    \/ \E m \in Msg, f \in Folder : Discover(m, f) \/ Lookup(m, f)
    \/ DetectGmail \/ CleanupGmailDuplicates \/ BackfillGmailLabels \/ Disconnect
    \/ GetGmailLabels \/ UpsertEmailLabels \/ SaveEmailToFolder
    \/ \E i \in Id, f \in Folder : MoveEmail(i, f)
    \/ \E v \in Move : SyncMove(v)
    \/ \E i \in Id : DeleteEmail(i)

Spec == Init /\ [][Next]_gmailVars

------------------------------------------------------------------------------
(* The state has the declared shape.                                       *)
TypeOK ==
    /\ gmail \in BOOLEAN /\ settled \subseteq {"cleaned", "backfilled"}
    /\ rows \in [Id -> Row \cup {NoRow}]
    /\ labels \in [Id -> SUBSET Folder]
    /\ next \in 1..MaxId + 1
    /\ todo \subseteq Msg \X Folder /\ due \subseteq Msg \X Folder
    /\ moves \subseteq Move
    /\ worker.pc \in {"off", "cleanup", "backfill", "loop", "labels", "upsert", "save"}
    /\ worker.id \in 0..MaxId /\ worker.had \subseteq Folder
    /\ doubled \subseteq Msg /\ moved \in 0..MaxMoves /\ failures \in 0..MaxFaults

(* Once the worker of a Gmail account synchronises, a mailbox lists every  *)
(* message ingested from it, whatever other mailboxes it came from, before *)
(* or after the account was known to be one of Google, and however often   *)
(* the worker was stopped half way: unless the message was moved or        *)
(* deleted, a write of labels failed, or a cleanup came late.              *)
CopiesListed ==
    gmail /\ worker.pc \in {"loop", "labels", "upsert", "save"} =>
        \A c \in due : c[1] \in Shown(c[2])

(* After the cleanup a message has one row, however many mailboxes show    *)
(* it, unless a lookup failed.                                             *)
OneRowPerMessage ==
    "cleaned" \in settled => \A m \in Msg \ doubled : \A i, j \in RowsOf(m) : i = j

(* A Gmail message is one row and shown in each of its mailboxes.          *)
LabelsKept == CopiesListed /\ OneRowPerMessage

=============================================================================
