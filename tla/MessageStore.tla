---------------------------- MODULE MessageStore ----------------------------
(***************************************************************************)
(* What an ingest leaves behind: the encrypted file of the body, the row   *)
(* in emails, the attachments with their files, which are stored by their  *)
(* hash, and the entry in emails_fts.  No transaction spans them.  Beside  *)
(* the ingest, messages are purged by the worker, deleted by the user or   *)
(* by a filter rule, the account is reset, the server crashes or shuts     *)
(* down, and the garbage collector runs while the server is down.          *)
(*                                                                         *)
(* One folder of one account, in an edition that stores attachments: Mono  *)
(* does not.  An ingest draws a fresh id: it names the body file and,      *)
(* if the message has no row yet, the row.  A message is ingested again    *)
(* when its queue entry was taken over or its UID changed.                 *)
(***************************************************************************)
EXTENDS Naturals, FiniteSets

CONSTANTS
    Msg,         \* messages of the folder
    NoMsg,
    NoEmail,
    Hash,        \* contents of attachments
    Content,     \* Msg -> the attachment it carries
    MaxId,       \* bound: ingests
    MaxCrashes   \* bound: crashes, and statements that fail

Id == 1..MaxId
Row == [id : Id, body : Id, has : BOOLEAN]

MessageStoreAssumption ==
    /\ IsFiniteSet(Msg) /\ NoMsg \notin Msg /\ NoEmail \notin Row
    /\ Content \in [Msg -> Hash]
    /\ MaxId \in Nat /\ MaxCrashes \in Nat

VARIABLES
    gmail,    \* whether the account is one of Google; never changes
    rows,     \* emails: id, body_path, has_attachments
    bodies,   \* files of storage/emails
    atts,     \* attachments: email_id and hash
    files,    \* files of storage/attachments
    index,    \* email_id of emails_fts
    next,     \* the next id
    ingest,   \* ProcessMessageStreamToFolder
    purge,    \* deleteLocalEmailCopy or handleDelete, between file and row
    reset,    \* ResetAccountSync, between the files and the rows
    gc,       \* RunGarbageCollector: the paths it read
    server,   \* up or down
    doomed,   \* history: messages whose body was removed first
    cut,      \* history: messages whose ingest ended early
    torn,     \* history: a reset was interrupted or met an ingest, or files in use were removed
    faults

vars == <<gmail, rows, bodies, atts, files, index, next, ingest, purge, reset, gc, server,
          doomed, cut, torn, faults>>

disk == <<bodies, files>>

------------------------------------------------------------------------------
Idle == [pc |-> "idle", msg |-> NoMsg, id |-> 0, new |-> FALSE, saved |-> FALSE]

HasRow(m) == rows[m] # NoEmail
Ids(r) == {r[m].id : m \in {n \in Msg : r[n] # NoEmail}}
Bodies(r) == {r[m].body : m \in {n \in Msg : r[n] # NoEmail}}
Hashes(A) == {a.hash : a \in A}

Fault == faults < MaxCrashes /\ faults' = faults + 1

Init ==
    /\ gmail \in BOOLEAN
    /\ rows = [m \in Msg |-> NoEmail]
    /\ bodies = {} /\ atts = {} /\ files = {} /\ index = {}
    /\ next = 1
    /\ ingest = Idle
    /\ purge = NoMsg /\ reset = FALSE
    /\ gc = [pc |-> "idle", bodies |-> {}, files |-> {}]
    /\ server = "up"
    /\ doomed = {} /\ cut = {} /\ torn = FALSE
    /\ faults = 0

(* DeleteEmail: the row goes.  Its attachments go with it only on a        *)
(* connection that enforces foreign keys: the pragma is executed on one    *)
(* connection of the pool.  Its entry in the index stays: the table is     *)
(* contentless, its columns read as NULL, and no entry has the email_id.   *)
DeleteRow(m) ==
    /\ rows' = [rows EXCEPT ![m] = NoEmail]
    /\ \E keys \in BOOLEAN :
          atts' = IF keys /\ HasRow(m) THEN {a \in atts : a.email # rows[m].id} ELSE atts
    /\ doomed' = doomed \ {m}

------------------------------------------------------------------------------
(* The ingest.                                                             *)

Goto(pc) == ingest' = [ingest EXCEPT !.pc = pc]

(* The body is written first.                                              *)
WriteBody(m) ==
    /\ server = "up" /\ ingest.pc = "idle" /\ next <= MaxId
    /\ bodies' = bodies \cup {next}
    /\ ingest' = [Idle EXCEPT !.pc = "save", !.msg = m, !.id = next]
    /\ next' = next + 1
    /\ UNCHANGED <<gmail, rows, atts, files, index, purge, reset, gc, server, doomed, cut, faults, torn>>

(* A message of Google that another label brought has a row already.  Its  *)
(* labels grow; the new file of the body is left behind.                   *)
SkipDuplicate ==
    /\ ingest.pc = "save" /\ gmail /\ HasRow(ingest.msg)
    /\ ingest' = Idle
    /\ UNCHANGED <<gmail, rows, disk, atts, index, next, purge, reset, gc, server, doomed, cut, faults, torn>>

(* SaveEmailToFolder: a known message keeps its id, but shows the new file *)
(* and no attachments.                                                     *)
Saved(m, id) ==
    IF HasRow(m) THEN [rows[m] EXCEPT !.body = id, !.has = FALSE]
    ELSE [id |-> id, body |-> id, has |-> FALSE]

SaveEmail ==
    /\ ingest.pc = "save" /\ ~(gmail /\ HasRow(ingest.msg))
    /\ \/ /\ rows' = [rows EXCEPT ![ingest.msg] = Saved(ingest.msg, ingest.id)]
          /\ ingest' = [ingest EXCEPT !.pc = "file", !.new = ~HasRow(ingest.msg)]
          /\ bodies' = bodies
          /\ doomed' = doomed \ {ingest.msg}
          /\ UNCHANGED faults
       \/ /\ Fault /\ ingest' = Idle
          /\ bodies' = bodies \ {ingest.id}
          /\ UNCHANGED <<rows, doomed>>
    /\ UNCHANGED <<gmail, files, atts, index, next, purge, reset, gc, server, cut, torn>>

(* CAS.Save writes the file unless it is there,                            *)
SaveFile ==
    /\ ingest.pc = "file"
    /\ files' = files \cup {Content[ingest.msg]}
    /\ Goto("attachment")
    /\ UNCHANGED <<gmail, rows, bodies, atts, index, next, purge, reset, gc, server, doomed, cut, faults, torn>>

(* looks for an attachment with the same content, of whichever message,    *)
(* and only adds a row if there is none.  The row names the id of the      *)
(* ingest; without an emails row of this id a foreign key may refuse it.   *)
SaveAttachment ==
    /\ ingest.pc = "attachment"
    /\ LET a == [email |-> ingest.id, hash |-> Content[ingest.msg]]
       IN \/ a.hash \in Hashes(atts) /\ atts' = atts
             /\ ingest' = [ingest EXCEPT !.pc = "flag", !.saved = TRUE]
          \/ a.hash \notin Hashes(atts) /\ atts' = atts \cup {a}
             /\ ingest' = [ingest EXCEPT !.pc = "flag", !.saved = TRUE]
          \/ a.hash \notin Hashes(atts) /\ a.email \notin Ids(rows) /\ atts' = atts
             /\ Goto("flag")
    /\ UNCHANGED <<gmail, rows, disk, index, next, purge, reset, gc, server, doomed, cut, faults, torn>>

(* UpdateEmailHasAttachments, for the id of the ingest.                    *)
SetFlag ==
    /\ ingest.pc = "flag"
    /\ rows' = [m \in Msg |->
           IF HasRow(m) /\ rows[m].id = ingest.id THEN [rows[m] EXCEPT !.has = ingest.saved]
           ELSE rows[m]]
    /\ Goto(IF ingest.new THEN "rules" ELSE "index")
    /\ UNCHANGED <<gmail, disk, atts, index, next, purge, reset, gc, server, doomed, cut, faults, torn>>

(* RunRules, for a new message: a rule may delete it, first the file of    *)
(* the row with its id, then the row.                                      *)
RunRules ==
    /\ ingest.pc = "rules"
    /\ \/ Goto("index") /\ UNCHANGED <<bodies, doomed>>
       \/ /\ Goto("delete")
          /\ LET M == {m \in Msg : HasRow(m) /\ rows[m].id = ingest.id}
             IN /\ bodies' = bodies \ {rows[m].body : m \in M}
                /\ doomed' = doomed \cup M
    /\ UNCHANGED <<gmail, rows, files, atts, index, next, purge, reset, gc, server, cut, faults, torn>>

HandleDelete ==
    /\ ingest.pc = "delete"
    /\ Goto("index")
    /\ \/ /\ \E m \in Msg : HasRow(m) /\ rows[m].id = ingest.id /\ DeleteRow(m)
          /\ UNCHANGED faults
       \/ Fault /\ UNCHANGED <<rows, atts, doomed>>
       \/ ingest.id \notin Ids(rows) /\ UNCHANGED <<rows, atts, doomed, faults>>
    /\ UNCHANGED <<gmail, disk, index, next, purge, reset, gc, server, cut, torn>>

(* Mutant: a message a rule has seen is not indexed.                       *)
EntryOfKnown == IF ingest.new THEN {} ELSE {ingest.id}

(* The entry of emails_fts has the id of the ingest.                       *)
Entry == {ingest.id}

(* storeIndex, deleted or not.  An error is logged.                        *)
StoreIndex ==
    /\ ingest.pc = "index"
    /\ ingest' = Idle
    /\ \/ index' = index \cup Entry /\ UNCHANGED <<cut, faults>>
       \/ Fault /\ cut' = cut \cup {ingest.msg} /\ UNCHANGED index
    /\ UNCHANGED <<gmail, rows, disk, atts, next, purge, reset, gc, server, doomed, torn>>

------------------------------------------------------------------------------
(* Removal.                                                                *)

(* deleteLocalEmailCopy: the file the row names, then the row.             *)
PurgeFile(m) ==
    /\ server = "up" /\ purge = NoMsg /\ HasRow(m)
    /\ purge' = m
    /\ bodies' = bodies \ {rows[m].body}
    /\ doomed' = doomed \cup {m}
    /\ UNCHANGED <<gmail, rows, files, atts, index, next, ingest, reset, gc, server, cut, faults, torn>>

PurgeRow ==
    /\ purge # NoMsg
    /\ purge' = NoMsg
    /\ \/ DeleteRow(purge) /\ UNCHANGED faults
       \/ Fault /\ UNCHANGED <<rows, atts, doomed>>
    /\ UNCHANGED <<gmail, disk, index, next, ingest, reset, gc, server, cut, torn>>

(* The user deletes a message: its file stays.                             *)
DeleteEmail(m) ==
    /\ server = "up" /\ HasRow(m)
    /\ DeleteRow(m)
    /\ UNCHANGED <<gmail, disk, index, next, ingest, purge, reset, gc, server, cut, faults, torn>>

(* ResetAccountSync.                                                       *)
ResetFiles ==
    /\ server = "up" /\ ~reset
    /\ reset' = TRUE
    /\ files' = files \ Hashes(atts)
    /\ bodies' = bodies \ Bodies(rows)
    /\ doomed' = {m \in Msg : HasRow(m)}
    /\ torn' = (torn \/ ingest # Idle)
    /\ UNCHANGED <<gmail, rows, atts, index, next, ingest, purge, gc, server, cut, faults>>

ResetRows ==
    /\ reset /\ reset' = FALSE
    /\ atts' = {}
    /\ rows' = [m \in Msg |-> NoEmail]
    /\ doomed' = {}
    /\ UNCHANGED <<gmail, disk, index, next, ingest, purge, gc, server, cut, faults, torn>>

------------------------------------------------------------------------------
(* The server stops, and the garbage collector.                            *)

StopAllWork == ingest' = Idle /\ purge' = NoMsg /\ reset' = FALSE

Interrupted == IF ingest.pc = "idle" THEN {} ELSE {ingest.msg}

Crash ==
    /\ server = "up" /\ Fault
    /\ server' = "down"
    /\ StopAllWork /\ cut' = cut \cup Interrupted
    /\ torn' = (torn \/ reset)
    /\ UNCHANGED <<gmail, rows, disk, atts, index, next, gc, doomed>>

(* The names DeleteUnused compares with the hashes in use: the directory   *)
(* and the name of a file, which already contains the directory.           *)
UsedNames(h) == "no such hash"

(* A signal: once the workers have stopped, DeleteUnused removes the files *)
(* whose names are not in use.                                             *)
ShutDown ==
    /\ server = "up" /\ ingest = Idle /\ purge = NoMsg /\ ~reset
    /\ server' = "down"
    /\ files' = {h \in files : UsedNames(h) \in Hashes(atts)}
    /\ torn' = (torn \/ files' # files)
    /\ UNCHANGED <<gmail, rows, bodies, atts, index, next, ingest, purge, reset, gc, doomed, cut, faults>>

(* ReindexFTS fills an index that is empty.                                *)
Start ==
    /\ server = "down" /\ gc.pc = "idle"
    /\ server' = "up"
    /\ index' = IF index = {} THEN Ids(rows) ELSE index
    /\ UNCHANGED <<gmail, rows, disk, atts, next, ingest, purge, reset, gc, doomed, cut, faults, torn>>

(* Mutant: only the bodies are asked for.                                  *)
ActiveBodies == [pc |-> "walk", bodies |-> Bodies(rows), files |-> {}]

(* Mutant: a body file is taken for that of the row whose id it has.       *)
ActiveIds == [pc |-> "walk", bodies |-> Ids(rows), files |-> Hashes(atts)]

(* GetActiveFilePaths; then every file that is not among them goes.        *)
ActivePaths == [pc |-> "walk", bodies |-> Bodies(rows), files |-> Hashes(atts)]

GetActiveFilePaths ==
    /\ server = "down" /\ gc.pc = "idle"
    /\ gc' = ActivePaths
    /\ UNCHANGED <<gmail, rows, disk, atts, index, next, ingest, purge, reset, server, doomed, cut, faults, torn>>

Walk ==
    /\ gc.pc = "walk"
    /\ gc' = [pc |-> "idle", bodies |-> {}, files |-> {}]
    /\ bodies' = bodies \cap gc.bodies
    /\ files' = files \cap gc.files
    /\ UNCHANGED <<gmail, rows, atts, index, next, ingest, purge, reset, server, doomed, cut, faults, torn>>

Next ==
    \/ \E m \in Msg : WriteBody(m) \/ PurgeFile(m) \/ DeleteEmail(m)
    \/ SkipDuplicate \/ SaveEmail \/ SaveFile \/ SaveAttachment \/ SetFlag
    \/ RunRules \/ HandleDelete \/ StoreIndex
    \/ PurgeRow \/ ResetFiles \/ ResetRows
    \/ Crash \/ ShutDown \/ Start \/ GetActiveFilePaths \/ Walk

Spec == Init /\ [][Next]_vars

------------------------------------------------------------------------------
(* Properties.                                                             *)

(* The state has the declared shape.                                       *)
TypeOK ==
    /\ rows \in [Msg -> Row \cup {NoEmail}]
    /\ bodies \subseteq Id /\ index \subseteq Id
    /\ files \subseteq Hash
    /\ atts \subseteq [email : Id, hash : Hash]
    /\ \A m, n \in Msg : m # n /\ HasRow(m) /\ HasRow(n) =>
          rows[m].id # rows[n].id /\ rows[m].body # rows[n].body
    /\ doomed \cup cut \subseteq Msg /\ {gmail, torn} \subseteq BOOLEAN
    /\ server = "down" => ingest = Idle /\ purge = NoMsg /\ ~reset

(* The body of a message can be read as long as the message has a row,     *)
(* from whichever interruption the row comes: only a removal under way, or *)
(* one whose second half failed, leaves a row without its file.            *)
BodyPresent ==
    \A m \in Msg : HasRow(m) => rows[m].body \in bodies \/ m \in doomed

(* An attachment the database knows has its file, unless a reset removed   *)
(* the files under an ingest or was cut off after it did, or a shutdown    *)
(* removed them.                                                           *)
AttachmentsBacked ==
    ~reset /\ ~torn => Hashes(atts) \subseteq files

(* The words of a message are in the index once its ingest is over, unless *)
(* this or an earlier one ended early: an ingest that finds a row indexes  *)
(* the message under an id of its own.                                     *)
Indexed ==
    \A m \in Msg \ (cut \cup {ingest.msg}) : HasRow(m) => rows[m].id \in index

(* What the database says of files on the disk is so.                      *)
RowsBacked == BodyPresent /\ AttachmentsBacked

=============================================================================
