----------------------------- MODULE FolderList -----------------------------
(***************************************************************************)
(* The rows of folders and who remembers them.  A pass over the mailboxes  *)
(* of an account (SyncAllFolders, run by the sync worker and by every      *)
(* priority check) makes rows with CreateFolder, while the messages it     *)
(* ingests find theirs through a cache of its Fetcher, filled by the first *)
(* message and kept until the next cycle.  Users create, rename and delete *)
(* rows, without a word to the mail server.                                *)
(*                                                                         *)
(* CreateFolder ends with INSERT ... ON CONFLICT DO UPDATE and then reads  *)
(* the row by the id it made up: for a path that has a row it returns      *)
(* neither a folder nor an error, and GetOrCreateFolder hands that on.     *)
(* A folder's name and its path are always the same text.  name_lower, by  *)
(* which GetFolderByName looks, is only written when the server starts.    *)
(* UIDs of a mailbox are 1, 2, ...; expunges and renumbered mailboxes are  *)
(* FolderSync's subject, the states of a task SyncQueue's.                 *)
(***************************************************************************)
EXTENDS Naturals, FiniteSets

CONSTANTS
    Path,        \* names of folders
    NoPath,
    Mailbox,     \* the mailboxes of the server
    Inbox, Trash,
    Syncer,      \* those who run passes
    Worker,      \* of these, the sync workers: they recover from a panic
    Checkpoint,  \* messages between two checkpoints of a full sync (50)
    MaxId,       \* bound: rows ever made
    MaxMail,     \* bound: messages of a mailbox
    MaxRequests  \* bound: requests, restarts and messages given up

FolderListAssumption ==
    /\ IsFiniteSet(Path) /\ NoPath \notin Path
    /\ Mailbox \subseteq Path /\ Inbox \in Mailbox /\ Trash \in Path
    /\ Worker \subseteq Syncer
    /\ {MaxId, MaxRequests} \subseteq Nat /\ {Checkpoint, MaxMail} \subseteq Nat \ {0}

Id == 1 .. MaxId

VARIABLES
    mail,      \* Mailbox -> number of its messages
    rows,      \* folders
    next,      \* the next id
    emails,    \* emails: mailbox, UID and folder_id
    tasks,     \* email_sync_queue: mailbox and UID of what is not completed
    done,      \* and of what is
    syncer,    \* the passes
    deleting,  \* rows between the two statements of DeleteFolder
    requests,  \* requests, restarts and messages given up that are left
    started,   \* history: next when the server started
    gone,      \* history: messages users deleted
    missed,    \* history: messages a pass, or the queue in the end, gave up
    outlived,  \* history: completed tasks that were there when their row went
    erased,    \* history: id of Trash and started, when a deletion found no Trash
    renamed,   \* history: paths a row was renamed from or to
    stale      \* history: paths whose row went away under a pass, or half

folderList == <<mail, rows, next, emails, tasks, done, syncer, deleting, requests,
                started, gone, missed, outlived, erased, renamed, stale>>

NoRow == [path |-> NoPath, lower |-> NoPath, last |-> 0]

Live(id) == id \in Id /\ rows[id] # NoRow

(* The row of a path, or 0 (GetFolders, UNIQUE(account_id, path)).         *)
FolderOf(p) == IF \E id \in Id : rows[id].path = p
               THEN CHOOSE id \in Id : rows[id].path = p ELSE 0

Uncached == [p \in Path |-> 0]

Unlisted == [p \in Path |-> [id |-> 0, last |-> 0]]

AtRest == [pc |-> "idle", todo |-> {}, listed |-> Unlisted, loaded |-> FALSE, cache |-> Uncached,
           at |-> NoPath, id |-> 0, folder |-> 0, last |-> 0, pos |-> 0, end |-> 0,
           top |-> 0, batch |-> 0]

Init ==
    /\ mail \in [Mailbox -> 0 .. 1]
    /\ rows = [id \in Id |-> NoRow] /\ next = 1
    /\ emails = {} /\ tasks = {} /\ done = {}
    /\ syncer = [s \in Syncer |-> AtRest]
    /\ deleting = {} /\ requests = MaxRequests
    /\ started = 1 /\ gone = {} /\ missed = {} /\ outlived = {}
    /\ erased = {} /\ renamed = {} /\ stale = {}

queue == <<tasks, done>>

history == <<started, gone, missed, outlived, erased, renamed, stale>>

------------------------------------------------------------------------------
(* CreateFolder, for a path without a row; name_lower stays NULL.          *)
Create(p) ==
    /\ next <= MaxId
    /\ rows' = [rows EXCEPT ![next] = [NoRow EXCEPT !.path = p]]
    /\ next' = next + 1

(* CreateFolder, as syncFolder calls it: what it returns is not looked at. *)
Ensure(p) == IF FolderOf(p) = 0 THEN Create(p) ELSE UNCHANGED <<rows, next>>

(* What is left of a pass over one mailbox when it goes on to the next.    *)
Passed(state) ==
    [AtRest EXCEPT !.pc = "folder", !.todo = state.todo, !.listed = state.listed,
                   !.loaded = state.loaded, !.cache = state.cache]

Becomes(s, state) == syncer' = [syncer EXCEPT ![s] = state]

------------------------------------------------------------------------------
(* A pass.                                                                 *)

(* ListFolders, where todo is what LIST answered: ids and cursors are those *)
(* of the rows there are now.                                              *)
Listing(state, todo) ==
    [state EXCEPT !.pc = "folder", !.todo = todo,
                  !.listed = [p \in Path |->
                                 LET id == FolderOf(p)
                                 IN [id |-> id, last |-> IF id = 0 THEN 0 ELSE rows[id].last]]]

(* A cycle of the worker clears the cache of its Fetcher, and a priority   *)
(* check has a Fetcher of its own.  When LIST fails, only INBOX is         *)
(* synchronised, as if it had no row.                                      *)
SyncAllFolders(s) ==
    /\ syncer[s].pc = "idle"
    /\ \/ Becomes(s, Listing(AtRest, Mailbox))
       \/ Becomes(s, [AtRest EXCEPT !.pc = "folder", !.todo = {Inbox}])
    /\ UNCHANGED <<mail, rows, next, emails, queue, deleting, requests, history>>

(* INBOX comes first and Trash last.                                       *)
Turn(p, todo) ==
    /\ p \in todo
    /\ Inbox \in todo => p = Inbox
    /\ p = Trash => todo = {Trash}

(* syncFolder: a mailbox that is empty, or that SELECT fails for, is       *)
(* passed over; one whose listed cursor is 0 gets its row.                 *)
SyncFolder(s) ==
    /\ syncer[s].pc = "folder"
    /\ \E p \in syncer[s].todo :
          /\ Turn(p, syncer[s].todo)
          /\ LET known == syncer[s].listed[p]
                 rest == [syncer[s] EXCEPT !.todo = @ \ {p}, !.listed[p] = Unlisted[p]]
                 state == [rest EXCEPT !.at = p, !.id = known.id,
                                       !.last = known.last, !.end = mail[p]]
             IN \/ /\ Becomes(s, rest)
                   /\ UNCHANGED <<rows, next>>
                \/ /\ mail[p] > 0
                   /\ IF known.last = 0 THEN Ensure(p) ELSE UNCHANGED <<rows, next>>
                   /\ Becomes(s, [state EXCEPT !.pc = "read"])
    /\ UNCHANGED <<mail, emails, queue, deleting, requests, history>>

(* syncFolderByUID looks for a row that was not listed, and takes its      *)
(* cursor; when there is none, it makes one.                               *)
FindFolder(s) ==
    /\ syncer[s].pc = "read"
    /\ LET p == syncer[s].at
           id == IF syncer[s].id # 0 THEN syncer[s].id ELSE FolderOf(p)
           last == IF syncer[s].id # 0 \/ id = 0 THEN syncer[s].last ELSE rows[id].last
           state == [syncer[s] EXCEPT !.last = last, !.pos = last + 1]
       IN IF id # 0
          THEN /\ Becomes(s, [state EXCEPT !.id = id, !.pc = IF last = 0 THEN "fetch" ELSE "enqueue"])
               /\ UNCHANGED <<rows, next>>
          ELSE /\ Create(p)
               /\ Becomes(s, [state EXCEPT !.id = next, !.pc = "fetch"])
    /\ UNCHANGED <<mail, emails, queue, deleting, requests, history>>

(* The error of a cursor update is ignored; it is FolderSync's subject.    *)
SetCursor(id, last) ==
    rows' = IF Live(id) THEN [rows EXCEPT ![id].last = last] ELSE rows

(* Every so many messages of a full sync, what was reached is written.     *)
TakeCheckpoint(s) ==
    /\ syncer[s].pc = "checkpoint"
    /\ SetCursor(syncer[s].id, syncer[s].top)
    /\ Becomes(s, [syncer[s] EXCEPT !.pc = "fetch", !.batch = 0])
    /\ UNCHANGED <<mail, next, emails, queue, deleting, requests, history>>

(* A full sync is through with a mailbox, at its end or because the stream *)
(* broke.  Mutant: the cursor is that of the end in both cases.            *)
NextFolderAtEnd(s) ==
    /\ syncer[s].pc = "fetch"
    /\ SetCursor(syncer[s].id, syncer[s].end)
    /\ Becomes(s, Passed(syncer[s]))

NextFolder(s) ==
    /\ syncer[s].pc = "fetch"
    /\ IF syncer[s].top > syncer[s].last THEN SetCursor(syncer[s].id, syncer[s].top)
       ELSE UNCHANGED rows
    /\ Becomes(s, Passed(syncer[s]))

EndFetch(s) ==
    /\ NextFolder(s)
    /\ UNCHANGED <<mail, next, emails, queue, deleting, requests, history>>

(* An incremental sync leaves the messages to the consumer, unless FETCH   *)
(* or the queue fails.  A task that is completed remains so.               *)
EnqueueUIDs(s) ==
    /\ syncer[s].pc = "enqueue"
    /\ LET new == syncer[s].last + 1 .. syncer[s].end
       IN \/ /\ tasks' = tasks \cup ({<<syncer[s].at, u>> : u \in new} \ done)
             /\ IF new = {} THEN UNCHANGED rows ELSE SetCursor(syncer[s].id, syncer[s].end)
          \/ UNCHANGED <<tasks, rows>>
    /\ Becomes(s, Passed(syncer[s]))
    /\ UNCHANGED <<mail, next, emails, done, deleting, requests, history>>

------------------------------------------------------------------------------
(* Messages.                                                               *)

(* GetOrCreateFolder.  A cache that was loaded before the row was made     *)
(* does not have it, and CreateFolder returns none: the message is stored  *)
(* with the id of a nil folder.                                            *)
GetOrCreateFolder(s, state) ==
    LET p == state.at
        cache == IF state.loaded THEN state.cache ELSE [q \in Path |-> FolderOf(q)]
        known == [state EXCEPT !.loaded = TRUE, !.cache = cache]
    IN \/ /\ cache[p] # 0
          /\ Becomes(s, [known EXCEPT !.folder = cache[p], !.pc = "save"])
          /\ UNCHANGED <<rows, next>>
       \/ /\ cache[p] = 0 /\ FolderOf(p) = 0
          /\ Create(p)
          /\ Becomes(s, [known EXCEPT !.cache[p] = next, !.folder = next, !.pc = "save"])
       \/ /\ cache[p] = 0 /\ FolderOf(p) # 0
          /\ Becomes(s, [known EXCEPT !.folder = 0, !.pc = "panic"])
          /\ UNCHANGED <<rows, next>>

(* The next message of a full sync.                                        *)
Fetch(s) ==
    /\ syncer[s].pc = "fetch" /\ syncer[s].pos <= syncer[s].end
    /\ GetOrCreateFolder(s, syncer[s])
    /\ UNCHANGED <<mail, emails, queue, deleting, requests, history>>

(* consumerLoop takes a task; the cache is still that of the pass.         *)
ProcessTask(s) ==
    /\ s \in Worker
    /\ syncer[s].pc = "folder" /\ syncer[s].todo = {}
    /\ \E t \in tasks :
          GetOrCreateFolder(s, [syncer[s] EXCEPT !.at = t[1], !.pos = t[2], !.end = 0])
    /\ UNCHANGED <<mail, emails, queue, deleting, requests, history>>

(* SaveEmailToFolder.  PRAGMA foreign_keys holds for the connection it was *)
(* sent on: elsewhere a row may be written for a folder that is gone.      *)
Ingest(me) ==
    emails' = emails \cup {[path |-> me.at, uid |-> me.pos, folder |-> me.folder]}

Request == requests > 0 /\ requests' = requests - 1

GiveUp(t) == Request /\ missed' = missed \cup {t}

(* A full sync passes over a message whose ingest fails; the error may     *)
(* come with its UID or with UID 0.                                        *)
FullSave(s) ==
    /\ syncer[s].pc = "save" /\ syncer[s].end # 0
    /\ LET me == syncer[s]
       IN \E ok, reported \in BOOLEAN :
             /\ ok => reported
             /\ IF ok THEN Ingest(me) /\ UNCHANGED <<missed, requests>>
                ELSE GiveUp(<<me.at, me.pos>>) /\ UNCHANGED emails
             /\ LET top == IF reported THEN me.pos ELSE me.top
                    batch == me.batch + 1
                    due == batch >= Checkpoint /\ top > me.last
                IN Becomes(s, [me EXCEPT !.pc = IF due THEN "checkpoint" ELSE "fetch",
                                         !.pos = @ + 1, !.top = top, !.batch = batch])
    /\ UNCHANGED <<mail, rows, next, queue, deleting,
                   started, gone, outlived, erased, renamed, stale>>

(* A task whose ingest fails stays in the queue, perhaps for good.         *)
TaskSave(s) ==
    /\ syncer[s].pc = "save" /\ syncer[s].end = 0
    /\ LET t == <<syncer[s].at, syncer[s].pos>>
       IN \/ /\ Ingest(syncer[s])
             /\ tasks' = tasks \ {t}
             /\ done' = IF t \in tasks THEN done \cup {t} ELSE done
             /\ UNCHANGED <<missed, requests>>
          \/ (UNCHANGED <<missed, requests>> \/ GiveUp(t)) /\ UNCHANGED <<emails, queue>>
    /\ Becomes(s, Passed(syncer[s]))
    /\ UNCHANGED <<mail, rows, next, deleting,
                   started, gone, outlived, erased, renamed, stale>>

(* Completed tasks are removed after a day, those that failed for good     *)
(* after a week.                                                           *)
CleanQueueGarbage(t) ==
    /\ \/ t \in done /\ done' = done \ {t} /\ UNCHANGED tasks
       \/ t \in tasks \cap missed /\ tasks' = tasks \ {t} /\ UNCHANGED done
    /\ UNCHANGED <<mail, rows, next, emails, syncer, deleting, requests, history>>

(* syncNonInboxFolders, every few minutes, with the same cache.            *)
SyncNonInboxFolders(s) ==
    /\ s \in Worker
    /\ syncer[s].pc = "folder" /\ syncer[s].todo = {} /\ tasks = {}
    /\ Becomes(s, Listing(syncer[s], Mailbox \ {Inbox}))
    /\ UNCHANGED <<mail, rows, next, emails, queue, deleting, requests, history>>

(* A pass ends: a priority check after its last mailbox, the worker with   *)
(* its connection, or because it was cancelled.                            *)
EndPass(s) ==
    /\ syncer[s].pc \notin {"idle", "panic"}
    /\ s \notin Worker => syncer[s].todo = {} /\ syncer[s].pc = "folder"
    /\ Becomes(s, AtRest)
    /\ UNCHANGED <<mail, rows, next, emails, queue, deleting, requests, history>>

------------------------------------------------------------------------------
(* The process ends and starts again: InitSchema fills name_lower in.      *)
Restart ==
    /\ rows' = [id \in Id |-> IF rows[id].lower = NoPath
                              THEN [rows[id] EXCEPT !.lower = rows[id].path] ELSE rows[id]]
    /\ started' = next
    /\ syncer' = [s \in Syncer |-> AtRest]
    /\ deleting' = {}
    /\ stale' = stale \cup {rows[id].path : id \in deleting}
    /\ UNCHANGED <<mail, next, emails, queue, gone, missed, outlived, erased, renamed>>

(* The nil folder is used.  The worker's panic is recovered: it is gone,   *)
(* and another may be started.  Nothing recovers that of a priority check, *)
(* which runs in a goroutine of the request: the server dies.              *)
Panic(s) ==
    /\ syncer[s].pc = "panic"
    /\ \/ /\ s \in Worker /\ Becomes(s, AtRest)
          /\ UNCHANGED <<mail, rows, next, emails, queue, deleting, history>>
       \/ s \notin Worker /\ Restart
    /\ UNCHANGED requests

(* A pass remembers a row it may still write to.                           *)
Remembered(id) ==
    \E s \in Syncer : syncer[s].pc # "idle" /\
        id \in {syncer[s].id, syncer[s].folder} \cup
               {syncer[s].listed[p].id : p \in Path} \cup {syncer[s].cache[p] : p \in Path}

System == {Inbox, Trash}

CreateFolder(p) ==
    /\ Request /\ FolderOf(p) = 0
    /\ Create(p)
    /\ UNCHANGED <<mail, emails, queue, syncer, deleting, history>>

(* UPDATE folders SET name = ?, path = ?: fails if the path is taken.      *)
RenameFolder(id, p) ==
    /\ Request /\ Live(id) /\ FolderOf(p) = 0
    /\ rows[id].path \notin System /\ p \notin System
    /\ rows' = [rows EXCEPT ![id].path = p]
    /\ renamed' = renamed \cup {rows[id].path, p}
    /\ UNCHANGED <<mail, next, emails, queue, syncer, deleting,
                   started, gone, missed, outlived, erased, stale>>

(* DeleteFolder: the emails, and then the row.                             *)
DeleteEmails(id) ==
    /\ Request /\ Live(id) /\ id \notin deleting
    /\ rows[id].path \notin System
    /\ emails' = {e \in emails : e.folder # id}
    /\ deleting' = deleting \cup {id}
    /\ UNCHANGED <<mail, rows, next, queue, syncer, history>>

DeleteFolder(id) ==
    /\ id \in deleting
    /\ rows' = [rows EXCEPT ![id] = NoRow]
    /\ deleting' = deleting \ {id}
    /\ stale' = IF Remembered(id) \/ \E e \in emails : e.folder = id
                THEN stale \cup {rows[id].path} ELSE stale
    /\ outlived' = outlived \cup {t \in done : t[1] = rows[id].path}
    /\ UNCHANGED <<mail, next, emails, queue, syncer, requests,
                   started, gone, missed, erased, renamed>>

(* deleteEmail asks for Trash by name and, without an answer, creates it.  *)
(* If it has a row all the same, the message is deleted for good.          *)
DeleteEmail(e) ==
    /\ Request
    /\ emails' = emails \ {e}
    /\ gone' = gone \cup {<<e.path, e.uid>>}
    /\ LET trash == FolderOf(Trash)
           found == \E id \in Id : rows[id].lower = Trash
       IN IF found THEN UNCHANGED <<rows, next, erased>>
          ELSE IF trash = 0 THEN Create(Trash) /\ UNCHANGED erased
          ELSE /\ erased' = erased \cup {<<trash, started>>}
               /\ UNCHANGED <<rows, next>>
    /\ UNCHANGED <<mail, queue, syncer, deleting, started, missed, outlived, renamed, stale>>

Arrive(p) ==
    /\ mail[p] < MaxMail
    /\ mail' = [mail EXCEPT ![p] = @ + 1]
    /\ UNCHANGED <<rows, next, emails, queue, syncer, deleting, requests, history>>

PassStep(s) ==
    \/ SyncAllFolders(s) \/ SyncFolder(s) \/ FindFolder(s) \/ EnqueueUIDs(s)
    \/ Fetch(s) \/ FullSave(s) \/ TakeCheckpoint(s) \/ EndFetch(s)
    \/ ProcessTask(s) \/ TaskSave(s) \/ SyncNonInboxFolders(s) \/ EndPass(s) \/ Panic(s)

Next ==
    \/ \E s \in Syncer : PassStep(s)
    \/ \E p \in Mailbox : Arrive(p)
    \/ \E p \in Path : CreateFolder(p)
    \/ \E id \in Id : DeleteEmails(id) \/ DeleteFolder(id) \/ \E p \in Path : RenameFolder(id, p)
    \/ \E e \in emails : DeleteEmail(e)
    \/ \E t \in tasks \cup done : CleanQueueGarbage(t)
    \/ Request /\ Restart

Spec == Init /\ [][Next]_folderList

------------------------------------------------------------------------------
Message == Path \X (1 .. MaxMail)

(* The states have the declared shape, and no two rows have one path.      *)
TypeOK ==
    /\ mail \in [Mailbox -> 0 .. MaxMail]
    /\ rows \in [Id -> [path : Path \cup {NoPath}, lower : Path \cup {NoPath}, last : 0 .. MaxMail]]
    /\ next \in 1 .. MaxId + 1 /\ started \in 1 .. next
    /\ \A i, j \in Id : Live(i) /\ rows[i].path = rows[j].path => i = j
    /\ emails \subseteq [path : Path, uid : 1 .. MaxMail, folder : Id]
    /\ tasks \cup done \cup gone \cup missed \cup outlived \subseteq Message
    /\ \A s \in Syncer :
          /\ syncer[s].pc \in {"idle", "folder", "read", "fetch", "enqueue", "save", "checkpoint", "panic"}
          /\ syncer[s].pc = "save" => syncer[s].folder # 0
    /\ deleting \subseteq Id /\ renamed \cup stale \subseteq Path

Steady == Path \ (renamed \cup stale)

(* The rows of messages belong to the folder that has the name of their    *)
(* mailbox, whichever of the caches their ids came from.                   *)
EmailsInTheirFolder ==
    \A e \in emails : e.path \in Steady => Live(e.folder) /\ rows[e.folder].path = e.path

(* The cursor of a folder passes over no message that is not saved,        *)
(* queued, deleted by a user or given up after failures, although streams  *)
(* break, passes end in a panic, rows are made and removed under them, and *)
(* new rows start again from the first message.  A task that was completed *)
(* before its folder's row was removed is not queued again for the new     *)
(* row, and its message is passed over, when a broken stream leaves it to  *)
(* the queue.                                                              *)
CursorsCover ==
    \A id \in Id \ deleting : Live(id) /\ rows[id].path \in Steady =>
        \A u \in 1 .. rows[id].last :
            \/ <<rows[id].path, u>> \in tasks \cup gone \cup missed \cup outlived
            \/ \E e \in emails : e.folder = id /\ e.uid = u

(* A message is deleted for good, although Trash has a row, only as long   *)
(* as that row is younger than the process.                                *)
TrashFoundAfterStart == \A pair \in erased : pair[1] >= pair[2]

(* What folders, their messages and their cursors have to do with another. *)
FoldersSound == EmailsInTheirFolder /\ CursorsCover /\ TrashFoundAfterStart
=============================================================================
